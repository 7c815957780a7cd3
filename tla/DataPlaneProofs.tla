--------------------------- MODULE DataPlaneProofs ---------------------------
(***************************************************************************)
(* Proofs about the data plane.  The rate limiter: whatever order the      *)
(* requests of a client read the clock and reach its bucket in, across the *)
(* wrap of the stamps and the sweep, it is granted no more than its burst  *)
(* and what accrues.  The sync connections: slots, ages, holds and the one *)
(* connection of a data plane, over every exit path.  The client's socket: *)
(* its stalls and its close within their budgets.  The chunked framing: a  *)
(* peer ends a body where the observer does.                               *)
(*                                                                         *)
(* The induction theorems of the library take an operator, which no        *)
(* backend instantiates; Least is the induction principle used here: a set *)
(* of naturals has a least element, from the well-founded inclusion of     *)
(* finite sets.                                                            *)
(***************************************************************************)
EXTENDS RateLimit, SyncTransport, ClientStream, Chunked, WellFoundedInduction, FiniteSetTheorems,
        SequenceTheorems, TLAPS

-----------------------------------------------------------------------------
\* Every set of natural numbers has a least element.
LEMMA Least ==
    ASSUME NEW S \in SUBSET Nat, S # {}
    PROVE  \E n \in S : \A m \in S : n <= m
<1> DEFINE T == {1 .. n : n \in S}
<1>1. T # {} /\ T \subseteq FiniteSubsetsOf(Nat)
  <2>1. ASSUME NEW n \in S PROVE 1 .. n \in FiniteSubsetsOf(Nat)
    <3>1. IsFiniteSet(1 .. n)
        BY FS_Interval
    <3> QED  BY <3>1 DEF FiniteSubsetsOf
  <2> QED  BY <2>1
<1>2. IsWellFoundedOn(StrictSubsetOrdering(Nat), FiniteSubsetsOf(Nat))
    BY FS_StrictSubsetOrderingWellFounded
<1>3. PICK x \in T : \A y \in T : ~(<<y, x>> \in StrictSubsetOrdering(Nat))
  <2> HIDE DEF T
  <2> QED  BY <1>1, <1>2, WFMin
<1>4. PICK n \in S : x = 1 .. n
    BY <1>3
<1>5. ASSUME NEW m \in S, m < n PROVE FALSE
  <2>1. 1 .. m \in T
      BY <1>5
  <2>2. 1 .. m \subseteq 1 .. n /\ n \in 1 .. n /\ n \notin 1 .. m /\ 1 .. n \subseteq Nat
      BY <1>5
  <2>3. <<1 .. m, 1 .. n>> \in StrictSubsetOrdering(Nat)
      BY <2>2 DEF StrictSubsetOrdering
  <2>4. ~(<<1 .. m, x>> \in StrictSubsetOrdering(Nat))
    <3> HIDE DEF T
    <3> QED  BY <1>3, <2>1
  <2> HIDE DEF T
  <2> QED  BY <1>4, <2>3, <2>4
<1>6. ASSUME NEW m \in S PROVE n <= m
  <2>1. m \in Nat /\ n \in Nat /\ ~(m < n)
      BY <1>5
  <2> QED  BY <2>1
<1> QED  BY <1>6

\* A finite one has a greatest, by induction on its size.
LEMMA Greatest ==
    ASSUME NEW S \in SUBSET Nat, S # {}, IsFiniteSet(S)
    PROVE  \E n \in S : \A m \in S : m <= n
<1> DEFINE Endless(U) == U # {} /\ \A x \in U : \E y \in U : y > x
           T == {n \in Nat : \E U \in SUBSET S : Endless(U) /\ Cardinality(U) = n}
<1>1. SUFFICES ASSUME T # {} PROVE FALSE
  <2>1. Cardinality(S) \in Nat
      BY FS_CardinalityType
  <2>2. ~(\E n \in S : \A m \in S : m <= n) => Endless(S) /\ S \in SUBSET S
      OBVIOUS
  <2> QED  BY <1>1, <2>1, <2>2
<1>2. PICK n \in T : \A m \in T : n <= m
  <2>1. T \in SUBSET Nat
      OBVIOUS
  <2> HIDE DEF T
  <2> QED  BY <1>1, <2>1, Least
<1>3. PICK U \in SUBSET S : Endless(U) /\ Cardinality(U) = n
    BY <1>2
<1>4. PICK x \in U : TRUE
    BY <1>3
<1> DEFINE V == U \ {x}
<1>5. IsFiniteSet(U) /\ IsFiniteSet(V) /\ Cardinality(V) = n - 1 /\ Cardinality(V) \in Nat
    BY <1>3, <1>4, FS_Subset, FS_RemoveElement, FS_CardinalityType
<1>6. V # {} /\ V \in SUBSET S /\ Cardinality(V) \notin T
  <2>1. PICK y \in U : y > x
      BY <1>3, <1>4
  <2>2. y # x /\ n \in Nat
      BY <1>3, <1>4, <2>1
  <2>3. V \in SUBSET S
      BY <1>3
  <2>4. Cardinality(V) \notin T
    <3> HIDE DEF T, V
    <3> QED  BY <1>2, <1>5, <2>2
  <2> QED  BY <2>1, <2>2, <2>3, <2>4
<1>7. PICK z \in V : \A y \in V : ~(y > z)
    BY <1>5, <1>6
<1> QED  BY <1>3, <1>4, <1>7

-----------------------------------------------------------------------------
\* Division with remainder, and that the remainder is unique.
LEMMA Division ==
    ASSUME NEW w \in Nat \ {0}, NEW a \in Int
    PROVE  (a \div w) \in Int /\ a = (a \div w) * w + (a % w) /\ (a % w) \in 0 .. w - 1
OBVIOUS

LEMMA Remainder ==
    ASSUME NEW w \in Nat \ {0}, NEW q \in Int, NEW p \in Int, NEW r \in 0 .. w - 1, NEW s \in 0 .. w - 1,
           q * w + r = p * w + s
    PROVE  r = s
OBVIOUS

\* The wrapped difference of two times less than the modulus apart.
LEMMA Wrapped ==
    ASSUME NEW w \in Nat \ {0}, NEW a \in Nat, NEW b \in Nat, a - b < w, b - a < w
    PROVE  ((a % w) - (b % w) + w) % w = IF a >= b THEN a - b ELSE a - b + w
<1> DEFINE x == (a % w) - (b % w) + w
           r == IF a >= b THEN a - b ELSE a - b + w
           p == (b \div w) - (a \div w) + (IF a >= b THEN 1 ELSE 0)
<1>1. /\ (a \div w) \in Int /\ a = (a \div w) * w + (a % w) /\ (a % w) \in 0 .. w - 1
      /\ (b \div w) \in Int /\ b = (b \div w) * w + (b % w) /\ (b % w) \in 0 .. w - 1
    BY Division
<1>2. x \in Int /\ r \in 0 .. w - 1 /\ p \in Int
    BY <1>1
<1>3. x = p * w + r
  <2>1. \A i, j, k \in Int : (i - j + k) * w = i * w - j * w + k * w
      OBVIOUS
  <2> DEFINE wa == (a \div w) * w
             wb == (b \div w) * w
             pw == p * w
  <2>2. pw = wb - wa + (IF a >= b THEN 1 ELSE 0) * w
      BY <1>1, <2>1
  <2>3. pw = wb - wa + (IF a >= b THEN w ELSE 0)
      BY <2>2
  <2>4. a = wa + (a % w) /\ b = wb + (b % w) /\ wa \in Int /\ wb \in Int
      BY <1>1
  <2>5. (a % w) \in Int /\ (b % w) \in Int
      BY <1>1
  <2> HIDE DEF wa, wb, pw
  <2>6. x = pw + r
      BY <2>3, <2>4, <2>5
  <2> QED  BY <2>6 DEF pw
<1> HIDE DEF x, r, p
<1>4. (x \div w) \in Int /\ x = (x \div w) * w + (x % w) /\ (x % w) \in 0 .. w - 1
    BY <1>2, Division
<1>5. x % w = r
    BY <1>2, <1>3, <1>4, Remainder
<1> QED  BY <1>5 DEF x, r

\* elapsed reads the age of a stamp for what it is, if it is below half the
\* modulus either way, and tells that `now` is the older.
LEMMA ElapsedIsTrue ==
    ASSUME NEW now \in Nat, NEW stamp \in Nat, now - stamp < Backwards, stamp - now <= Backwards
    PROVE  Elapsed(now % Wrap, stamp % Wrap) = IF now >= stamp THEN now - stamp ELSE -1
<1>1. Wrap \in Nat \ {0} /\ 2 * Backwards = Wrap /\ Backwards \in Nat \ {0}
    BY RateAssumption
<1>2. ((now % Wrap) - (stamp % Wrap) + Wrap) % Wrap = IF now >= stamp THEN now - stamp ELSE now - stamp + Wrap
  <2>1. now - stamp < Wrap /\ stamp - now < Wrap
      BY <1>1
  <2> QED  BY <1>1, <2>1, Wrapped
<1> QED  BY <1>1, <1>2 DEF Elapsed


-----------------------------------------------------------------------------
(* The rate limiter. *)

TopRate  == MaxOf(Rates)
TopBurst == MaxOf(Bursts)
LowRate  == MinOf(Rates)
LowBurst == MinOf(Bursts)

LEMMA LimitBounds ==
    /\ TopRate \in Nat /\ TopBurst \in Nat /\ LowRate \in Nat /\ LowBurst \in Nat
    /\ \A l \in Limits : /\ l.rate \in Nat /\ l.burst \in Nat
                         /\ LowRate <= l.rate /\ l.rate <= TopRate
                         /\ LowBurst <= l.burst /\ l.burst <= TopBurst
<1>1. Rates \in SUBSET Nat /\ Rates # {} /\ IsFiniteSet(Rates)
      /\ Bursts \in SUBSET Nat /\ Bursts # {} /\ IsFiniteSet(Bursts)
  <2>1. IsFiniteSet(Rates)
    <3> DEFINE f == [l \in Limits |-> l.rate]
    <3>1. f \in Surjection(Limits, Rates)
        BY DEF Surjection, Rates
    <3> QED  BY <3>1, FS_Surjection, RateAssumption
  <2>2. IsFiniteSet(Bursts)
    <3> DEFINE f == [l \in Limits |-> l.burst]
    <3>1. f \in Surjection(Limits, Bursts)
        BY DEF Surjection, Bursts
    <3> QED  BY <3>1, FS_Surjection, RateAssumption
  <2> QED  BY <2>1, <2>2, RateAssumption DEF Rates, Bursts
<1>2. TopRate \in Rates /\ \A x \in Rates : x <= TopRate
    BY <1>1, Greatest DEF TopRate, MaxOf
<1>3. TopBurst \in Bursts /\ \A x \in Bursts : x <= TopBurst
    BY <1>1, Greatest DEF TopBurst, MaxOf
<1>4. LowRate \in Rates /\ \A x \in Rates : LowRate <= x
    BY <1>1, Least DEF LowRate, MinOf
<1>5. LowBurst \in Bursts /\ \A x \in Bursts : LowBurst <= x
    BY <1>1, Least DEF LowBurst, MinOf
<1>6. \A l \in Limits : l.rate \in Rates /\ l.burst \in Bursts
    BY DEF Rates, Bursts
<1> QED  BY <1>1, <1>2, <1>3, <1>4, <1>5, <1>6

Bucket == [stamp : Nat, tokens : Nat]
Asking == [pc : {"rest", "look", "entry", "swap"}, now : Nat, limit : Limits, cur : Bucket \cup {NoCell}]

RateType ==
    /\ clock \in Nat /\ limit \in Limits /\ refs \in Nat /\ swept \in Nat /\ trueStamp \in Nat /\ slack \in Int
    /\ cell \in Bucket \cup {NoCell} /\ ask \in [Asker -> Asking]
    /\ sweep \in [pc : {"no", "yes"}, now : Nat, limit : Limits]

\* Readings are recent, and a request that holds the shard has a bucket.
Timely ==
    /\ \A r \in Asker : /\ ask[r].pc # "rest" => ask[r].now <= clock /\ clock - ask[r].now <= Delay
                        /\ ask[r].pc = "swap" => cell # NoCell
    /\ swept <= clock /\ clock - swept <= Interval
    /\ sweep.pc = "yes" => sweep.now = swept /\ clock - swept <= Delay

\* A bucket is never older, at the last sweep, than what that sweep keeps or
\* what a request touched meanwhile.
Young(stamp) ==
    /\ stamp <= clock
    /\ swept - stamp <= Stale + Delay + (IF sweep.pc = "yes" THEN Interval ELSE 0)

\* The exact bucket holds what the kept one will have accrued by now.
Covered(tokens, stamp, held) ==
    tokens + TopRate * (clock - stamp) <= held \/ held = Cap

RateInv ==
    /\ RateType /\ Timely
    /\ slack <= Cap
    /\ cell = NoCell => slack = Cap
    /\ cell # NoCell => /\ cell.stamp = trueStamp % Wrap /\ cell.tokens <= TopBurst
                        /\ Young(trueStamp) /\ Covered(cell.tokens, trueStamp, slack)

LEMMA NoCellFacts == NoCell \notin Bucket /\ Cap = TopBurst + TopRate * Delay /\ Cap \in Nat
<1>1. TopRate * Delay \in Nat
    BY LimitBounds, RateAssumption
<1> QED  BY <1>1, LimitBounds DEF Bucket, NoCell, Cap, TopBurst, TopRate

\* Ages are read as what they are.
LEMMA BucketAge ==
    ASSUME RateInv, cell # NoCell
    PROVE  /\ clock - trueStamp < Backwards
           /\ \A n \in Nat : n <= clock /\ clock - n <= Delay =>
                 Elapsed(n % Wrap, cell.stamp) = IF n >= trueStamp THEN n - trueStamp ELSE -1
<1>1. /\ clock \in Nat /\ swept \in Nat /\ trueStamp \in Nat /\ cell.stamp = trueStamp % Wrap
      /\ trueStamp <= clock /\ swept - trueStamp <= Stale + Delay + (IF sweep.pc = "yes" THEN Interval ELSE 0)
      /\ swept <= clock /\ clock - swept <= Interval /\ (sweep.pc = "yes" => clock - swept <= Delay)
    BY DEF RateInv, RateType, Timely, Young
<1>2. clock - trueStamp < Backwards
    BY <1>1, RateAssumption
<1>3. ASSUME NEW n \in Nat, n <= clock, clock - n <= Delay
      PROVE  Elapsed(n % Wrap, cell.stamp) = IF n >= trueStamp THEN n - trueStamp ELSE -1
  <2>1. n - trueStamp < Backwards /\ trueStamp - n <= Backwards
      BY <1>1, <1>2, <1>3, RateAssumption
  <2> QED  BY <1>1, <1>3, <2>1, ElapsedIsTrue
<1> QED  BY <1>2, <1>3

\* What a refill gives is at most the burst, and at most what accrued.
LEMMA RefillBound ==
    ASSUME NEW tokens \in Nat, NEW dt \in Nat, NEW l \in Limits
    PROVE  /\ Refill(tokens, dt, l) \in Nat /\ Refill(tokens, dt, l) <= TopBurst
           /\ Refill(tokens, dt, l) <= tokens + TopRate * dt
           /\ Refill(tokens, dt, l) >= l.burst => tokens + TopRate * dt >= LowBurst
<1>1. /\ l.rate \in Nat /\ l.burst \in Nat /\ l.rate <= TopRate /\ l.burst <= TopBurst /\ TopRate \in Nat
      /\ LowBurst <= l.burst /\ LowBurst \in Nat /\ TopBurst \in Nat
    BY LimitBounds
<1>2. dt * l.rate \in Nat /\ dt * l.rate <= TopRate * dt /\ TopRate * dt \in Nat
    BY <1>1
<1> HIDE DEF TopRate
<1> QED  BY <1>1, <1>2 DEF Refill, Smaller

\* What a check leaves is covered by what it leaves of the exact bucket.
LEMMA CheckCovered ==
    ASSUME RateInv, NEW n \in Nat, n <= clock, clock - n <= Delay, NEW l \in Limits,
           NEW outcome, NEW stamp,
           \/ cell = NoCell /\ outcome = Fresh(n, l) /\ stamp = n
           \/ cell # NoCell /\ outcome = Consumed(cell, n, l) /\ stamp = Later(n, trueStamp)
    PROVE  LET held == IF outcome.granted THEN slack - Cost ELSE slack IN
           /\ stamp \in Nat /\ Young(stamp)
           /\ outcome.cell \in Bucket /\ outcome.cell.stamp = stamp % Wrap /\ outcome.cell.tokens <= TopBurst
           /\ held \in Int /\ held <= Cap /\ Covered(outcome.cell.tokens, stamp, held)
<1> DEFINE held == IF outcome.granted THEN slack - Cost ELSE slack
<1>1. /\ clock \in Nat /\ trueStamp \in Nat /\ slack \in Int /\ slack <= Cap /\ swept \in Nat /\ swept <= clock
      /\ Cost \in Nat \ {0} /\ Wrap \in Nat \ {0} /\ Delay \in Nat /\ Stale \in Nat /\ Interval \in Nat
    BY RateAssumption DEF RateInv, RateType, Timely
<1>2. /\ l.rate \in Nat /\ l.burst \in Nat /\ l.burst <= TopBurst /\ TopRate \in Nat /\ TopBurst \in Nat
      /\ Cap = TopBurst + TopRate * Delay /\ Cap \in Nat
    BY LimitBounds, NoCellFacts
<1>3. n % Wrap \in Nat /\ trueStamp % Wrap \in Nat
    BY <1>1
<1>4. TopRate * (clock - n) \in Nat /\ TopRate * (clock - n) <= TopRate * Delay
    BY <1>1, <1>2
<1> HIDE DEF TopRate, TopBurst, held
<1>5. CASE cell = NoCell /\ outcome = Fresh(n, l) /\ stamp = n
  <2>1. slack = Cap
      BY <1>5 DEF RateInv
  <2>2. Young(stamp)
      BY <1>1, <1>5 DEF Young
  <2>3. CASE l.burst >= Cost
    <3>1. /\ outcome.granted /\ outcome.cell = [stamp |-> n % Wrap, tokens |-> l.burst - Cost]
        BY <1>5, <2>3 DEF Fresh
    <3>2. held = Cap - Cost
        BY <2>1, <3>1 DEF held
    <3>3. l.burst - Cost \in Nat
        BY <1>1, <1>2, <2>3
    <3>4. (l.burst - Cost) + TopRate * (clock - n) <= Cap - Cost
        BY <1>1, <1>2, <1>4
    <3> QED  BY <1>1, <1>2, <1>3, <1>5, <2>2, <3>1, <3>2, <3>3, <3>4 DEF held, Covered, Bucket
  <2>4. CASE ~(l.burst >= Cost)
    <3>1. /\ ~outcome.granted /\ outcome.cell = [stamp |-> n % Wrap, tokens |-> l.burst]
        BY <1>5, <2>4 DEF Fresh
    <3>2. held = Cap
        BY <2>1, <3>1 DEF held
    <3> QED  BY <1>1, <1>2, <1>3, <1>5, <2>2, <3>1, <3>2 DEF held, Covered, Bucket
  <2> QED  BY <2>3, <2>4
<1>6. CASE cell # NoCell /\ outcome = Consumed(cell, n, l) /\ stamp = Later(n, trueStamp)
  <2>1. /\ cell \in Bucket /\ cell.tokens \in Nat /\ cell.tokens <= TopBurst /\ cell.stamp = trueStamp % Wrap
        /\ Young(trueStamp) /\ Covered(cell.tokens, trueStamp, slack)
      BY <1>6 DEF RateInv, RateType, Bucket
  <2>2. stamp \in Nat /\ Young(stamp)
      BY <1>1, <1>6, <2>1 DEF Young, Later
  <2> DEFINE dt == Elapsed(n % Wrap, cell.stamp)
             filled == IF dt < 0 THEN cell.tokens ELSE Refill(cell.tokens, dt, l)
             kept == IF dt < 0 THEN cell.stamp ELSE n % Wrap
  <2>3. dt = IF n >= trueStamp THEN n - trueStamp ELSE -1
      BY <1>1, <1>6, BucketAge
  <2>4. kept = stamp % Wrap /\ kept \in Nat
    <3> HIDE DEF dt
    <3> QED  BY <1>1, <1>3, <1>6, <2>1, <2>3 DEF Later
  <2>5. filled \in Nat /\ filled <= TopBurst /\ filled + TopRate * (clock - stamp) <= slack
    <3>1. trueStamp <= clock
        BY <2>1 DEF Young
    <3>2. CASE n >= trueStamp
      <4>1. dt \in Nat /\ dt = n - trueStamp /\ stamp = n
          BY <1>1, <1>6, <2>3, <3>2 DEF Later
      <4>2. filled = Refill(cell.tokens, dt, l)
          BY <4>1
      <4> HIDE DEF dt, filled
      <4>3. filled \in Nat /\ filled <= TopBurst /\ filled <= cell.tokens + TopRate * dt
          BY <2>1, <4>1, <4>2, RefillBound
      <4>4. TopRate * (clock - trueStamp) = TopRate * dt + TopRate * (clock - n)
          BY <1>1, <1>2, <4>1
      <4>5. TopRate * dt \in Nat
          BY <1>2, <4>1
      <4>6. CASE slack = Cap
          BY <1>1, <1>2, <1>4, <4>1, <4>3, <4>6
      <4>7. CASE cell.tokens + TopRate * (clock - trueStamp) <= slack
          BY <1>1, <1>2, <1>4, <2>1, <4>1, <4>3, <4>4, <4>5, <4>7
      <4> QED  BY <2>1, <4>3, <4>6, <4>7 DEF Covered
    <3>3. CASE n < trueStamp
      <4>1. dt = -1 /\ stamp = trueStamp
          BY <1>1, <1>6, <2>3, <3>3 DEF Later
      <4>2. filled = cell.tokens
          BY <4>1
      <4> HIDE DEF dt, filled
      <4>3. TopRate * (clock - trueStamp) \in Nat /\ TopRate * (clock - trueStamp) <= TopRate * (clock - n)
          BY <1>1, <1>2, <3>1, <3>3
      <4> QED  BY <1>1, <1>2, <1>4, <2>1, <4>1, <4>2, <4>3 DEF Covered
    <3> QED  BY <1>1, <3>2, <3>3
  <2>6. outcome = IF filled >= Cost
                  THEN [granted |-> TRUE, cell |-> [stamp |-> kept, tokens |-> filled - Cost]]
                  ELSE [granted |-> FALSE, cell |-> [stamp |-> kept, tokens |-> filled]]
      BY <1>6 DEF Consumed
  <2> HIDE DEF filled, kept
  <2>7. TopRate * (clock - stamp) \in Nat
      BY <1>1, <1>2, <2>2 DEF Young
  <2>8. CASE filled >= Cost
    <3>1. outcome.granted /\ outcome.cell = [stamp |-> kept, tokens |-> filled - Cost]
        BY <2>6, <2>8
    <3>2. held = slack - Cost /\ filled - Cost \in Nat
        BY <1>1, <2>5, <2>8, <3>1 DEF held
    <3>3. (filled - Cost) + TopRate * (clock - stamp) <= slack - Cost
        BY <1>1, <2>5, <2>7
    <3> QED  BY <1>1, <1>2, <2>2, <2>4, <2>5, <3>1, <3>2, <3>3 DEF held, Covered, Bucket
  <2>9. CASE ~(filled >= Cost)
    <3>1. ~outcome.granted /\ outcome.cell = [stamp |-> kept, tokens |-> filled]
        BY <2>6, <2>9
    <3>2. held = slack
        BY <3>1 DEF held
    <3> QED  BY <1>1, <1>2, <2>2, <2>4, <2>5, <3>1, <3>2 DEF held, Covered, Bucket
  <2> QED  BY <2>8, <2>9
<1> QED  BY <1>5, <1>6

\* A step that moves requests only, each to a reading of now or its own.
LEMMA AsksMove ==
    ASSUME RateInv, UNCHANGED <<clock, limit, refs, cell, sweep, swept, trueStamp, slack>>,
           NEW r \in Asker, NEW a \in Asking, ask' = [ask EXCEPT ![r] = a],
           a.pc # "rest" => a.now <= clock /\ clock - a.now <= Delay,
           a.pc = "swap" => cell # NoCell
    PROVE  RateInv'
<1>1. ask' \in [Asker -> Asking] /\ \A q \in Asker : ask'[q] = IF q = r THEN a ELSE ask[q]
    BY DEF RateInv, RateType
<1> QED  BY <1>1 DEF RateInv, RateType, Timely, Young, Covered

LEMMA RestingType == RateInv => Resting \in Asking /\ Resting.pc = "rest"
BY DEF RateInv, RateType, Asking, Resting

LEMMA FinishedCheck ==
    ASSUME RateInv, NEW r \in Asker, ask[r].pc # "rest",
           NEW outcome, NEW stamp, Books(r, outcome, stamp),
           \/ cell = NoCell /\ outcome = Fresh(ask[r].now, ask[r].limit) /\ stamp = ask[r].now
           \/ /\ cell # NoCell /\ outcome = Consumed(cell, ask[r].now, ask[r].limit)
              /\ stamp = Later(ask[r].now, trueStamp)
    PROVE  RateInv'
<1> DEFINE held == IF outcome.granted THEN slack - Cost ELSE slack
<1>1. ask[r].now \in Nat /\ ask[r].limit \in Limits /\ ask[r].now <= clock /\ clock - ask[r].now <= Delay
    BY DEF RateInv, RateType, Timely, Asking
<1>2. /\ stamp \in Nat /\ Young(stamp)
      /\ outcome.cell \in Bucket /\ outcome.cell.stamp = stamp % Wrap /\ outcome.cell.tokens <= TopBurst
      /\ held \in Int /\ held <= Cap /\ Covered(outcome.cell.tokens, stamp, held)
    BY <1>1, CheckCovered
<1> HIDE DEF held
<1>3. /\ cell' = outcome.cell /\ trueStamp' = stamp /\ slack' = held
      /\ ask' = [ask EXCEPT ![r] = Resting] /\ UNCHANGED <<clock, limit, refs, sweep, swept>>
    BY DEF Books, held
<1>4. cell' # NoCell
    BY <1>2, <1>3, NoCellFacts
<1>5. ask' \in [Asker -> Asking] /\ \A q \in Asker : ask'[q] = IF q = r THEN Resting ELSE ask[q]
    BY <1>3, RestingType DEF RateInv, RateType
<1>6. RateType'
    BY <1>2, <1>3, <1>5 DEF RateInv, RateType
<1>7. Timely'
    BY <1>3, <1>4, <1>5, RestingType DEF RateInv, Timely
<1>8. Young(trueStamp)' /\ Covered(cell.tokens, trueStamp, slack)'
    BY <1>2, <1>3 DEF Young, Covered
<1>9. cell'.stamp = trueStamp' % Wrap /\ cell'.tokens <= TopBurst /\ slack' <= Cap
    BY <1>2, <1>3
<1> QED  BY <1>4, <1>6, <1>7, <1>8, <1>9 DEF RateInv

LEMMA AskerStep ==
    ASSUME RateInv, NEW r \in Asker, Check(r) \/ Lookup(r) \/ Enter(r) \/ Swap(r)
    PROVE  RateInv'
<1>0. ask[r] \in Asking /\ clock \in Nat /\ Delay \in Nat /\ limit \in Limits /\ cell \in Bucket \cup {NoCell}
      /\ ask \in [Asker -> Asking]
    BY RateAssumption DEF RateInv, RateType
<1>1. CASE Check(r)
  <2> DEFINE a == [pc |-> "look", now |-> clock, limit |-> limit, cur |-> NoCell]
  <2>1. a \in Asking /\ a.pc = "look" /\ a.now = clock
      BY <1>0 DEF Asking
  <2>2. ask' = [ask EXCEPT ![r] = a] /\ UNCHANGED <<clock, limit, refs, cell, sweep, swept, trueStamp, slack>>
      BY <1>1 DEF Check, ghosts
  <2> HIDE DEF a
  <2>3. a.now <= clock /\ clock - a.now <= Delay /\ a.pc # "swap"
      BY <1>0, <2>1
  <2> QED  BY <2>1, <2>2, <2>3, AsksMove
<1>2. CASE Lookup(r)
  <2> DEFINE pc == IF cell = NoCell THEN "entry" ELSE "swap"
             a  == [ask[r] EXCEPT !.pc = pc, !.cur = cell]
  <2>1. a \in Asking /\ a.now = ask[r].now /\ a.pc = pc
      BY <1>0 DEF Asking
  <2>2. ask' = [ask EXCEPT ![r] = a] /\ UNCHANGED <<clock, limit, refs, cell, sweep, swept, trueStamp, slack>>
      BY <1>0, <1>2 DEF Lookup, ghosts, Asking
  <2>3. ask[r].now <= clock /\ clock - ask[r].now <= Delay
      BY <1>2 DEF RateInv, Timely, Lookup
  <2> HIDE DEF a
  <2> QED  BY <2>1, <2>2, <2>3, AsksMove
<1>3. CASE Enter(r)
    BY <1>3, FinishedCheck DEF Enter
<1>4. CASE Swap(r)
  <2>0. ask[r].pc = "swap" /\ cell # NoCell /\ ask[r].now <= clock /\ clock - ask[r].now <= Delay
      BY <1>4 DEF Swap, RateInv, Timely
  <2>1. CASE Books(r, Consumed(cell, ask[r].now, ask[r].limit), Later(ask[r].now, trueStamp))
      BY <2>0, <2>1, FinishedCheck
  <2>2. CASE ask' = [ask EXCEPT ![r].cur = cell] /\ UNCHANGED <<clock, limit, refs, cell, sweep, swept, ghosts>>
    <3> DEFINE a == [ask[r] EXCEPT !.cur = cell]
    <3>1. a \in Asking /\ a.now = ask[r].now /\ a.pc = ask[r].pc
        BY <1>0 DEF Asking
    <3>2. ask' = [ask EXCEPT ![r] = a]
        BY <1>0, <2>2
    <3> HIDE DEF a
    <3> QED  BY <2>0, <2>2, <3>1, <3>2, AsksMove DEF ghosts
  <2> QED  BY <1>4, <2>1, <2>2 DEF Swap
<1> QED  BY <1>1, <1>2, <1>3, <1>4

\* A bucket that is dropped leaves the exact one full, with the gift.
LEMMA DroppedIsFull ==
    ASSUME RateInv, cell # NoCell, sweep.pc = "yes", ~Kept(cell, sweep.now, sweep.limit)
    PROVE  Smaller(Cap, slack + Gift) = Cap
<1> DEFINE dt == Elapsed(sweep.now % Wrap, cell.stamp)
           l  == sweep.limit
<1>1. /\ sweep.now \in Nat /\ l \in Limits /\ sweep.now = swept /\ swept <= clock /\ clock - swept <= Delay
      /\ clock \in Nat /\ trueStamp \in Nat /\ slack \in Int /\ slack <= Cap /\ trueStamp <= clock
      /\ cell.tokens \in Nat /\ Covered(cell.tokens, trueStamp, slack)
    BY DEF RateInv, RateType, Timely, Young, Bucket
<1>2. /\ TopRate \in Nat /\ TopBurst \in Nat /\ LowRate \in Nat /\ LowBurst \in Nat
      /\ LowRate <= TopRate /\ LowBurst <= TopBurst /\ Delay \in Nat /\ Stale \in Nat
      /\ Cap = TopBurst + TopRate * Delay /\ Cap \in Nat
    BY <1>1, LimitBounds, NoCellFacts, RateAssumption
<1>3. dt = IF sweep.now >= trueStamp THEN sweep.now - trueStamp ELSE -1
    BY <1>1, BucketAge
<1>4. ~(dt < 0) /\ (dt >= Stale \/ Refill(cell.tokens, dt, l) >= l.burst)
  <2>1. ~(dt < 0) /\ ~(dt < Stale /\ Refill(cell.tokens, dt, l) < l.burst)
      BY DEF Kept
  <2>2. dt \in Int
      BY <1>1, <1>3
  <2> HIDE DEF dt
  <2>3. Refill(cell.tokens, dt, l) \in Nat /\ l.burst \in Nat
    <3>1. dt \in Nat
        BY <2>1, <2>2
    <3> QED  BY <1>1, <3>1, RefillBound, LimitBounds
  <2> QED  BY <1>2, <2>1, <2>2, <2>3
<1>5. dt \in Nat /\ dt = sweep.now - trueStamp /\ dt <= clock - trueStamp
    BY <1>1, <1>3, <1>4
<1> HIDE DEF dt
<1>6. TopRate * dt \in Nat /\ TopRate * dt <= TopRate * (clock - trueStamp) /\ TopRate * (clock - trueStamp) \in Nat
    BY <1>1, <1>2, <1>5
<1>7. /\ LowRate * Stale \in Nat /\ TopRate * Delay \in Nat
      /\ Gift = TopRate * Delay + (IF TopBurst > LowRate * Stale THEN TopBurst - LowRate * Stale ELSE 0)
                + TopBurst - LowBurst
      /\ Gift \in Nat
  <2>1. LowRate * Stale \in Nat /\ TopRate * Delay \in Nat
      BY <1>2
  <2>2. Gift = TopRate * Delay + (IF TopBurst > LowRate * Stale THEN TopBurst - LowRate * Stale ELSE 0)
                + TopBurst - LowBurst
      BY DEF Gift, TopRate, TopBurst, LowRate, LowBurst
  <2> QED  BY <1>2, <2>1, <2>2
<1>8. CASE slack = Cap
    BY <1>2, <1>7, <1>8 DEF Smaller
<1>9. CASE cell.tokens + TopRate * (clock - trueStamp) <= slack
  <2>1. CASE dt >= Stale
    <3>1. LowRate * Stale <= TopRate * dt
      <4>1. LowRate * Stale <= TopRate * Stale /\ TopRate * Stale <= TopRate * dt /\ TopRate * Stale \in Nat
          BY <1>2, <1>5, <2>1
      <4> QED  BY <1>6, <1>7, <4>1
    <3>2. slack + Gift >= Cap
        BY <1>1, <1>2, <1>6, <1>7, <1>9, <3>1
    <3> QED  BY <1>1, <1>2, <1>7, <3>2 DEF Smaller
  <2>2. CASE Refill(cell.tokens, dt, l) >= l.burst
    <3>1. cell.tokens + TopRate * dt >= LowBurst
        BY <1>1, <1>5, <2>2, RefillBound
    <3>2. slack + Gift >= Cap
        BY <1>1, <1>2, <1>6, <1>7, <1>9, <3>1
    <3> QED  BY <1>1, <1>2, <1>7, <3>2 DEF Smaller
  <2> QED  BY <1>4, <2>1, <2>2
<1> QED  BY <1>1, <1>8, <1>9 DEF Covered

LEMMA SweepStep ==
    ASSUME RateInv, SweepReads \/ SweepRetains
    PROVE  RateInv'
<1>0. /\ clock \in Nat /\ swept \in Nat /\ trueStamp \in Nat /\ limit \in Limits /\ refs \in Nat /\ slack \in Int
      /\ cell \in Bucket \cup {NoCell} /\ sweep \in [pc : {"no", "yes"}, now : Nat, limit : Limits]
      /\ swept <= clock /\ clock - swept <= Interval /\ ask \in [Asker -> Asking]
      /\ Stale \in Nat /\ Delay \in Nat /\ Interval \in Nat \ {0} /\ Cap \in Nat
    BY RateAssumption, NoCellFacts DEF RateInv, RateType, Timely
<1>1. CASE SweepReads
  <2> DEFINE w == [pc |-> "yes", now |-> clock, limit |-> limit]
  <2>1. w \in [pc : {"no", "yes"}, now : Nat, limit : Limits] /\ w.pc = "yes" /\ w.now = clock
      BY <1>0
  <2>2. sweep' = w /\ swept' = clock /\ sweep.pc = "no"
        /\ UNCHANGED <<clock, limit, refs, cell, ask, trueStamp, slack>>
      BY <1>1 DEF SweepReads, ghosts
  <2> HIDE DEF w
  <2>3. RateType'
      BY <1>0, <2>1, <2>2 DEF RateType
  <2>4. Timely'
      BY <1>0, <2>1, <2>2 DEF RateInv, Timely
  <2>5. cell # NoCell => Young(trueStamp)'
      BY <1>0, <2>1, <2>2 DEF RateInv, Young
  <2> QED  BY <2>2, <2>3, <2>4, <2>5 DEF RateInv, Covered
<1>2. CASE SweepRetains
  <2>1. /\ sweep.pc = "yes" /\ sweep.now = swept /\ clock - swept <= Delay
        /\ \A r \in Asker : ask[r].pc # "swap"
        /\ sweep' = [sweep EXCEPT !.pc = "no"] /\ UNCHANGED <<clock, limit, refs, ask, swept>>
      BY <1>2 DEF SweepRetains, Locked, RateInv, Timely
  <2>2. sweep' \in [pc : {"no", "yes"}, now : Nat, limit : Limits] /\ sweep'.pc = "no"
      BY <1>0, <2>1
  <2>3. Timely'
      BY <2>1, <2>2 DEF RateInv, Timely
  <2>4. CASE cell' = NoCell /\ trueStamp' = 0 /\ slack' = Cap
    <3>1. RateType'
        BY <1>0, <2>1, <2>2, <2>4 DEF RateType
    <3> QED  BY <1>0, <2>3, <2>4, <3>1 DEF RateInv, NoCell, Cap
  <2>5. CASE Kept(cell, sweep.now, sweep.limit) /\ UNCHANGED <<cell, trueStamp, slack>>
    <3>1. RateType'
        BY <1>0, <2>1, <2>2, <2>5 DEF RateType
    <3>2. ASSUME cell # NoCell PROVE Young(trueStamp)'
      <4> DEFINE dt == Elapsed(sweep.now % Wrap, cell.stamp)
      <4>1. dt = IF swept >= trueStamp THEN swept - trueStamp ELSE -1
          BY <1>0, <2>1, <3>2, BucketAge
      <4>2. dt < 0 \/ dt < Stale
          BY <2>5, <3>2 DEF Kept
      <4> HIDE DEF dt
      <4>3. swept - trueStamp <= Stale + Delay
          BY <1>0, <4>1, <4>2
      <4>4. swept' - trueStamp' <= Stale + Delay + (IF sweep'.pc = "yes" THEN Interval ELSE 0)
          BY <1>0, <2>1, <2>2, <2>5, <4>3
      <4>5. trueStamp' <= clock'
          BY <2>1, <2>5, <3>2 DEF RateInv, Young
      <4> QED  BY <4>4, <4>5 DEF Young
    <3> QED  BY <2>1, <2>3, <2>5, <3>1, <3>2 DEF RateInv, Covered
  <2>6. CASE ~Kept(cell, sweep.now, sweep.limit) /\ cell' = NoCell /\ trueStamp' = 0 /\ slack' = Smaller(Cap, slack + Gift)
    <3>1. cell # NoCell
        BY <2>6 DEF Kept
    <3> QED  BY <2>1, <2>4, <2>6, <3>1, DroppedIsFull
  <2> QED  BY <1>2, <2>4, <2>5, <2>6 DEF SweepRetains, ghosts
<1> QED  BY <1>1, <1>2

LEMMA TableStep ==
    ASSUME RateInv, (\E l \in Limits : BuildTable(l)) \/ DropTable
    PROVE  RateInv'
<1>1. /\ limit' \in Limits /\ refs' \in Nat /\ (slack' = slack \/ slack' = Cap)
      /\ UNCHANGED <<clock, cell, ask, sweep, swept, trueStamp>>
    BY DEF RateInv, RateType, BuildTable, DropTable, ghosts
<1>2. Cap \in Nat /\ slack \in Int
    BY NoCellFacts DEF RateInv, RateType
<1>3. RateType' /\ Timely'
    BY <1>1, <1>2 DEF RateInv, RateType, Timely
<1> QED  BY <1>1, <1>2, <1>3 DEF RateInv, Young, Covered

LEMMA TickStep ==
    ASSUME RateInv, Tick
    PROVE  RateInv'
<1>0. /\ clock \in Nat /\ swept \in Nat /\ trueStamp \in Nat /\ slack \in Int /\ slack <= Cap
      /\ Stale \in Nat /\ Delay \in Nat /\ Interval \in Nat \ {0} /\ Cap \in Nat /\ TopRate \in Nat
      /\ TopBurst \in Nat /\ ask \in [Asker -> Asking] /\ cell \in Bucket \cup {NoCell}
      /\ sweep \in [pc : {"no", "yes"}, now : Nat, limit : Limits]
    BY RateAssumption, NoCellFacts, LimitBounds DEF RateInv, RateType
<1>1. /\ clock' = clock + 1 /\ slack' = Smaller(Cap, slack + TopRate)
      /\ UNCHANGED <<limit, refs, cell, ask, sweep, swept, trueStamp>>
    BY DEF Tick, TopRate
<1>2. slack' \in Int /\ slack' <= Cap /\ (slack' = Cap \/ slack' = slack + TopRate)
      /\ (slack = Cap => slack' = Cap)
    BY <1>0, <1>1 DEF Smaller
<1>3. RateType'
    BY <1>0, <1>1, <1>2 DEF RateInv, RateType
<1>4. Timely'
  <2>1. ASSUME NEW r \in Asker
        PROVE  /\ ask[r].pc # "rest" => ask[r].now <= clock + 1 /\ clock + 1 - ask[r].now <= Delay
               /\ ask[r].pc = "swap" => cell # NoCell
    <3>1. ask[r].now \in Nat
        BY <1>0 DEF Asking
    <3> QED  BY <1>0, <3>1 DEF RateInv, Timely, Tick
  <2>2. sweep.now \in Nat
      BY <1>0
  <2>3. /\ swept <= clock + 1 /\ clock + 1 - swept <= Interval
        /\ sweep.pc = "yes" => sweep.now = swept /\ clock + 1 - swept <= Delay
      BY <1>0, <2>2 DEF RateInv, Timely, Tick
  <2>4. \A r \in Asker : /\ ask'[r].pc # "rest" => ask'[r].now <= clock' /\ clock' - ask'[r].now <= Delay
                         /\ ask'[r].pc = "swap" => cell' # NoCell
    <3>1. \A r \in Asker : ask[r].now \in Nat
        BY <1>0 DEF Asking
    <3> QED  BY <1>0, <1>1, <2>1, <3>1
  <2>5. /\ swept' <= clock' /\ clock' - swept' <= Interval
        /\ sweep'.pc = "yes" => sweep'.now = swept' /\ clock' - swept' <= Delay
      BY <1>0, <1>1, <2>3
  <2>6. clock' \in Nat /\ swept' \in Nat /\ \A r \in Asker : ask'[r].now \in Nat
      BY <1>3 DEF RateType, Asking
  <2> QED  BY <2>4, <2>5, <2>6 DEF Timely
<1>5. ASSUME cell # NoCell PROVE Young(trueStamp)' /\ Covered(cell.tokens, trueStamp, slack)'
  <2>1. cell.tokens \in Nat /\ trueStamp <= clock /\ Covered(cell.tokens, trueStamp, slack)
      BY <1>0, <1>5 DEF RateInv, Young, Bucket
  <2>2. TopRate * (clock + 1 - trueStamp) = TopRate * (clock - trueStamp) + TopRate
        /\ TopRate * (clock - trueStamp) \in Nat
      BY <1>0, <2>1
  <2>3. cell.tokens + TopRate * (clock + 1 - trueStamp) <= slack' \/ slack' = Cap
    <3>1. CASE slack = Cap
        BY <1>2, <3>1
    <3>2. CASE cell.tokens + TopRate * (clock - trueStamp) <= slack
        BY <1>0, <1>2, <2>1, <2>2, <3>2
    <3> QED  BY <2>1, <3>1, <3>2 DEF Covered
  <2>4. Young(trueStamp)'
      BY <1>0, <1>1, <1>5 DEF RateInv, Young
  <2>5. cell'.tokens + TopRate * (clock' - trueStamp') <= slack' \/ slack' = Cap
      BY <1>0, <1>1, <2>1, <2>3
  <2> QED  BY <2>4, <2>5 DEF Covered
<1> QED  BY <1>1, <1>2, <1>3, <1>4, <1>5 DEF RateInv, Cap

(***************************************************************************)
(* In no stretch of time is a client granted more than its burst and what  *)
(* accrues meanwhile, and the age of its bucket is always read for what it *)
(* is: for any number of concurrent requests, any set of limits, and any   *)
(* modulus the sweep and the delays keep within (rate_limit.rs: consume,   *)
(* elapsed, sweep_at).                                                     *)
(***************************************************************************)
THEOREM GrantsAreBounded == RateSpec => []GrantsBounded
<1>1. RateInit => RateInv
  <2> SUFFICES ASSUME RateInit PROVE RateInv
      OBVIOUS
  <2>1. IdleUntil \in Nat /\ Cap \in Nat /\ Interval \in Nat
      BY RateAssumption, NoCellFacts
  <2>2. Resting \in Asking /\ Resting.pc = "rest"
      BY <2>1 DEF RateInit, Asking, Resting
  <2>3. RateType
      BY <2>1, <2>2 DEF RateInit, RateType
  <2>4. Timely
      BY <2>1, <2>2 DEF RateInit, Timely
  <2> QED  BY <2>1, <2>3, <2>4 DEF RateInit, RateInv
<1>2. RateInv /\ [RateNext]_rateVars => RateInv'
  <2> SUFFICES ASSUME RateInv, [RateNext]_rateVars PROVE RateInv'
      OBVIOUS
  <2>1. CASE UNCHANGED rateVars
      BY <2>1 DEF rateVars, RateInv, RateType, Timely, Young, Covered
  <2>2. CASE \E r \in Asker : Check(r) \/ Lookup(r) \/ Enter(r) \/ Swap(r)
      BY <2>2, AskerStep
  <2>3. CASE SweepReads \/ SweepRetains
      BY <2>3, SweepStep
  <2>4. CASE (\E l \in Limits : BuildTable(l)) \/ DropTable
      BY <2>4, TableStep
  <2>5. CASE Tick
      BY <2>5, TickStep
  <2> QED  BY <2>1, <2>2, <2>3, <2>4, <2>5 DEF RateNext
<1>3. RateInv => GrantsBounded
  <2> SUFFICES ASSUME RateInv PROVE GrantsBounded
      OBVIOUS
  <2>1. NeverOvergrants
    <3>1. Cap \in Nat /\ slack \in Int
        BY NoCellFacts DEF RateInv, RateType
    <3>2. CASE slack = Cap
        BY <3>1, <3>2 DEF NeverOvergrants
    <3>3. CASE slack # Cap
      <4>1. /\ cell.tokens \in Nat /\ clock \in Nat /\ trueStamp \in Nat /\ trueStamp <= clock
            /\ cell.tokens + TopRate * (clock - trueStamp) <= slack
          BY <3>3 DEF RateInv, RateType, Bucket, Young, Covered
      <4>2. TopRate * (clock - trueStamp) \in Nat
          BY <4>1, LimitBounds
      <4> QED  BY <3>1, <4>1, <4>2 DEF NeverOvergrants
    <3> QED  BY <3>2, <3>3
  <2>2. AgesReadable
      BY BucketAge DEF AgesReadable, RateInv, Young
  <2> QED  BY <2>1, <2>2 DEF GrantsBounded
<1> QED  BY <1>1, <1>2, <1>3, PTL DEF RateSpec

-----------------------------------------------------------------------------
(***************************************************************************)
(* The connections polls travel on.  Cardinalities of the connections that *)
(* hold a slot, a share and a read; an age and the time left of it bounded *)
(* per state; and what a data plane may hold and have sent.  KeptFits and  *)
(* QuietFits carry the steps of one connection, AcceptorMoves those of the *)
(* accept loop, PlaneMoves those of a data plane.                          *)
(***************************************************************************)

\* Where a connection holds a slot.
OpenStates == {"tls", "head", "auth", "body", "hold", "write"}
Answers == {"none", "snapshot", "unchanged", "gone", "standby", "refused"}

\* The records of a connection and of a data plane.
LinkRec ==
    [at : OpenStates \cup {"none", "backlog", "closed"}, node : NetNode, left : Int, age : Nat, poll : Nat,
     answer : Answers, owed : Nat, room : 0 .. SocketRoom, told : Answers, fin : BOOLEAN]
PollerRec ==
    [at : {"wait", "dial", "connecting", "sent", "vanished"}, link : Links \cup {0}, poll : Nat, left : Nat,
     whole : Nat, ceiling : 0 .. HoldTime]

\* What a world allows.
QuotaRec ==
    [planes : SUBSET NetNode, others : SUBSET NetNode, polls : Nat, ticks : Nat, moves : Nat, vanishes : Nat,
     errors : Nat, stops : Nat, dials : Nat, requests : Nat, standby : BOOLEAN, news : BOOLEAN]

Planes == DOMAIN poller

\* The types; no node is both a data plane and another.
TransportType ==
    /\ acceptor \in {"slot", "accept", "pause", "stopped"} /\ permits \in Nat /\ bodyReads \in Nat
    /\ link \in [Links -> LinkRec] /\ quota \in QuotaRec
    /\ poller \in [Planes -> PollerRec] /\ Planes \subseteq NetNode /\ Planes \cap quota.others = {}
    /\ peerOpen \in [DOMAIN peerOpen -> Nat] /\ holder \in [DOMAIN holder -> Links]

\* The longest there may be to an answer, and a stall per unit that does not fit.
ToAnswer == 3 * PeerTimeout + 2 * ReviewTimeout + HoldTime
Stalls(n) == n * PeerTimeout
AgeOk(c) ==
    /\ c.at \notin OpenStates => c.age = 0
    /\ c.at = "tls"  => c.left \in Nat /\ c.age + c.left <= PeerTimeout
    /\ c.at = "head" => c.left \in Nat /\ c.age + c.left <= 2 * PeerTimeout
    /\ c.at = "auth" => c.left \in Nat /\ c.age + c.left <= 2 * PeerTimeout + 2 * ReviewTimeout
    /\ c.at = "body" => c.left \in Nat /\ c.age + c.left <= 3 * PeerTimeout + 2 * ReviewTimeout
    /\ c.at = "hold" => c.left \in Nat /\ c.age + c.left <= ToAnswer
    /\ c.at = "write" =>
          /\ c.owed <= AnswerSize - SocketRoom + c.room
          /\ \/ c.left = -1 /\ c.owed > AnswerSize - SocketRoom /\ c.age <= ToAnswer
             \/ c.left = -1 /\ c.owed <= AnswerSize - SocketRoom /\ c.age <= ToAnswer + Stalls(AnswerSize - SocketRoom - c.owed)
             \/ /\ c.left \in Nat /\ c.owed > 0 /\ c.owed <= AnswerSize - SocketRoom
                /\ c.age + c.left <= ToAnswer + Stalls(AnswerSize - SocketRoom - c.owed + 1)

\* Nothing is unread when a request is taken.
RoomOk(c, plane) ==
    /\ c.at \in {"backlog", "tls", "auth", "body", "hold"} \/ (c.at = "head" /\ c.told = "none") => c.room = SocketRoom
    /\ c.told # "none" => c.at = "closed" \/ (c.at = "head" /\ plane)
    /\ c.at \in {"body", "hold"} \/ (c.at = "write" /\ c.answer # "refused") => plane
    /\ c.at \in {"body", "hold"} \/ (c.at = "auth" /\ plane) => c.poll # 0
    /\ c.at = "none" => c = NoLink

\* What a poll on a connection is.
LastSent(p) == IF p.at \in {"dial", "connecting"} THEN p.poll - 1 ELSE p.poll
PollOk(c, ps, h) ==
    c.poll # 0 =>
        /\ c.at \in {"head", "auth", "body", "hold", "closed"} /\ c.told = "none"
        /\ c.node \in DOMAIN ps /\ c.poll <= LastSent(ps[c.node])
        /\ c.at # "hold" => <<c.node, c.poll>> \notin h

\* Every connection is sound, and no two carry the same poll.
LinksOk ==
    /\ \A l \in Links : AgeOk(link[l]) /\ RoomOk(link[l], link[l].node \in Planes) /\ PollOk(link[l], poller, handled)
    /\ \A l, k \in Links : link[l].poll # 0 /\ link[l].poll = link[k].poll /\ link[l].node = link[k].node => l = k

\* Nothing was handled twice, and what was handled had been sent.
HandledOk ==
    /\ twice = {}
    /\ \A h \in handled : h[1] \in Planes /\ h[2] \in Nat /\ h[2] <= LastSent(poller[h[1]])

\* A hold that lasts is the one its pod is known to have.
HoldsOk ==
    /\ \A n \in DOMAIN holder : link[holder[n]].at = "hold" /\ link[holder[n]].node = n
    /\ \A l \in Links : link[l].at = "hold" /\ link[l].left # 0 => link[l].node \in DOMAIN holder /\ holder[link[l].node] = l

\* A data plane p and the connections lk of the node d.
PlaneOk(d, p, lk) ==
    /\ p.at \in {"dial", "connecting"} => p.poll > 0
    /\ p.at \in {"dial", "vanished"} => p.link = 0
    /\ p.at \in {"connecting", "sent"} => p.link # 0
    /\ p.at = "wait" => p.left <= HoldTime
    /\ p.link # 0 =>
          /\ lk[p.link].node = d /\ lk[p.link].at # "none" /\ ~lk[p.link].fin
          /\ p.at # "sent" => /\ lk[p.link].at \in {"backlog", "tls", "head", "closed"} /\ lk[p.link].poll = 0
                              /\ lk[p.link].at = "head" => lk[p.link].told = "none"
    /\ p.at # "vanished" => \A l \in Links : lk[l].node = d /\ lk[l].at # "none" => l = p.link \/ lk[l].fin

\* Slots, counts and reads, each with those who hold one.
OpenSet(lk)   == {l \in Links : lk[l].at \in OpenStates}
OpenOf(lk, n) == {l \in OpenSet(lk) : lk[l].node = n}
BodySet(lk)   == {l \in Links : lk[l].at = "body"}
Acceptors(a)  == IF a \in {"accept", "pause"} THEN 1 ELSE 0
SlotsOk  == permits + Cardinality(OpenSet(link)) + Acceptors(acceptor) = MaxConnections
PeersOk  ==
    /\ DOMAIN peerOpen = {link[l].node : l \in OpenSet(link)}
    /\ \A n \in DOMAIN peerOpen : peerOpen[n] = Cardinality(OpenOf(link, n)) /\ peerOpen[n] <= PeerShare
BodiesOk == bodyReads + Cardinality(BodySet(link)) = MaxBodyReads

PlanesOk == \A d \in Planes : PlaneOk(d, poller[d], link)

\* The inductive invariant.
TransportInv ==
    /\ TransportType /\ SlotsOk /\ PeersOk /\ BodiesOk
    /\ LinksOk /\ HandledOk /\ HoldsOk /\ PlanesOk

-----------------------------------------------------------------------------
(* Counting. *)

\* There are finitely many connections.
LEMMA LinksFinite ==
    ASSUME NEW S \in SUBSET Links
    PROVE  IsFiniteSet(S) /\ Cardinality(S) \in Nat /\ (S = {} <=> Cardinality(S) = 0)
<1>1. IsFiniteSet(Links)
    BY TransportAssumption, FS_Interval DEF Links
<1>2. IsFiniteSet(S)
    BY <1>1, FS_Subset
<1> QED  BY <1>2, FS_CardinalityType, FS_EmptySet

\* One more is one more.
LEMMA LinksAdd ==
    ASSUME NEW S \in SUBSET Links, NEW l \in Links, l \notin S
    PROVE  Cardinality(S \cup {l}) = Cardinality(S) + 1
BY LinksFinite, FS_AddElement

\* One less is one less.
LEMMA LinksRemove ==
    ASSUME NEW S \in SUBSET Links, NEW l \in S
    PROVE  Cardinality(S \ {l}) = Cardinality(S) - 1
BY LinksFinite, FS_RemoveElement

\* What stalls may take grows with what does not fit.
LEMMA StallsGrow ==
    /\ Stalls(0) = 0
    /\ \A n \in Nat : Stalls(n) \in Nat /\ Stalls(n + 1) = Stalls(n) + PeerTimeout
    /\ \A n, m \in Nat : n <= m => Stalls(n) <= Stalls(m)
<1>1. PeerTimeout \in Nat
    BY TransportAssumption
<1>2. \A n \in Nat : Stalls(n) \in Nat /\ Stalls(n + 1) = Stalls(n) + PeerTimeout
    BY <1>1 DEF Stalls
<1>3. ASSUME NEW n \in Nat, NEW m \in Nat, n <= m PROVE Stalls(n) <= Stalls(m)
  <2>1. PICK k \in Nat : m = n + k
    <3>1. m - n \in Nat /\ m = n + (m - n)
        BY <1>3
    <3> QED  BY <3>1
  <2>2. m * PeerTimeout = n * PeerTimeout + k * PeerTimeout /\ k * PeerTimeout \in Nat /\ n * PeerTimeout \in Nat
      BY <1>1, <2>1
  <2> QED  BY <2>2 DEF Stalls
<1> QED  BY <1>1, <1>2, <1>3 DEF Stalls

\* The parts of SlotsAddUp.
LEMMA SlotsParts == SlotsAddUp <=> SlotsOk /\ PeersOk /\ BodiesOk
<1>1. {l \in Links : LinkOpen(l)} = OpenSet(link)
    BY DEF LinkOpen, OpenSet, OpenStates
<1>2. \A n : {l \in OpenSet(link) : link[l].node = n} = OpenOf(link, n)
    BY DEF OpenOf
<1> QED  BY <1>1, <1>2 DEF SlotsAddUp, SlotsOk, PeersOk, BodiesOk, Acceptors, BodySet

\* A bound that is used stays a number, and the nodes stay.
LEMMA UseKeeps ==
    ASSUME NEW q \in {"polls", "ticks", "moves", "vanishes", "errors", "stops", "dials", "requests"},
           quota \in QuotaRec, Use(q)
    PROVE  quota' \in QuotaRec /\ quota'.others = quota.others
<1>1. quota[q] \in Nat /\ quota[q] > 0 /\ quota' = [quota EXCEPT ![q] = quota[q] - 1]
    BY DEF Use, QuotaRec
<1> QED  BY <1>1 DEF QuotaRec

\* Where no connection opens, closes or changes hands.
LEMMA SlotsSame ==
    ASSUME TransportInv, UNCHANGED <<permits, peerOpen>>, Acceptors(acceptor') = Acceptors(acceptor),
           \A k \in Links : /\ link'[k].at \in OpenStates <=> link[k].at \in OpenStates
                            /\ link[k].at \in OpenStates => link'[k].node = link[k].node
    PROVE  SlotsOk' /\ PeersOk'
<1>1. OpenSet(link') = OpenSet(link)
    BY DEF OpenSet
<1>2. \A n : OpenOf(link', n) = OpenOf(link, n)
    BY <1>1 DEF OpenOf, OpenSet
<1>3. {link'[l].node : l \in OpenSet(link')} = {link[l].node : l \in OpenSet(link)}
    BY <1>1 DEF OpenSet
<1> QED  BY <1>1, <1>2, <1>3 DEF TransportInv, SlotsOk, PeersOk

\* Where no read begins or ends.
LEMMA BodiesSame ==
    ASSUME TransportInv, UNCHANGED bodyReads, \A k \in Links : link'[k].at = "body" <=> link[k].at = "body"
    PROVE  BodiesOk'
<1>1. BodySet(link') = BodySet(link)
    BY DEF BodySet
<1> QED  BY <1>1 DEF TransportInv, BodiesOk

\* A read that begins, and one that ends.
LEMMA BodyBegins ==
    ASSUME TransportInv, NEW l \in Links, link[l].at # "body", link'[l].at = "body", bodyReads > 0, bodyReads' = bodyReads - 1,
           \A k \in Links \ {l} : link'[k].at = "body" <=> link[k].at = "body"
    PROVE  BodiesOk' /\ bodyReads' \in Nat
<1>1. BodySet(link') = BodySet(link) \cup {l} /\ l \notin BodySet(link) /\ BodySet(link) \in SUBSET Links
    BY DEF BodySet
<1>2. Cardinality(BodySet(link')) = Cardinality(BodySet(link)) + 1 /\ Cardinality(BodySet(link)) \in Nat
    BY <1>1, LinksAdd, LinksFinite
<1> QED  BY <1>2 DEF TransportInv, TransportType, BodiesOk

\* A read that ends is free again.
LEMMA BodyEnds ==
    ASSUME TransportInv, NEW l \in Links, link[l].at = "body", link'[l].at # "body", bodyReads' = bodyReads + 1,
           \A k \in Links \ {l} : link'[k].at = "body" <=> link[k].at = "body"
    PROVE  BodiesOk' /\ bodyReads' \in Nat
<1>1. BodySet(link') = BodySet(link) \ {l} /\ l \in BodySet(link) /\ BodySet(link) \in SUBSET Links
    BY DEF BodySet
<1>2. Cardinality(BodySet(link')) = Cardinality(BodySet(link)) - 1 /\ Cardinality(BodySet(link)) \in Nat
    BY <1>1, LinksRemove, LinksFinite
<1> QED  BY <1>2 DEF TransportInv, TransportType, BodiesOk

\* A connection that ends gives back what it holds.
LEMMA SlotsClosed ==
    ASSUME TransportInv, NEW l \in Links, link[l].at \in OpenStates, link'[l].at \notin OpenStates,
           \A k \in Links \ {l} : link'[k] = link[k], CloseLink(l)
    PROVE  /\ SlotsOk' /\ PeersOk' /\ BodiesOk'
           /\ permits' \in Nat /\ bodyReads' \in Nat /\ peerOpen' \in [DOMAIN peerOpen' -> Nat]
<1> DEFINE n == link[l].node
           O == OpenSet(link)
<1>1. OpenSet(link') = O \ {l} /\ l \in O /\ O \in SUBSET Links
    BY DEF OpenSet
<1>2. SlotsOk' /\ permits' \in Nat
  <2>1. Cardinality(OpenSet(link')) = Cardinality(O) - 1 /\ Cardinality(O) \in Nat
      BY <1>1, LinksRemove, LinksFinite
  <2>2. permits \in Nat /\ permits' = permits + 1 /\ acceptor' = acceptor
      BY DEF CloseLink, TransportInv, TransportType
  <2>3. permits + Cardinality(O) + Acceptors(acceptor) = MaxConnections /\ Acceptors(acceptor) \in Nat
      BY DEF TransportInv, SlotsOk, Acceptors
  <2> HIDE DEF O
  <2> QED  BY <2>1, <2>2, <2>3 DEF SlotsOk
<1>3. OpenOf(link', n) = OpenOf(link, n) \ {l} /\ l \in OpenOf(link, n)
    BY <1>1 DEF OpenOf, OpenSet
<1>4. \A m : m # n => OpenOf(link', m) = OpenOf(link, m)
    BY <1>1 DEF OpenOf, OpenSet
<1>5. \A m : OpenOf(link, m) \in SUBSET Links /\ OpenOf(link', m) \in SUBSET Links
    BY DEF OpenOf, OpenSet
<1>6. /\ n \in DOMAIN peerOpen /\ peerOpen[n] \in Nat /\ peerOpen[n] <= PeerShare
      /\ peerOpen[n] = Cardinality(OpenOf(link, n)) /\ Cardinality(OpenOf(link', n)) = peerOpen[n] - 1
      /\ Cardinality(OpenOf(link', n)) \in Nat
  <2>1. n \in DOMAIN peerOpen /\ peerOpen[n] \in Nat /\ peerOpen[n] <= PeerShare /\ peerOpen[n] = Cardinality(OpenOf(link, n))
      BY <1>1 DEF TransportInv, TransportType, PeersOk
  <2>2. Cardinality(OpenOf(link', n)) = Cardinality(OpenOf(link, n)) - 1 /\ Cardinality(OpenOf(link', n)) \in Nat
      BY <1>3, <1>5, LinksRemove, LinksFinite
  <2> QED  BY <2>1, <2>2
<1>7. {link'[k].node : k \in OpenSet(link')} = {link[k].node : k \in O \ {l}}
    BY <1>1 DEF OpenSet
<1>8. \A m : m \in {link[k].node : k \in O \ {l}} <=> OpenOf(link', m) # {}
    BY <1>1 DEF OpenOf, OpenSet
<1>9. peerOpen' = GivenUp(n)
    BY DEF CloseLink
<1>10. PeersOk' /\ peerOpen' \in [DOMAIN peerOpen' -> Nat]
  <2>1. CASE peerOpen[n] = 1
    <3>1. OpenOf(link', n) = {}
        BY <1>5, <1>6, <2>1, LinksFinite
    <3>2. peerOpen' = [m \in DOMAIN peerOpen \ {n} |-> peerOpen[m]]
        BY <1>9, <2>1 DEF GivenUp, Restrict
    <3>3. DOMAIN peerOpen \ {n} = {link[k].node : k \in O \ {l}}
        BY <1>8, <3>1 DEF TransportInv, PeersOk
    <3> HIDE DEF n, O
    <3> QED  BY <1>4, <1>7, <3>2, <3>3 DEF TransportInv, TransportType, PeersOk
  <2>2. CASE peerOpen[n] # 1
    <3>1. OpenOf(link', n) # {}
      <4>1. Cardinality(OpenOf(link', n)) # 0
          BY <1>6, <2>2
      <4> QED  BY <4>1, <1>5, LinksFinite
    <3>2. peerOpen' = [peerOpen EXCEPT ![n] = peerOpen[n] - 1] /\ peerOpen[n] - 1 \in Nat
        BY <1>6, <1>9, <2>2 DEF GivenUp
    <3>3. DOMAIN peerOpen = {link[k].node : k \in O \ {l}}
        BY <1>8, <3>1 DEF TransportInv, PeersOk
    <3>4. peerOpen \in [DOMAIN peerOpen -> Nat] /\ PeerShare \in Nat
        BY TransportAssumption DEF TransportInv, TransportType
    <3>5. \A m \in DOMAIN peerOpen : peerOpen[m] = Cardinality(OpenOf(link, m)) /\ peerOpen[m] <= PeerShare
        BY DEF TransportInv, PeersOk
    <3> HIDE DEF n, O
    <3>6. peerOpen' \in [DOMAIN peerOpen -> Nat] /\ DOMAIN peerOpen' = DOMAIN peerOpen
        BY <3>2, <3>4
    <3>7. ASSUME NEW m \in DOMAIN peerOpen PROVE peerOpen'[m] = Cardinality(OpenOf(link', m)) /\ peerOpen'[m] <= PeerShare
        BY <1>4, <1>6, <3>2, <3>4, <3>5
    <3> QED  BY <1>7, <3>3, <3>6, <3>7 DEF PeersOk
  <2> QED  BY <2>1, <2>2
<1>11. BodiesOk' /\ bodyReads' \in Nat
  <2>1. CASE link[l].at = "body"
      BY <2>1, BodyEnds DEF CloseLink, OpenStates
  <2>2. CASE link[l].at # "body"
    <3>1. bodyReads' = bodyReads /\ bodyReads \in Nat
        BY <2>2 DEF CloseLink, TransportInv, TransportType
    <3> QED  BY <2>2, <3>1, BodiesSame DEF OpenStates
  <2> QED  BY <2>1, <2>2
<1> QED  BY <1>2, <1>10, <1>11

\* A connection that is accepted takes a slot of its peer's share.
LEMMA SlotsOpened ==
    ASSUME TransportInv, NEW l \in Links, link[l].at \notin OpenStates, link'[l].at \in OpenStates, link'[l].node = link[l].node,
           \A k \in Links \ {l} : link'[k] = link[k], permits' = permits, acceptor = "accept", acceptor' = "slot",
           Counted(link[l].node) < PeerShare,
           peerOpen' = [m \in DOMAIN peerOpen \cup {link[l].node} |-> Counted(m) + (IF m = link[l].node THEN 1 ELSE 0)]
    PROVE  SlotsOk' /\ PeersOk' /\ peerOpen' \in [DOMAIN peerOpen' -> Nat]
<1> DEFINE n == link[l].node
           O == OpenSet(link)
<1>1. OpenSet(link') = O \cup {l} /\ l \notin O /\ O \in SUBSET Links
    BY DEF OpenSet
<1>2. SlotsOk'
  <2>1. Cardinality(OpenSet(link')) = Cardinality(O) + 1 /\ Cardinality(O) \in Nat
      BY <1>1, LinksAdd, LinksFinite
  <2>2. permits \in Nat
      BY DEF TransportInv, TransportType
  <2> HIDE DEF O
  <2> QED  BY <2>1, <2>2 DEF TransportInv, SlotsOk, Acceptors, O
<1>3. OpenOf(link', n) = OpenOf(link, n) \cup {l} /\ l \notin OpenOf(link, n)
    BY <1>1 DEF OpenOf, OpenSet
<1>4. \A m : m # n => OpenOf(link', m) = OpenOf(link, m)
    BY <1>1 DEF OpenOf, OpenSet
<1>5. \A m : OpenOf(link, m) \in SUBSET Links
    BY DEF OpenOf, OpenSet
<1>6. Counted(n) \in Nat /\ Counted(n) = Cardinality(OpenOf(link, n))
  <2>1. CASE n \in DOMAIN peerOpen
      BY <2>1 DEF Counted, TransportInv, TransportType, PeersOk
  <2>2. CASE n \notin DOMAIN peerOpen
    <3>1. OpenOf(link, n) = {}
        BY <2>2 DEF TransportInv, PeersOk, OpenOf, OpenSet
    <3> QED  BY <2>2, <3>1, FS_EmptySet DEF Counted
  <2> QED  BY <2>1, <2>2
<1>7. Cardinality(OpenOf(link', n)) = Counted(n) + 1
    BY <1>3, <1>5, <1>6, LinksAdd
<1>8. {link'[k].node : k \in OpenSet(link')} = {link[k].node : k \in O} \cup {n}
    BY <1>1 DEF OpenSet
<1>9. \A m \in DOMAIN peerOpen : /\ Counted(m) = peerOpen[m] /\ peerOpen[m] \in Nat
                                 /\ peerOpen[m] = Cardinality(OpenOf(link, m)) /\ peerOpen[m] <= PeerShare
    BY DEF Counted, TransportInv, TransportType, PeersOk
<1>10. DOMAIN peerOpen = {link[k].node : k \in O} /\ PeerShare \in Nat /\ Counted(n) < PeerShare
    BY TransportAssumption DEF TransportInv, PeersOk
<1>11. peerOpen' = [m \in DOMAIN peerOpen \cup {n} |-> Counted(m) + (IF m = n THEN 1 ELSE 0)]
    OBVIOUS
<1> HIDE DEF n, O
<1>12. peerOpen' \in [DOMAIN peerOpen \cup {n} -> Nat]
    BY <1>6, <1>9, <1>11
<1>13. ASSUME NEW m \in DOMAIN peerOpen \cup {n} PROVE peerOpen'[m] = Cardinality(OpenOf(link', m)) /\ peerOpen'[m] <= PeerShare
    BY <1>4, <1>6, <1>7, <1>9, <1>10, <1>11
<1> QED  BY <1>2, <1>8, <1>10, <1>12, <1>13 DEF PeersOk

-----------------------------------------------------------------------------
(* One connection changes. *)

\* Only the connection l changes, and no data plane.
Moved(l) ==
    /\ link' \in [Links -> LinkRec] /\ (\A k \in Links \ {l} : link'[k] = link[k])
    /\ UNCHANGED <<poller, handled, twice>>

\* What its data plane, if it holds it, must still find.
StillHeld(l) ==
    \A d \in Planes : poller[d].link = l =>
        /\ link'[l].node = d /\ link'[l].at # "none" /\ ~link'[l].fin
        /\ poller[d].at # "sent" => /\ link'[l].at \in {"backlog", "tls", "head", "closed"} /\ link'[l].poll = 0
                                    /\ link'[l].at = "head" => link'[l].told = "none"

\* The connection is still its node's.
SameEnd(l) ==
    link'[l].at # "none" => /\ link[l].at # "none" /\ link'[l].node = link[l].node
                            /\ link[l].fin => link'[l].fin

\* What is left to show when one connection changes.
LEMMA LinkMoves ==
    ASSUME TransportInv, NEW l \in Links, Moved(l), StillHeld(l), SameEnd(l) \/ link'[l].node \notin Planes,
           AgeOk(link'[l]), RoomOk(link'[l], link'[l].node \in Planes), PollOk(link'[l], poller, handled),
           link'[l].poll # 0 => link'[l].poll = link[l].poll /\ link'[l].node = link[l].node
    PROVE  LinksOk' /\ HandledOk' /\ PlanesOk'
<1>1. Planes' = Planes /\ poller' = poller /\ handled' = handled /\ twice' = twice
    BY DEF Moved, Planes
<1>2. \A k \in Links : k # l => link'[k] = link[k]
    BY DEF Moved
<1>3. ASSUME NEW k \in Links
      PROVE  AgeOk(link'[k]) /\ RoomOk(link'[k], link'[k].node \in Planes) /\ PollOk(link'[k], poller, handled)
    BY <1>2 DEF TransportInv, LinksOk
<1>4. \A a, b \in Links : link'[a].poll # 0 /\ link'[a].poll = link'[b].poll /\ link'[a].node = link'[b].node => a = b
    BY <1>2 DEF TransportInv, LinksOk
<1>5. LinksOk' /\ HandledOk'
    BY <1>1, <1>3, <1>4 DEF TransportInv, LinksOk, HandledOk
<1>6. ASSUME NEW d \in Planes PROVE PlaneOk(d, poller[d], link')
  <2>1. PlaneOk(d, poller[d], link) /\ poller[d] \in PollerRec
      BY DEF TransportInv, PlanesOk, TransportType
  <2>2. ASSUME poller[d].link # 0 PROVE poller[d].link \in Links
      BY <2>1, <2>2 DEF PollerRec
  <2>3. ASSUME NEW k \in Links, link'[k].node = d, link'[k].at # "none", poller[d].at # "vanished"
        PROVE  k = poller[d].link \/ link'[k].fin
      BY <1>2, <2>1, <2>3 DEF PlaneOk, SameEnd
  <2>4. poller[d].link # 0 =>
          /\ link'[poller[d].link].node = d /\ link'[poller[d].link].at # "none" /\ ~link'[poller[d].link].fin
          /\ poller[d].at # "sent" =>
                /\ link'[poller[d].link].at \in {"backlog", "tls", "head", "closed"} /\ link'[poller[d].link].poll = 0
                /\ link'[poller[d].link].at = "head" => link'[poller[d].link].told = "none"
      BY <1>2, <2>1, <2>2 DEF PlaneOk, StillHeld
  <2> QED  BY <2>1, <2>3, <2>4 DEF PlaneOk
<1> QED  BY <1>1, <1>5, <1>6 DEF PlanesOk

\* Where no hold begins, ends or goes on longer.
LEMMA HoldsSame ==
    ASSUME TransportInv, holder' = holder,
           \A k \in Links : /\ link'[k].at = "hold" <=> link[k].at = "hold"
                            /\ link[k].at = "hold" => link'[k].node = link[k].node /\ (link'[k].left # 0 => link[k].left # 0)
    PROVE  HoldsOk'
BY DEF TransportInv, TransportType, HoldsOk

\* A hold that ends takes only its own entry.
LEMMA HoldsDropped ==
    ASSUME TransportInv, NEW l \in Links, holder' = HoldDropped(l), link'[l].at # "hold", \A k \in Links \ {l} : link'[k] = link[k]
    PROVE  HoldsOk' /\ holder' \in [DOMAIN holder' -> Links]
<1>1. holder' = [n \in {n \in DOMAIN holder : holder[n] # l} |-> holder[n]]
    BY DEF HoldDropped, Restrict
<1>2. holder \in [DOMAIN holder -> Links]
    BY DEF TransportInv, TransportType
<1>3. DOMAIN holder' = {n \in DOMAIN holder : holder[n] # l} /\ \A n \in DOMAIN holder' : holder'[n] = holder[n] /\ holder[n] \in Links
    BY <1>1, <1>2
<1> QED  BY <1>1, <1>2, <1>3 DEF TransportInv, HoldsOk

\* The rest of the types, where neither a slot nor a data plane moves.
LEMMA ServerTypes ==
    ASSUME TransportInv, link' \in [Links -> LinkRec], poller' = poller, quota' \in QuotaRec, quota'.others = quota.others,
           acceptor' \in {"slot", "accept", "pause", "stopped"}, permits' \in Nat, bodyReads' \in Nat,
           peerOpen' \in [DOMAIN peerOpen' -> Nat], holder' \in [DOMAIN holder' -> Links]
    PROVE  TransportType'
BY DEF TransportInv, TransportType, Planes

\* The connection there is not.
LEMMA NoLinkFacts ==
    NoLink \in LinkRec /\ AgeOk(NoLink) /\ NoLink.poll = 0 /\ NoLink.at = "none"
<1>1. SocketRoom \in 0 .. SocketRoom
    BY TransportAssumption
<1>2. NoLink.at = "none" /\ NoLink.poll = 0 /\ NoLink.age = 0
    BY DEF NoLink
<1>3. AgeOk(NoLink)
    BY <1>2 DEF AgeOk, OpenStates
<1>4. NoLink \in LinkRec
  <2>1. "none" \in Answers
      BY DEF Answers
  <2>2. "" \in NetNode
      BY DEF NetNode
  <2>3. "none" \in OpenStates \cup {"none", "backlog", "closed"} /\ 0 \in Int /\ 0 \in Nat /\ FALSE \in BOOLEAN
      OBVIOUS
  <2> QED  BY <1>1, <2>1, <2>2, <2>3 DEF NoLink, LinkRec
<1> QED  BY <1>2, <1>3, <1>4

\* A connection the server closes, with or without a last answer.
LEMMA ClosedStep ==
    ASSUME TransportInv, NEW l \in Links, NEW told \in Answers, LinkOpen(l), link' = Shut(l, told), CloseLink(l),
           UNCHANGED <<poller, handled, twice, quota>>
    PROVE  TransportInv'
<1> DEFINE c == IF Held(l) THEN [NoLink EXCEPT !.at = "closed", !.node = link[l].node, !.told = told, !.room = link[l].room]
                ELSE NoLink
<1>1. link \in [Links -> LinkRec] /\ link[l] \in LinkRec
    BY DEF TransportInv, TransportType
<1>2. c \in LinkRec /\ c.poll = 0 /\ c.age = 0 /\ ~c.fin
    BY <1>1, NoLinkFacts DEF LinkRec, NoLink, OpenStates
<1>3. link' = [link EXCEPT ![l] = c]
    BY DEF Shut
<1>4. (Held(l) => c.at = "closed" /\ c.node = link[l].node) /\ (~Held(l) => c = NoLink)
    BY DEF NoLink
<1> HIDE DEF c
<1>5. link' \in [Links -> LinkRec] /\ link'[l] = c /\ \A k \in Links \ {l} : link'[k] = link[k]
    BY <1>1, <1>2, <1>3
<1>6. link[l].at \in OpenStates /\ c.at \notin OpenStates /\ c.at \in {"closed", "none"} /\ link[l].at # "none"
    BY <1>4, NoLinkFacts DEF LinkOpen, OpenStates
<1>7. /\ SlotsOk' /\ PeersOk' /\ BodiesOk'
      /\ permits' \in Nat /\ bodyReads' \in Nat /\ peerOpen' \in [DOMAIN peerOpen' -> Nat]
    BY <1>5, <1>6, SlotsClosed
<1>8. HoldsOk' /\ holder' \in [DOMAIN holder' -> Links]
    BY <1>5, <1>6, HoldsDropped DEF CloseLink
<1>9. Moved(l)
    BY <1>5 DEF Moved
<1>10. StillHeld(l)
  <2>1. ASSUME NEW d \in Planes, poller[d].link = l
        PROVE  c.at = "closed" /\ c.node = d
    <3>1. Held(l) /\ l # 0
        BY <2>1 DEF Held, Planes, Links
    <3>2. link[l].node = d
        BY <2>1, <3>1 DEF TransportInv, PlanesOk, PlaneOk
    <3> QED  BY <1>4, <3>1, <3>2
  <2> QED  BY <1>2, <1>5, <2>1 DEF StillHeld
<1>11. SameEnd(l)
  <2>1. CASE Held(l)
    <3>1. ~link[l].fin
        BY <2>1, TransportAssumption DEF Held, TransportInv, PlanesOk, PlaneOk, Planes, Links
    <3> QED  BY <1>4, <1>5, <1>6, <2>1, <3>1 DEF SameEnd
  <2>2. CASE ~Held(l)
      BY <1>4, <1>5, <2>2, NoLinkFacts DEF SameEnd
  <2> QED  BY <2>1, <2>2
<1>12. AgeOk(c) /\ RoomOk(c, c.node \in Planes) /\ PollOk(c, poller, handled)
  <2>1. AgeOk(c) /\ PollOk(c, poller, handled)
      BY <1>2, <1>6 DEF AgeOk, PollOk, OpenStates
  <2>2. c.at = "closed" => RoomOk(c, c.node \in Planes)
      BY DEF RoomOk
  <2>3. c = NoLink => RoomOk(c, c.node \in Planes)
    <3>1. NoLink.at = "none" /\ NoLink.told = "none"
        BY DEF NoLink
    <3> QED  BY <3>1 DEF RoomOk
  <2> QED  BY <1>4, <2>1, <2>2, <2>3
<1>13. LinksOk' /\ HandledOk' /\ PlanesOk'
    BY <1>2, <1>5, <1>9, <1>10, <1>11, <1>12, LinkMoves
<1>14. TransportType'
    BY <1>5, <1>7, <1>8, ServerTypes DEF CloseLink, TransportInv, TransportType
<1> QED  BY <1>7, <1>8, <1>13, <1>14 DEF TransportInv

\* A step of one connection that keeps its slot.
LEMMA KeptStep ==
    ASSUME TransportInv, NEW l \in Links, Moved(l), StillHeld(l), UNCHANGED <<acceptor, permits, peerOpen>>,
           quota' \in QuotaRec, quota'.others = quota.others,
           link'[l].at \in OpenStates <=> link[l].at \in OpenStates, link'[l].node = link[l].node, link[l].at # "none",
           link[l].fin => link'[l].fin,
           AgeOk(link'[l]), RoomOk(link'[l], link'[l].node \in Planes), PollOk(link'[l], poller, handled),
           link'[l].poll # 0 => link'[l].poll = link[l].poll,
           BodiesOk', bodyReads' \in Nat, HoldsOk', holder' \in [DOMAIN holder' -> Links]
    PROVE  TransportInv'
<1>1. \A k \in Links : k # l => link'[k] = link[k]
    BY DEF Moved
<1>2. SlotsOk' /\ PeersOk'
    BY <1>1, SlotsSame
<1>3. LinksOk' /\ HandledOk' /\ PlanesOk'
    BY LinkMoves DEF SameEnd
<1>4. TransportType'
    BY ServerTypes DEF Moved, TransportInv, TransportType
<1> QED  BY <1>2, <1>3, <1>4 DEF TransportInv

\* What holds of a connection.
LEMMA LinkFacts ==
    ASSUME TransportInv, NEW l \in Links
    PROVE  /\ link \in [Links -> LinkRec] /\ link[l] \in LinkRec /\ quota \in QuotaRec
           /\ AgeOk(link[l]) /\ RoomOk(link[l], link[l].node \in Planes) /\ PollOk(link[l], poller, handled)
           /\ link[l].age \in Nat /\ link[l].left \in Int /\ link[l].owed \in Nat /\ link[l].room \in 0 .. SocketRoom
           /\ link[l].poll \in Nat
           /\ \A d \in Planes : poller[d].link = l =>
                 /\ link[l].node = d /\ link[l].at # "none" /\ ~link[l].fin
                 /\ poller[d].at # "sent" => /\ link[l].at \in {"backlog", "tls", "head", "closed"} /\ link[l].poll = 0
                                             /\ link[l].at = "head" => link[l].told = "none"
<1>1. l # 0
    BY DEF Links
<1>2. link \in [Links -> LinkRec] /\ link[l] \in LinkRec /\ quota \in QuotaRec
    BY DEF TransportInv, TransportType
<1>3. /\ link[l].age \in Nat /\ link[l].left \in Int /\ link[l].owed \in Nat /\ link[l].room \in 0 .. SocketRoom
      /\ link[l].poll \in Nat
    BY <1>2 DEF LinkRec
<1>4. AgeOk(link[l]) /\ RoomOk(link[l], link[l].node \in Planes) /\ PollOk(link[l], poller, handled)
    BY DEF TransportInv, LinksOk
<1>5. \A d \in Planes : PlaneOk(d, poller[d], link)
    BY DEF TransportInv, PlanesOk
<1> QED  BY <1>1, <1>2, <1>3, <1>4, <1>5 DEF PlaneOk

-----------------------------------------------------------------------------
(* The server's connections. *)

\* One connection is replaced.
LEMMA LinkSet ==
    ASSUME TransportInv, NEW l \in Links, NEW c \in LinkRec, link' = [link EXCEPT ![l] = c]
    PROVE  link' \in [Links -> LinkRec] /\ link'[l] = c /\ \A k \in Links \ {l} : link'[k] = link[k]
BY DEF TransportInv, TransportType

\* What a connection may become, its slot kept.
Fits(l, c) ==
    /\ c \in LinkRec /\ link[l].at # "none" /\ c.node = link[l].node /\ (c.at \in OpenStates <=> link[l].at \in OpenStates)
    /\ link[l].fin => c.fin
    /\ AgeOk(c) /\ RoomOk(c, c.node \in Planes) /\ PollOk(c, poller, handled) /\ (c.poll # 0 => c.poll = link[l].poll)
    /\ \A d \in Planes : poller[d].link = l =>
          /\ c.at # "none" /\ ~c.fin
          /\ poller[d].at # "sent" => /\ c.at \in {"backlog", "tls", "head", "closed"} /\ c.poll = 0
                                      /\ c.at = "head" => c.told = "none"

\* The hypotheses of KeptStep, from Fits.
LEMMA FitsFacts ==
    ASSUME TransportInv, NEW l \in Links, NEW c, Fits(l, c), link' = [link EXCEPT ![l] = c], UNCHANGED <<poller, handled, twice>>
    PROVE  /\ link' \in [Links -> LinkRec] /\ link'[l] = c /\ (\A k \in Links \ {l} : link'[k] = link[k])
           /\ Moved(l) /\ StillHeld(l)
           /\ (link'[l].at \in OpenStates <=> link[l].at \in OpenStates) /\ link'[l].node = link[l].node /\ link[l].at # "none"
           /\ (link[l].fin => link'[l].fin)
           /\ AgeOk(link'[l]) /\ RoomOk(link'[l], link'[l].node \in Planes) /\ PollOk(link'[l], poller, handled)
           /\ (link'[l].poll # 0 => link'[l].poll = link[l].poll)
<1>1. c \in LinkRec
    BY DEF Fits
<1>2. link' \in [Links -> LinkRec] /\ link'[l] = c /\ \A k \in Links \ {l} : link'[k] = link[k]
    BY <1>1, LinkSet
<1>3. \A d \in Planes : poller[d].link = l => link[l].node = d
    BY LinkFacts
<1>4. Moved(l)
    BY <1>2 DEF Moved
<1>5. StillHeld(l)
    BY <1>2, <1>3 DEF Fits, StillHeld
<1>6. (c.at \in OpenStates <=> link[l].at \in OpenStates) /\ c.node = link[l].node /\ link[l].at # "none"
    BY DEF Fits
<1>7. AgeOk(c) /\ RoomOk(c, c.node \in Planes) /\ PollOk(c, poller, handled)
    BY DEF Fits
<1>8. (link[l].fin => c.fin) /\ (c.poll # 0 => c.poll = link[l].poll)
    BY DEF Fits
<1> QED  BY <1>2, <1>4, <1>5, <1>6, <1>7, <1>8

\* A connection that fits keeps the invariant, its reads and holds shown.
LEMMA KeptFits ==
    ASSUME TransportInv, NEW l \in Links, NEW c, Fits(l, c), link' = [link EXCEPT ![l] = c],
           UNCHANGED <<poller, handled, twice, acceptor, permits, peerOpen>>,
           quota' \in QuotaRec, quota'.others = quota.others,
           BodiesOk', bodyReads' \in Nat, HoldsOk', holder' \in [DOMAIN holder' -> Links]
    PROVE  TransportInv'
<1>1. UNCHANGED <<poller, handled, twice>> /\ UNCHANGED <<acceptor, permits, peerOpen>>
    OBVIOUS
<1> QED  BY <1>1, FitsFacts, KeptStep

\* No read and no hold begins, ends or goes on differently.
Calm(l, c) ==
    \/ c.at \notin {"body", "hold"} /\ link[l].at \notin {"body", "hold"}
    \/ c.at = link[l].at /\ c.left = link[l].left

\* A connection that fits and is calm keeps the invariant.
LEMMA QuietFits ==
    ASSUME TransportInv, NEW l \in Links, NEW c, Fits(l, c), link' = [link EXCEPT ![l] = c],
           UNCHANGED <<acceptor, permits, peerOpen, bodyReads, holder, poller, handled, twice>>,
           quota' \in QuotaRec, quota'.others = quota.others,
           Calm(l, c)
    PROVE  TransportInv'
<1>1. UNCHANGED <<poller, handled, twice>> /\ UNCHANGED <<acceptor, permits, peerOpen, bodyReads, holder>>
    BY DEF server
<1>2. link'[l] = c /\ link'[l].node = link[l].node /\ \A k \in Links \ {l} : link'[k] = link[k]
    BY <1>1, FitsFacts
<1>3. BodiesOk'
    BY <1>1, <1>2, BodiesSame DEF Calm
<1>4. HoldsOk'
  <2>1. \A k \in Links : /\ link'[k].at = "hold" <=> link[k].at = "hold"
                         /\ link[k].at = "hold" => link'[k].node = link[k].node /\ (link'[k].left # 0 => link[k].left # 0)
      BY <1>2 DEF Calm
  <2> QED  BY <1>1, <2>1, HoldsSame
<1>5. bodyReads' \in Nat /\ holder' \in [DOMAIN holder' -> Links]
    BY <1>1 DEF TransportInv, TransportType
<1> QED  BY <1>1, <1>3, <1>4, <1>5, KeptFits

\* The head is due in as much time again as the handshake.
LEMMA HandshakeStep ==
    ASSUME TransportInv, NEW l \in Links, Handshake(l)
    PROVE  TransportInv'
<1> DEFINE c == [link[l] EXCEPT !.at = "head", !.left = PeerTimeout]
<1>1. /\ link \in [Links -> LinkRec] /\ link[l] \in LinkRec /\ link[l].age \in Nat /\ link[l].left \in Int
      /\ AgeOk(link[l]) /\ RoomOk(link[l], link[l].node \in Planes) /\ PollOk(link[l], poller, handled)
      /\ quota \in QuotaRec /\ PeerTimeout \in Nat
    BY LinkFacts, TransportAssumption
<1>2. c \in LinkRec
  <2>1. "head" \in OpenStates \cup {"none", "backlog", "closed"} /\ PeerTimeout \in Int
      BY <1>1 DEF OpenStates
  <2> QED  BY <1>1, <2>1 DEF LinkRec
<1>3. link' = [link EXCEPT ![l] = c]
    BY <1>1 DEF Handshake
<1>4. /\ link[l].at = "tls" /\ c.at = "head" /\ c.left = PeerTimeout
      /\ c.node = link[l].node /\ c.age = link[l].age /\ c.poll = link[l].poll
      /\ c.told = link[l].told /\ c.room = link[l].room /\ c.fin = link[l].fin
    BY <1>1 DEF Handshake, LinkRec
<1> HIDE DEF c
<1>5. AgeOk(c)
    BY <1>1, <1>4 DEF AgeOk, OpenStates
<1>6. RoomOk(c, c.node \in Planes) /\ PollOk(c, poller, handled)
    BY <1>1, <1>4 DEF RoomOk, PollOk
<1>7. Fits(l, c)
  <2>1. \A d \in Planes : poller[d].link = l => ~link[l].fin /\ (poller[d].at # "sent" => link[l].poll = 0)
      BY LinkFacts
  <2>2. link[l].told = "none"
      BY <1>1, <1>4 DEF RoomOk
  <2> QED  BY <1>2, <1>4, <1>5, <1>6, <2>1, <2>2 DEF Fits, OpenStates
<1>8. UNCHANGED <<acceptor, permits, peerOpen, bodyReads, holder, poller, handled, twice>> /\ quota' \in QuotaRec /\ quota'.others = quota.others
    BY <1>1 DEF Handshake, server
<1>9. Calm(l, c)
    BY <1>4 DEF Calm
<1> QED  BY <1>3, <1>7, <1>8, <1>9, QuietFits

\* An answer begins: nothing of an earlier one is unread.
AnswerTo(c, a) ==
    [c EXCEPT !.at = "write", !.answer = a, !.left = -1, !.poll = 0, !.owed = IF a = "snapshot" THEN AnswerSize ELSE 1]

\* A connection that is answered fits.
LEMMA AnswerFits ==
    ASSUME TransportInv, NEW l \in Links, NEW a \in Answers \ {"none"}, link[l].at \in {"head", "auth", "body", "hold"},
           a = "refused" \/ link[l].node \in Planes, link[l].told = "none",
           \A d \in Planes : poller[d].link = l => poller[d].at = "sent"
    PROVE  /\ Answering(l, a) = [link EXCEPT ![l] = AnswerTo(link[l], a)] /\ Fits(l, AnswerTo(link[l], a))
           /\ AnswerTo(link[l], a).at = "write"
<1> DEFINE c == AnswerTo(link[l], a)
           o == IF a = "snapshot" THEN AnswerSize ELSE 1
<1>1. /\ link \in [Links -> LinkRec] /\ link[l] \in LinkRec /\ link[l].age \in Nat /\ link[l].left \in Int
      /\ AgeOk(link[l]) /\ RoomOk(link[l], link[l].node \in Planes)
      /\ PeerTimeout \in Nat /\ HoldTime \in Nat /\ ReviewTimeout \in Nat /\ AnswerSize \in Nat /\ AnswerSize > 0 /\ SocketRoom \in Nat /\ SocketRoom <= AnswerSize
    BY LinkFacts, TransportAssumption
<1>2. o \in Nat /\ 0 < o /\ o <= AnswerSize
    BY <1>1
<1>3. c = [link[l] EXCEPT !.at = "write", !.answer = a, !.left = -1, !.poll = 0, !.owed = o]
    BY DEF AnswerTo
<1>4. c \in LinkRec
  <2>1. "write" \in OpenStates \cup {"none", "backlog", "closed"} /\ a \in Answers /\ -1 \in Int /\ 0 \in Nat
      BY DEF OpenStates
  <2> HIDE DEF c, o
  <2> QED  BY <1>1, <1>2, <1>3, <2>1 DEF LinkRec
<1>5. /\ c.at = "write" /\ c.answer = a /\ c.left = -1 /\ c.poll = 0 /\ c.owed = o
      /\ c.node = link[l].node /\ c.age = link[l].age
      /\ c.told = link[l].told /\ c.room = link[l].room /\ c.fin = link[l].fin
  <2> HIDE DEF c, o
  <2> QED  BY <1>1, <1>3 DEF LinkRec
<1>6. Answering(l, a) = [link EXCEPT ![l] = c]
    BY <1>1 DEF Answering, AnswerTo
<1> HIDE DEF c, o
<1>7. link[l].room = SocketRoom
    BY <1>1 DEF RoomOk
<1>8. link[l].age <= ToAnswer
    BY <1>1 DEF AgeOk, ToAnswer
<1>9. AgeOk(c)
  <2>1. ToAnswer \in Nat
      BY <1>1 DEF ToAnswer
  <2>2. CASE o > AnswerSize - SocketRoom
      BY <1>1, <1>2, <1>5, <1>7, <1>8, <2>2 DEF AgeOk, OpenStates
  <2>3. CASE o <= AnswerSize - SocketRoom
    <3>1. AnswerSize - SocketRoom - o \in Nat
        BY <1>1, <1>2, <2>3
    <3>2. Stalls(AnswerSize - SocketRoom - o) \in Nat
        BY <3>1, StallsGrow
    <3> HIDE DEF Stalls
    <3> QED  BY <1>1, <1>2, <1>5, <1>7, <1>8, <2>1, <2>3, <3>2 DEF AgeOk, OpenStates
  <2> QED  BY <1>1, <1>2, <2>2, <2>3
<1>10. RoomOk(c, c.node \in Planes)
    BY <1>1, <1>5 DEF RoomOk
<1>11. PollOk(c, poller, handled)
    BY <1>5 DEF PollOk
<1>12. Fits(l, c)
  <2>1. \A d \in Planes : poller[d].link = l => ~link[l].fin
      BY LinkFacts
  <2> QED  BY <1>4, <1>5, <1>9, <1>10, <1>11, <2>1 DEF Fits, OpenStates
<1> QED  BY <1>5, <1>6, <1>12 DEF c

\* A head is answered, or its token looked up.
LEMMA HeadReadStep ==
    ASSUME TransportInv, NEW l \in Links, NEW said \in {"asked", "refused", "standby"}, HeadRead(l, said)
    PROVE  TransportInv'
<1>1. /\ link \in [Links -> LinkRec] /\ link[l] \in LinkRec /\ link[l].age \in Nat /\ link[l].left \in Int
      /\ AgeOk(link[l]) /\ RoomOk(link[l], link[l].node \in Planes) /\ PollOk(link[l], poller, handled)
      /\ quota \in QuotaRec /\ PeerTimeout \in Nat /\ ReviewTimeout \in Nat /\ link[l].at = "head"
    BY LinkFacts, TransportAssumption DEF HeadRead
<1>2. quota' \in QuotaRec /\ quota'.others = quota.others
  <2>1. CASE IsPlane(link[l].node)
      BY <1>1, <2>1 DEF HeadRead
  <2>2. CASE ~IsPlane(link[l].node)
    <3>1. Use("requests")
        BY <2>2 DEF HeadRead
    <3> QED  BY <1>1, <3>1, UseKeeps
  <2> QED  BY <2>1, <2>2
<1>3. UNCHANGED <<poller, handled, twice, acceptor, permits, peerOpen, holder, bodyReads>>
    BY DEF HeadRead, server
<1>4. link[l].node \in Planes => link[l].poll # 0
    BY DEF HeadRead, IsPlane, Planes
<1>5. link[l].node \notin Planes => said # "standby"
    BY DEF HeadRead, IsPlane, Planes
<1>6. link[l].told = "none"
    BY <1>1, <1>4 DEF RoomOk, PollOk
<1>7. \A d \in Planes : poller[d].link = l => poller[d].at = "sent" /\ ~link[l].fin
    BY <1>4, LinkFacts
<1>8. CASE said = "asked"
  <2> DEFINE c == [link[l] EXCEPT !.at = "auth", !.left = 2 * ReviewTimeout]
  <2>1. link' = [link EXCEPT ![l] = c]
      BY <1>1, <1>8 DEF HeadRead
  <2>2. c \in LinkRec
    <3>1. "auth" \in OpenStates \cup {"none", "backlog", "closed"} /\ 2 * ReviewTimeout \in Int
        BY <1>1 DEF OpenStates
    <3> QED  BY <1>1, <3>1 DEF LinkRec
  <2>3. /\ c.at = "auth" /\ c.left = 2 * ReviewTimeout
        /\ c.node = link[l].node /\ c.age = link[l].age /\ c.poll = link[l].poll
        /\ c.told = link[l].told /\ c.room = link[l].room /\ c.fin = link[l].fin
      BY <1>1 DEF LinkRec
  <2> HIDE DEF c
  <2>4. AgeOk(c)
      BY <1>1, <2>3 DEF AgeOk, OpenStates
  <2>5. RoomOk(c, c.node \in Planes) /\ PollOk(c, poller, handled)
      BY <1>1, <1>4, <1>6, <2>3 DEF RoomOk, PollOk
  <2>6. Fits(l, c)
      BY <1>1, <1>7, <2>2, <2>3, <2>4, <2>5 DEF Fits, OpenStates
  <2>7. Calm(l, c)
      BY <1>1, <2>3 DEF Calm
  <2> QED  BY <1>2, <1>3, <2>1, <2>6, <2>7, QuietFits
<1>9. CASE said # "asked"
  <2>1. link' = Answering(l, said)
      BY <1>9 DEF HeadRead
  <2>2. said \in Answers \ {"none"} /\ (said = "refused" \/ link[l].node \in Planes)
      BY <1>5, <1>9 DEF Answers
  <2>3. link' = [link EXCEPT ![l] = AnswerTo(link[l], said)] /\ Fits(l, AnswerTo(link[l], said)) /\ AnswerTo(link[l], said).at = "write"
      BY <1>1, <1>6, <1>7, <2>1, <2>2, AnswerFits
  <2>4. Calm(l, AnswerTo(link[l], said))
      BY <1>1, <2>3 DEF Calm
  <2> QED  BY <1>2, <1>3, <2>3, <2>4, QuietFits
<1> QED  BY <1>8, <1>9

\* A token is refused, or the body read while a read is free.
LEMMA AuthenticatedStep ==
    ASSUME TransportInv, NEW l \in Links, NEW admitted \in BOOLEAN, Authenticated(l, admitted)
    PROVE  TransportInv'
<1>1. /\ link \in [Links -> LinkRec] /\ link[l] \in LinkRec /\ link[l].age \in Nat /\ link[l].left \in Int
      /\ AgeOk(link[l]) /\ RoomOk(link[l], link[l].node \in Planes) /\ PollOk(link[l], poller, handled)
      /\ quota \in QuotaRec /\ PeerTimeout \in Nat /\ link[l].at = "auth" /\ ReviewTimeout \in Nat
    BY LinkFacts, TransportAssumption DEF Authenticated
<1>2. quota' \in QuotaRec /\ quota'.others = quota.others
    BY <1>1 DEF Authenticated
<1>3. UNCHANGED <<poller, handled, twice, acceptor, permits, peerOpen, holder>>
    BY DEF Authenticated
<1>4. link[l].node \in Planes => link[l].poll # 0
    BY <1>1 DEF RoomOk
<1>5. admitted => link[l].node \in Planes
    BY DEF Authenticated, IsPlane, Planes
<1>6. link[l].told = "none"
    BY <1>1 DEF RoomOk
<1>7. \A d \in Planes : poller[d].link = l => poller[d].at = "sent" /\ ~link[l].fin
    BY <1>1, LinkFacts
<1>8. holder' \in [DOMAIN holder' -> Links]
    BY <1>3 DEF TransportInv, TransportType
<1>9. CASE admitted /\ ~PodReads(link[l].node) /\ bodyReads > 0
  <2> DEFINE c == [link[l] EXCEPT !.at = "body", !.left = PeerTimeout]
  <2>1. link' = [link EXCEPT ![l] = c] /\ bodyReads' = bodyReads - 1
      BY <1>1, <1>9 DEF Authenticated
  <2>2. c \in LinkRec
    <3>1. "body" \in OpenStates \cup {"none", "backlog", "closed"} /\ PeerTimeout \in Int
        BY <1>1 DEF OpenStates
    <3> QED  BY <1>1, <3>1 DEF LinkRec
  <2>3. /\ c.at = "body" /\ c.left = PeerTimeout
        /\ c.node = link[l].node /\ c.age = link[l].age /\ c.poll = link[l].poll
        /\ c.told = link[l].told /\ c.room = link[l].room /\ c.fin = link[l].fin
      BY <1>1 DEF LinkRec
  <2> HIDE DEF c
  <2>4. AgeOk(c)
      BY <1>1, <2>3 DEF AgeOk, OpenStates
  <2>5. RoomOk(c, c.node \in Planes) /\ PollOk(c, poller, handled)
      BY <1>1, <1>4, <1>5, <1>6, <1>9, <2>3 DEF RoomOk, PollOk
  <2>6. Fits(l, c)
      BY <1>1, <1>7, <2>2, <2>3, <2>4, <2>5 DEF Fits, OpenStates
  <2>7. link'[l] = c /\ \A k \in Links \ {l} : link'[k] = link[k]
      BY <2>1, <2>2, LinkSet
  <2>8. BodiesOk' /\ bodyReads' \in Nat
      BY <1>1, <1>9, <2>1, <2>3, <2>7, BodyBegins
  <2>9. HoldsOk'
    <3>1. \A k \in Links : /\ link'[k].at = "hold" <=> link[k].at = "hold"
                           /\ link[k].at = "hold" => link'[k].node = link[k].node /\ (link'[k].left # 0 => link[k].left # 0)
        BY <1>1, <2>3, <2>7
    <3> QED  BY <1>3, <3>1, HoldsSame
  <2> QED  BY <1>2, <1>3, <1>8, <2>1, <2>6, <2>8, <2>9, KeptFits
<1>10. CASE ~(admitted /\ ~PodReads(link[l].node) /\ bodyReads > 0)
  <2>1. link' = Answering(l, "refused") /\ bodyReads' = bodyReads
      BY <1>10 DEF Authenticated
  <2>2. "refused" \in Answers \ {"none"}
      BY DEF Answers
  <2>3. /\ link' = [link EXCEPT ![l] = AnswerTo(link[l], "refused")] /\ Fits(l, AnswerTo(link[l], "refused"))
        /\ AnswerTo(link[l], "refused").at = "write"
      BY <1>1, <1>6, <1>7, <2>1, <2>2, AnswerFits
  <2>4. Calm(l, AnswerTo(link[l], "refused"))
      BY <1>1, <2>3 DEF Calm
  <2> QED  BY <1>2, <1>3, <2>1, <2>3, <2>4, QuietFits
<1> QED  BY <1>9, <1>10

\* A hold that ends is answered, and drops its own entry.
LEMMA HoldEndsStep ==
    ASSUME TransportInv, NEW l \in Links, NEW a \in {"snapshot", "gone", "unchanged", "standby"}, HoldEnds(l, a)
    PROVE  TransportInv'
<1>1. /\ link[l].at = "hold" /\ link' = Answering(l, a) /\ holder' = HoldDropped(l)
      /\ UNCHANGED <<poller, handled, twice, acceptor, permits, peerOpen>> /\ UNCHANGED bodyReads /\ UNCHANGED quota
    BY DEF HoldEnds
<1>2. /\ RoomOk(link[l], link[l].node \in Planes) /\ link[l] \in LinkRec /\ quota \in QuotaRec
      /\ \A d \in Planes : poller[d].link = l => poller[d].at = "sent"
    BY <1>1, LinkFacts
<1>3. a \in Answers \ {"none"} /\ link[l].node \in Planes /\ link[l].told = "none"
    BY <1>1, <1>2 DEF RoomOk, Answers
<1> DEFINE c == AnswerTo(link[l], a)
<1>4. link' = [link EXCEPT ![l] = c] /\ Fits(l, c) /\ c.at = "write"
    BY <1>1, <1>2, <1>3, AnswerFits
<1> HIDE DEF c
<1>5. link'[l] = c /\ \A k \in Links \ {l} : link'[k] = link[k]
    BY <1>4, LinkSet DEF Fits
<1>6. HoldsOk' /\ holder' \in [DOMAIN holder' -> Links]
    BY <1>1, <1>4, <1>5, HoldsDropped
<1>7. BodiesOk' /\ bodyReads' \in Nat
    BY <1>1, <1>4, <1>5, BodiesSame DEF TransportInv, TransportType
<1>8. quota' \in QuotaRec /\ quota'.others = quota.others
    BY <1>1, <1>2
<1> QED  BY <1>1, <1>4, <1>6, <1>7, <1>8, KeptFits

\* A timer closes the connection, or answers the body it waited for.
LEMMA PeerTimesOutStep ==
    ASSUME TransportInv, NEW l \in Links, PeerTimesOut(l)
    PROVE  TransportInv'
<1>1. /\ RoomOk(link[l], link[l].node \in Planes) /\ link[l] \in LinkRec /\ quota \in QuotaRec
      /\ \A d \in Planes : poller[d].link = l => poller[d].at = "sent" \/ link[l].at # "body"
    BY LinkFacts
<1>2. UNCHANGED <<poller, handled, twice, quota>> /\ quota' \in QuotaRec /\ quota'.others = quota.others
    BY <1>1 DEF PeerTimesOut
<1>3. CASE link[l].at = "body"
  <2> DEFINE c == AnswerTo(link[l], "refused")
  <2>1. link' = Answering(l, "refused") /\ bodyReads' = bodyReads + 1 /\ UNCHANGED <<acceptor, permits, peerOpen, holder>>
      BY <1>3 DEF PeerTimesOut
  <2>2. "refused" \in Answers \ {"none"} /\ link[l].told = "none" /\ \A d \in Planes : poller[d].link = l => poller[d].at = "sent"
      BY <1>1, <1>3 DEF RoomOk, Answers
  <2>3. link' = [link EXCEPT ![l] = c] /\ Fits(l, c) /\ c.at = "write"
      BY <1>3, <2>1, <2>2, AnswerFits
  <2> HIDE DEF c
  <2>4. link'[l] = c /\ \A k \in Links \ {l} : link'[k] = link[k]
      BY <2>3, LinkSet DEF Fits
  <2>5. BodiesOk' /\ bodyReads' \in Nat
      BY <1>3, <2>1, <2>3, <2>4, BodyEnds
  <2>6. HoldsOk' /\ holder' \in [DOMAIN holder' -> Links]
    <3>1. \A k \in Links : /\ link'[k].at = "hold" <=> link[k].at = "hold"
                           /\ link[k].at = "hold" => link'[k].node = link[k].node /\ (link'[k].left # 0 => link[k].left # 0)
        BY <1>3, <2>3, <2>4
    <3> QED  BY <2>1, <3>1, HoldsSame DEF TransportInv, TransportType
  <2> QED  BY <1>2, <2>1, <2>3, <2>5, <2>6, KeptFits
<1>4. CASE link[l].at # "body"
  <2>1. LinkOpen(l) /\ link[l].told \in Answers
      BY <1>1 DEF PeerTimesOut, LinkOpen, LinkRec
  <2>2. link' = Shut(l, link[l].told) /\ CloseLink(l)
      BY <1>4 DEF PeerTimesOut, CutLink
  <2> QED  BY <1>2, <2>1, <2>2, ClosedStep
<1> QED  BY <1>3, <1>4

\* A connection that ends early gives back its slot.
LEMMA DisconnectedStep ==
    ASSUME TransportInv, NEW l \in Links, Disconnected(l) \/ WriteFails(l)
    PROVE  TransportInv'
<1>1. link[l] \in LinkRec
    BY LinkFacts
<1>2. LinkOpen(l) /\ link[l].told \in Answers
    BY <1>1 DEF Disconnected, WriteFails, LinkOpen, LinkRec
<1>3. link' = Shut(l, link[l].told) /\ CloseLink(l) /\ UNCHANGED <<poller, handled, twice, quota>>
    BY DEF Disconnected, WriteFails, CutLink
<1> QED  BY <1>2, <1>3, ClosedStep

\* A write that goes on pays the stall before it.
LEMMA WriteOnStep ==
    ASSUME TransportInv, NEW l \in Links, WriteOn(l)
    PROVE  TransportInv'
<1> DEFINE c == [link[l] EXCEPT !.owed = link[l].owed - 1, !.room = link[l].room - 1, !.left = -1]
           D == AnswerSize - SocketRoom
<1>1. /\ link \in [Links -> LinkRec] /\ link[l] \in LinkRec /\ link[l].age \in Nat /\ link[l].left \in Int
      /\ link[l].owed \in Nat /\ link[l].room \in 0 .. SocketRoom
      /\ AgeOk(link[l]) /\ RoomOk(link[l], link[l].node \in Planes) /\ PollOk(link[l], poller, handled)
      /\ quota \in QuotaRec
    BY LinkFacts
<1>2. PeerTimeout \in Nat /\ D \in Nat /\ SocketRoom \in Nat /\ AnswerSize \in Nat /\ HoldTime \in Nat /\ ReviewTimeout \in Nat /\ ToAnswer \in Nat
    BY TransportAssumption DEF ToAnswer
<1>3. link[l].at = "write" /\ link[l].owed > 0 /\ link[l].room > 0 /\ link' = [link EXCEPT ![l] = c]
    BY <1>1 DEF WriteOn
<1>4. c \in LinkRec
  <2>1. link[l].owed - 1 \in Nat /\ link[l].room - 1 \in 0 .. SocketRoom /\ -1 \in Int
      BY <1>1, <1>2, <1>3
  <2> QED  BY <1>1, <2>1 DEF LinkRec
<1>5. /\ c.at = link[l].at /\ c.left = -1 /\ c.owed = link[l].owed - 1 /\ c.room = link[l].room - 1
      /\ c.node = link[l].node /\ c.age = link[l].age /\ c.poll = link[l].poll /\ c.answer = link[l].answer
      /\ c.told = link[l].told /\ c.fin = link[l].fin
    BY <1>1 DEF LinkRec
<1>6. /\ link[l].owed <= D + link[l].room
      /\ \/ link[l].left = -1 /\ link[l].owed > D /\ link[l].age <= ToAnswer
         \/ link[l].left = -1 /\ link[l].owed <= D /\ link[l].age <= ToAnswer + Stalls(D - link[l].owed)
         \/ /\ link[l].left \in Nat /\ link[l].owed > 0 /\ link[l].owed <= D
            /\ link[l].age + link[l].left <= ToAnswer + Stalls(D - link[l].owed + 1)
    BY <1>1, <1>3 DEF AgeOk
<1> HIDE DEF c
<1>7. AgeOk(c)
  <2>1. c.owed <= D + c.room
    <3> HIDE DEF D
    <3> QED  BY <1>1, <1>2, <1>5, <1>6
  <2>2. \/ c.owed > D /\ c.age <= ToAnswer
        \/ c.owed <= D /\ c.age <= ToAnswer + Stalls(D - c.owed)
    <3>1. CASE link[l].left = -1 /\ link[l].owed > D /\ link[l].age <= ToAnswer
      <4>1. c.owed > D \/ D - c.owed = 0
        <5> HIDE DEF D
        <5> QED  BY <1>1, <1>2, <1>5, <1>6, <3>1
      <4>2. Stalls(0) = 0 /\ c.age <= ToAnswer /\ c.owed \in Nat
          BY <1>1, <1>3, <1>5, <3>1, StallsGrow
      <4> HIDE DEF D
      <4> QED  BY <1>2, <4>1, <4>2
    <3>2. ASSUME link[l].owed <= D PROVE c.owed <= D /\ D - c.owed = (D - link[l].owed) + 1 /\ D - link[l].owed \in Nat
      <4> HIDE DEF D
      <4> QED  BY <1>1, <1>2, <1>5, <3>2
    <3>3. CASE link[l].left = -1 /\ link[l].owed <= D /\ link[l].age <= ToAnswer + Stalls(D - link[l].owed)
      <4> DEFINE x == D - link[l].owed
      <4>1. Stalls(x + 1) = Stalls(x) + PeerTimeout /\ Stalls(x) \in Nat
          BY <3>2, <3>3, StallsGrow
      <4>2. c.age <= ToAnswer + Stalls(x) /\ c.age \in Nat /\ c.owed <= D /\ D - c.owed = x + 1
          BY <1>1, <1>5, <3>2, <3>3
      <4> HIDE DEF D, x
      <4> QED  BY <1>2, <4>1, <4>2
    <3>4. CASE /\ link[l].left \in Nat /\ link[l].owed > 0 /\ link[l].owed <= D
               /\ link[l].age + link[l].left <= ToAnswer + Stalls(D - link[l].owed + 1)
      <4> DEFINE x == D - link[l].owed
      <4>1. Stalls(x + 1) \in Nat
          BY <3>2, <3>4, StallsGrow
      <4>2. c.age + link[l].left <= ToAnswer + Stalls(x + 1) /\ c.age \in Nat /\ c.owed <= D /\ D - c.owed = x + 1
          BY <1>1, <1>5, <3>2, <3>4
      <4> HIDE DEF D, x
      <4> QED  BY <1>2, <3>4, <4>1, <4>2
    <3> QED  BY <1>6, <3>1, <3>3, <3>4
  <2> QED  BY <1>3, <1>5, <2>1, <2>2 DEF AgeOk, OpenStates
<1>8. RoomOk(c, c.node \in Planes) /\ PollOk(c, poller, handled)
    BY <1>1, <1>3, <1>5 DEF RoomOk, PollOk
<1>9. Fits(l, c)
  <2>1. \A d \in Planes : poller[d].link = l => ~link[l].fin /\ poller[d].at = "sent"
      BY <1>3, LinkFacts
  <2> QED  BY <1>3, <1>4, <1>5, <1>7, <1>8, <2>1 DEF Fits
<1>10. /\ UNCHANGED <<acceptor, permits, peerOpen, bodyReads, holder, poller, handled, twice>>
       /\ quota' \in QuotaRec /\ quota'.others = quota.others
    BY <1>1 DEF WriteOn, server
<1>11. Calm(l, c)
    BY <1>3, <1>5 DEF Calm
<1> QED  BY <1>3, <1>9, <1>10, <1>11, QuietFits

\* A stall is one for what is still owed.
LEMMA WriteStallsStep ==
    ASSUME TransportInv, NEW l \in Links, WriteStalls(l)
    PROVE  TransportInv'
<1> DEFINE c == [link[l] EXCEPT !.left = PeerTimeout]
           D == AnswerSize - SocketRoom
<1>1. /\ link \in [Links -> LinkRec] /\ link[l] \in LinkRec /\ link[l].age \in Nat /\ link[l].left \in Int
      /\ link[l].owed \in Nat /\ link[l].room \in 0 .. SocketRoom
      /\ AgeOk(link[l]) /\ RoomOk(link[l], link[l].node \in Planes) /\ PollOk(link[l], poller, handled)
      /\ quota \in QuotaRec
    BY LinkFacts
<1>2. PeerTimeout \in Nat /\ D \in Nat /\ SocketRoom \in Nat /\ AnswerSize \in Nat /\ HoldTime \in Nat /\ ReviewTimeout \in Nat /\ ToAnswer \in Nat
    BY TransportAssumption DEF ToAnswer
<1>3. link[l].at = "write" /\ link[l].owed > 0 /\ link[l].room = 0 /\ link[l].left = -1 /\ link' = [link EXCEPT ![l] = c]
    BY <1>1 DEF WriteStalls
<1>4. c \in LinkRec
    BY <1>1, <1>2 DEF LinkRec
<1>5. /\ c.at = link[l].at /\ c.left = PeerTimeout /\ c.owed = link[l].owed /\ c.room = link[l].room
      /\ c.node = link[l].node /\ c.age = link[l].age /\ c.poll = link[l].poll /\ c.answer = link[l].answer
      /\ c.told = link[l].told /\ c.fin = link[l].fin
    BY <1>1 DEF LinkRec
<1>6. link[l].owed <= D /\ link[l].age <= ToAnswer + Stalls(D - link[l].owed)
  <2>1. link[l].owed <= D
      BY <1>1, <1>2, <1>3 DEF AgeOk
  <2> QED  BY <1>1, <1>2, <1>3, <2>1 DEF AgeOk
<1> HIDE DEF c
<1>7. AgeOk(c)
  <2> DEFINE x == D - link[l].owed
  <2>1. x \in Nat
    <3> HIDE DEF D
    <3> QED  BY <1>1, <1>2, <1>6
  <2>2. Stalls(x + 1) = Stalls(x) + PeerTimeout /\ Stalls(x) \in Nat
      BY <2>1, StallsGrow
  <2>3. c.age <= ToAnswer + Stalls(x) /\ c.age \in Nat
      BY <1>1, <1>5, <1>6
  <2>4. c.age + PeerTimeout <= ToAnswer + Stalls(x + 1)
    <3> HIDE DEF x
    <3> QED  BY <1>2, <2>2, <2>3
  <2>5. c.owed <= D + c.room
    <3> HIDE DEF D
    <3> QED  BY <1>1, <1>2, <1>3, <1>5, <1>6
  <2> QED  BY <1>2, <1>3, <1>5, <1>6, <2>4, <2>5 DEF AgeOk, OpenStates
<1>8. RoomOk(c, c.node \in Planes) /\ PollOk(c, poller, handled)
    BY <1>1, <1>3, <1>5 DEF RoomOk, PollOk
<1>9. Fits(l, c)
  <2>1. \A d \in Planes : poller[d].link = l => ~link[l].fin /\ poller[d].at = "sent"
      BY <1>3, LinkFacts
  <2> QED  BY <1>3, <1>4, <1>5, <1>7, <1>8, <2>1 DEF Fits
<1>10. /\ UNCHANGED <<acceptor, permits, peerOpen, bodyReads, holder, poller, handled, twice>>
       /\ quota' \in QuotaRec /\ quota'.others = quota.others
    BY <1>1 DEF WriteStalls, server
<1>11. Calm(l, c)
    BY <1>3, <1>5 DEF Calm
<1> QED  BY <1>3, <1>9, <1>10, <1>11, QuietFits

\* An answered poll begins the connection anew, any other answer ends it.
LEMMA WrittenStep ==
    ASSUME TransportInv, NEW l \in Links, Written(l)
    PROVE  TransportInv'
<1>1. /\ link \in [Links -> LinkRec] /\ link[l] \in LinkRec
      /\ AgeOk(link[l]) /\ RoomOk(link[l], link[l].node \in Planes) /\ PollOk(link[l], poller, handled)
      /\ quota \in QuotaRec /\ PeerTimeout \in Nat
    BY LinkFacts, TransportAssumption
<1>2. link[l].at = "write" /\ UNCHANGED <<poller, handled, twice, quota>> /\ link[l].answer \in Answers
    BY <1>1 DEF Written, LinkRec
<1>3. CASE KeptAfter(link[l].answer) /\ ~ending
  <2> DEFINE c == [link[l] EXCEPT !.at = "head", !.left = PeerTimeout, !.answer = "none", !.told = link[l].answer, !.age = 0]
  <2>1. link[l].answer \in {"snapshot", "unchanged"}
      BY <1>3 DEF KeptAfter
  <2>2. link' = [link EXCEPT ![l] = c] /\ UNCHANGED server
      BY <1>1, <1>3, <2>1 DEF Written
  <2>3. c \in LinkRec
    <3>1. "head" \in OpenStates \cup {"none", "backlog", "closed"} /\ PeerTimeout \in Int /\ "none" \in Answers /\ 0 \in Nat
        BY <1>1 DEF OpenStates, Answers
    <3> QED  BY <1>1, <1>2, <3>1 DEF LinkRec
  <2>4. /\ c.at = "head" /\ c.left = PeerTimeout /\ c.age = 0 /\ c.told = link[l].answer
        /\ c.node = link[l].node /\ c.poll = link[l].poll /\ c.fin = link[l].fin
      BY <1>1 DEF LinkRec
  <2> HIDE DEF c
  <2>5. c.poll = 0
      BY <1>1, <1>2, <2>4 DEF PollOk
  <2>6. AgeOk(c)
      BY <1>1, <2>4 DEF AgeOk, OpenStates
  <2>7. RoomOk(c, c.node \in Planes) /\ PollOk(c, poller, handled)
      BY <1>1, <1>2, <2>1, <2>4, <2>5 DEF RoomOk, PollOk
  <2>8. Fits(l, c)
    <3>1. \A d \in Planes : poller[d].link = l => ~link[l].fin /\ poller[d].at = "sent"
        BY <1>2, LinkFacts
    <3> QED  BY <1>2, <2>3, <2>4, <2>5, <2>6, <2>7, <3>1 DEF Fits, OpenStates
  <2>9. /\ UNCHANGED <<acceptor, permits, peerOpen, bodyReads, holder, poller, handled, twice>>
        /\ quota' \in QuotaRec /\ quota'.others = quota.others
      BY <1>1, <1>2, <2>2 DEF server
  <2>10. Calm(l, c)
      BY <1>2, <2>4 DEF Calm
  <2> QED  BY <2>2, <2>8, <2>9, <2>10, QuietFits
<1>4. CASE ~(KeptAfter(link[l].answer) /\ ~ending)
  <2>1. link' = Shut(l, link[l].answer) /\ CloseLink(l)
      BY <1>4 DEF Written
  <2>2. LinkOpen(l)
      BY <1>2 DEF LinkOpen
  <2> QED  BY <1>2, <2>1, <2>2, ClosedStep
<1> QED  BY <1>3, <1>4

\* What a peer reads makes room.
LEMMA PeerReadsStep ==
    ASSUME TransportInv, NEW l \in Links, PeerReads(l)
    PROVE  TransportInv'
<1> DEFINE c == [link[l] EXCEPT !.room = link[l].room + 1]
<1>1. /\ link \in [Links -> LinkRec] /\ link[l] \in LinkRec /\ link[l].age \in Nat /\ link[l].left \in Int
      /\ link[l].owed \in Nat /\ link[l].room \in 0 .. SocketRoom /\ SocketRoom \in Nat /\ AnswerSize \in Nat
      /\ AgeOk(link[l]) /\ RoomOk(link[l], link[l].node \in Planes) /\ PollOk(link[l], poller, handled)
      /\ quota \in QuotaRec
    BY LinkFacts, TransportAssumption
<1>2. link[l].at \in {"head", "write", "closed"} /\ link[l].room < SocketRoom /\ link' = [link EXCEPT ![l] = c]
    BY <1>1 DEF PeerReads
<1>3. c \in LinkRec
  <2>1. link[l].room + 1 \in 0 .. SocketRoom
      BY <1>1, <1>2
  <2> QED  BY <1>1, <2>1 DEF LinkRec
<1>4. /\ c.at = link[l].at /\ c.left = link[l].left /\ c.owed = link[l].owed /\ c.room = link[l].room + 1
      /\ c.node = link[l].node /\ c.age = link[l].age /\ c.poll = link[l].poll /\ c.answer = link[l].answer
      /\ c.told = link[l].told /\ c.fin = link[l].fin
    BY <1>1 DEF LinkRec
<1> HIDE DEF c
<1>5. AgeOk(c)
    BY <1>1, <1>4 DEF AgeOk
<1>6. RoomOk(c, c.node \in Planes) /\ PollOk(c, poller, handled)
    BY <1>1, <1>2, <1>4 DEF RoomOk, PollOk
<1>7. Fits(l, c)
  <2>1. link[l].at # "none"
      BY <1>2
  <2> QED  BY <1>3, <1>4, <1>5, <1>6, <2>1, LinkFacts DEF Fits
<1>8. /\ UNCHANGED <<acceptor, permits, peerOpen, bodyReads, holder, poller, handled, twice>>
      /\ quota' \in QuotaRec /\ quota'.others = quota.others
    BY <1>1 DEF PeerReads, server
<1>9. Calm(l, c)
    BY <1>4 DEF Calm
<1> QED  BY <1>2, <1>7, <1>8, <1>9, QuietFits

\* A node that is no data plane leaves.
LEMMA StrangerLeavesStep ==
    ASSUME TransportInv, NEW l \in Links, StrangerLeaves(l)
    PROVE  TransportInv'
<1> DEFINE c == [link[l] EXCEPT !.fin = TRUE]
<1>1. /\ link \in [Links -> LinkRec] /\ link[l] \in LinkRec
      /\ AgeOk(link[l]) /\ RoomOk(link[l], link[l].node \in Planes) /\ PollOk(link[l], poller, handled)
      /\ quota \in QuotaRec
    BY LinkFacts
<1>2. link[l].at \notin {"none", "closed"} /\ link[l].node \in quota.others /\ link' = [link EXCEPT ![l] = c]
    BY <1>1 DEF StrangerLeaves
<1>3. c \in LinkRec
    BY <1>1 DEF LinkRec
<1>4. /\ c.at = link[l].at /\ c.left = link[l].left /\ c.owed = link[l].owed /\ c.room = link[l].room
      /\ c.node = link[l].node /\ c.age = link[l].age /\ c.poll = link[l].poll /\ c.answer = link[l].answer
      /\ c.told = link[l].told /\ c.fin
    BY <1>1 DEF LinkRec
<1> HIDE DEF c
<1>5. AgeOk(c)
    BY <1>1, <1>4 DEF AgeOk
<1>6. RoomOk(c, c.node \in Planes) /\ PollOk(c, poller, handled)
    BY <1>1, <1>2, <1>4 DEF RoomOk, PollOk
<1>7. link[l].node \notin Planes
    BY <1>2 DEF TransportInv, TransportType
<1>8. Fits(l, c)
  <2>1. \A d \in Planes : poller[d].link # l
      BY <1>7, LinkFacts
  <2> QED  BY <1>2, <1>3, <1>4, <1>5, <1>6, <2>1 DEF Fits
<1>9. /\ UNCHANGED <<acceptor, permits, peerOpen, bodyReads, holder, poller, handled, twice>>
      /\ quota' \in QuotaRec /\ quota'.others = quota.others
    BY <1>1 DEF StrangerLeaves, server
<1>10. Calm(l, c)
    BY <1>4 DEF Calm
<1> QED  BY <1>2, <1>8, <1>9, <1>10, QuietFits

\* The hold begins and ends its pod's other: a poll is handled here, once.
LEMMA BodyReadStep ==
    ASSUME TransportInv, NEW l \in Links, BodyRead(l)
    PROVE  TransportInv'
<1> DEFINE n == link[l].node
           p == <<n, link[l].poll>>
           c == [link[l] EXCEPT !.at = "hold", !.left = HoldTime]
           Old(k) == n \in DOMAIN holder /\ holder[n] = k
<1>1. /\ link \in [Links -> LinkRec] /\ link[l] \in LinkRec /\ link[l].age \in Nat /\ link[l].left \in Int /\ link[l].poll \in Nat
      /\ AgeOk(link[l]) /\ RoomOk(link[l], link[l].node \in Planes) /\ PollOk(link[l], poller, handled)
      /\ PeerTimeout \in Nat /\ HoldTime \in Nat /\ ReviewTimeout \in Nat
    BY LinkFacts, TransportAssumption
<1>2. /\ link[l].at = "body" /\ ~link[l].fin /\ bodyReads' = bodyReads + 1
      /\ handled' = handled \cup {p} /\ twice' = twice \cup ({p} \cap handled)
      /\ holder' = [m \in DOMAIN holder \cup {n} |-> IF m = n THEN l ELSE holder[m]]
      /\ UNCHANGED <<acceptor, permits, peerOpen, ending, poller, quota>>
    BY DEF BodyRead
<1>3. link' = [k \in Links |-> IF k = l THEN c ELSE IF Old(k) THEN [link[k] EXCEPT !.left = 0] ELSE link[k]]
    BY DEF BodyRead
<1>4. c \in LinkRec
  <2>1. "hold" \in OpenStates \cup {"none", "backlog", "closed"} /\ HoldTime \in Int
      BY <1>1 DEF OpenStates
  <2> QED  BY <1>1, <2>1 DEF LinkRec
<1>5. /\ c.at = "hold" /\ c.left = HoldTime
      /\ c.node = n /\ c.age = link[l].age /\ c.poll = link[l].poll
      /\ c.told = link[l].told /\ c.room = link[l].room /\ c.fin = link[l].fin
    BY <1>1 DEF LinkRec
<1>6. \A k \in Links : [link[k] EXCEPT !.left = 0] \in LinkRec
    BY <1>1 DEF LinkRec
<1>7. \A k \in Links : Old(k) => k # l /\ link[k].at = "hold" /\ link[k].node = n
    BY <1>2 DEF TransportInv, HoldsOk
<1> HIDE DEF c
<1>8. link' \in [Links -> LinkRec] /\ link'[l] = c
    BY <1>3, <1>4, <1>6, <1>1
<1>9. \A k \in Links \ {l} :
          /\ link'[k].at = link[k].at /\ link'[k].node = link[k].node /\ link'[k].age = link[k].age /\ link'[k].poll = link[k].poll
          /\ link'[k].answer = link[k].answer /\ link'[k].owed = link[k].owed /\ link'[k].room = link[k].room
          /\ link'[k].told = link[k].told /\ link'[k].fin = link[k].fin
    BY <1>1, <1>3 DEF LinkRec
<1>10. \A k \in Links \ {l} : (Old(k) => link'[k].left = 0) /\ (~Old(k) => link'[k] = link[k])
    BY <1>1, <1>3 DEF LinkRec
<1>11. SlotsOk' /\ PeersOk'
  <2>1. \A k \in Links : /\ link'[k].at \in OpenStates <=> link[k].at \in OpenStates
                         /\ link[k].at \in OpenStates => link'[k].node = link[k].node
      BY <1>2, <1>5, <1>8, <1>9 DEF OpenStates
  <2>2. Acceptors(acceptor') = Acceptors(acceptor) /\ UNCHANGED <<permits, peerOpen>>
      BY <1>2
  <2> QED  BY <2>1, <2>2, SlotsSame
<1>12. BodiesOk' /\ bodyReads' \in Nat
    BY <1>2, <1>5, <1>8, <1>9, BodyEnds
<1>13. link[l].poll # 0 /\ n \in Planes /\ link[l].poll <= LastSent(poller[n]) /\ p \notin handled
    BY <1>1, <1>2 DEF RoomOk, PollOk
<1>14. HandledOk'
  <2>1. Planes' = Planes /\ poller' = poller /\ twice' = {}
      BY <1>2, <1>13 DEF Planes, TransportInv, HandledOk
  <2>2. p[1] = n /\ p[2] = link[l].poll
      OBVIOUS
  <2> QED  BY <1>1, <1>2, <1>13, <2>1, <2>2 DEF TransportInv, HandledOk
<1>15. LinksOk'
  <2>1. Planes' = Planes /\ poller' = poller
      BY <1>2 DEF Planes
  <2>2. \A a, b \in Links : link'[a].poll # 0 /\ link'[a].poll = link'[b].poll /\ link'[a].node = link'[b].node => a = b
    <3>1. \A k \in Links : link'[k].poll = link[k].poll /\ link'[k].node = link[k].node
        BY <1>5, <1>8, <1>9
    <3> QED  BY <3>1 DEF TransportInv, LinksOk
  <2>3. AgeOk(c) /\ RoomOk(c, c.node \in Planes) /\ PollOk(c, poller, handled')
    <3>1. AgeOk(c)
        BY <1>1, <1>2, <1>5 DEF AgeOk, OpenStates, ToAnswer
    <3>2. RoomOk(c, c.node \in Planes) /\ PollOk(c, poller, handled')
        BY <1>1, <1>2, <1>5, <1>13 DEF RoomOk, PollOk
    <3> QED  BY <3>1, <3>2
  <2>4. ASSUME NEW k \in Links, k # l
        PROVE  AgeOk(link'[k]) /\ RoomOk(link'[k], link'[k].node \in Planes) /\ PollOk(link'[k], poller, handled')
    <3>1. /\ AgeOk(link[k]) /\ RoomOk(link[k], link[k].node \in Planes) /\ PollOk(link[k], poller, handled)
          /\ link[k].age \in Nat /\ link[k].left \in Int
        BY LinkFacts
    <3>2. AgeOk(link'[k])
      <4>1. CASE Old(k)
        <5>1. link'[k].at = "hold" /\ link'[k].left = 0 /\ link'[k].age = link[k].age /\ link[k].at = "hold"
            BY <1>7, <1>9, <1>10, <2>4, <4>1
        <5> QED  BY <1>1, <3>1, <5>1 DEF AgeOk, OpenStates, ToAnswer
      <4>2. CASE ~Old(k)
          BY <1>10, <2>4, <3>1, <4>2
      <4> QED  BY <4>1, <4>2
    <3>3. RoomOk(link'[k], link'[k].node \in Planes)
      <4>1. CASE Old(k)
        <5>1. link'[k].at # "none"
            BY <1>7, <1>9, <2>4, <4>1
        <5> QED  BY <1>9, <2>4, <3>1, <5>1 DEF RoomOk
      <4>2. CASE ~Old(k)
          BY <1>10, <2>4, <3>1, <4>2
      <4> QED  BY <4>1, <4>2
    <3>4. PollOk(link'[k], poller, handled')
      <4>1. link[k].poll # 0 => <<link[k].node, link[k].poll>> # p
          BY <2>4 DEF TransportInv, LinksOk
      <4> QED  BY <1>2, <1>9, <2>4, <3>1, <4>1 DEF PollOk
    <3> QED  BY <3>2, <3>3, <3>4
  <2> QED  BY <1>8, <2>1, <2>2, <2>3, <2>4 DEF LinksOk
<1>16. HoldsOk' /\ holder' \in [DOMAIN holder' -> Links]
  <2>1. holder \in [DOMAIN holder -> Links]
      BY DEF TransportInv, TransportType
  <2>2. DOMAIN holder' = DOMAIN holder \cup {n} /\ holder'[n] = l /\ \A m \in DOMAIN holder : m # n => holder'[m] = holder[m]
      BY <1>2
  <2>3. holder' \in [DOMAIN holder' -> Links]
      BY <1>2, <2>1
  <2>4. ASSUME NEW m \in DOMAIN holder' PROVE link'[holder'[m]].at = "hold" /\ link'[holder'[m]].node = m
    <3>1. CASE m = n
        BY <1>5, <1>8, <2>2, <3>1
    <3>2. CASE m # n
      <4>1. m \in DOMAIN holder /\ holder'[m] = holder[m] /\ holder[m] \in Links
          BY <2>1, <2>2, <3>2
      <4>2. link[holder[m]].at = "hold" /\ link[holder[m]].node = m
          BY <4>1 DEF TransportInv, HoldsOk
      <4> QED  BY <1>2, <1>9, <4>1, <4>2
    <3> QED  BY <3>1, <3>2
  <2>5. ASSUME NEW k \in Links, link'[k].at = "hold", link'[k].left # 0
        PROVE  link'[k].node \in DOMAIN holder' /\ holder'[link'[k].node] = k
    <3>1. CASE k = l
        BY <1>5, <1>8, <2>2, <3>1
    <3>2. CASE k # l
      <4>1. ~Old(k) /\ link'[k] = link[k]
          BY <1>10, <2>5, <3>2
      <4>2. link[k].node \in DOMAIN holder /\ holder[link[k].node] = k
          BY <2>5, <4>1 DEF TransportInv, HoldsOk
      <4> QED  BY <2>2, <4>1, <4>2
    <3> QED  BY <3>1, <3>2
  <2> QED  BY <2>3, <2>4, <2>5 DEF HoldsOk
<1>17. PlanesOk'
  <2>1. Planes' = Planes /\ poller' = poller
      BY <1>2 DEF Planes
  <2>2. ASSUME NEW d \in Planes PROVE PlaneOk(d, poller[d], link')
    <3>1. PlaneOk(d, poller[d], link) /\ (poller[d].link # 0 => poller[d].link \in Links)
        BY DEF TransportInv, PlanesOk, TransportType, PollerRec
    <3>2. poller[d].link = l => poller[d].at = "sent"
        BY <1>2, LinkFacts
    <3>3. \A k \in Links : link'[k].node = link[k].node /\ link'[k].fin = link[k].fin /\ link'[k].poll = link[k].poll
                           /\ (link'[k].at = "none" <=> link[k].at = "none") /\ link'[k].told = link[k].told
                           /\ (k # l => link'[k].at = link[k].at)
        BY <1>2, <1>5, <1>8, <1>9
    <3> QED  BY <3>1, <3>2, <3>3 DEF PlaneOk
  <2> QED  BY <2>1, <2>2 DEF PlanesOk
<1>18. TransportType'
  <2>1. quota' \in QuotaRec /\ quota'.others = quota.others /\ acceptor' \in {"slot", "accept", "pause", "stopped"}
        /\ permits' \in Nat /\ peerOpen' \in [DOMAIN peerOpen' -> Nat] /\ poller' = poller
      BY <1>2 DEF TransportInv, TransportType
  <2> QED  BY <1>8, <1>12, <1>16, <2>1, ServerTypes
<1> QED  BY <1>11, <1>12, <1>14, <1>15, <1>16, <1>17, <1>18 DEF TransportInv

-----------------------------------------------------------------------------
(* The accept loop. *)

\* What the end of a connection leaves of it.
CutTo(l) ==
    IF Held(l) THEN [NoLink EXCEPT !.at = "closed", !.node = link[l].node, !.told = link[l].told, !.room = link[l].room] ELSE NoLink

\* The connection that is cut.
LEMMA CutFacts ==
    ASSUME TransportInv, NEW l \in Links
    PROVE  /\ CutLink(l) = [link EXCEPT ![l] = CutTo(l)] /\ CutLink(l)[l] = CutTo(l)
           /\ CutTo(l) \in LinkRec /\ CutTo(l).poll = 0 /\ ~CutTo(l).fin /\ CutTo(l).at \in {"closed", "none"}
           /\ AgeOk(CutTo(l)) /\ RoomOk(CutTo(l), CutTo(l).node \in Planes) /\ PollOk(CutTo(l), poller, handled)
           /\ Held(l) => CutTo(l).at = "closed" /\ CutTo(l).node = link[l].node
           /\ ~Held(l) => CutTo(l).at = "none"
<1> DEFINE c == CutTo(l)
<1>1. link \in [Links -> LinkRec] /\ link[l] \in LinkRec
    BY DEF TransportInv, TransportType
<1>2. c \in LinkRec /\ c.poll = 0 /\ c.age = 0 /\ ~c.fin
    BY <1>1, NoLinkFacts DEF LinkRec, NoLink, OpenStates, CutTo
<1>3. CutLink(l) = [link EXCEPT ![l] = c] /\ CutLink(l)[l] = c
    BY <1>1 DEF CutLink, Shut, CutTo
<1>4. (Held(l) => c.at = "closed" /\ c.node = link[l].node) /\ (~Held(l) => c = NoLink)
    BY DEF NoLink, CutTo
<1> HIDE DEF c
<1>5. c.at \in {"closed", "none"}
    BY <1>4, NoLinkFacts
<1>6. AgeOk(c) /\ PollOk(c, poller, handled)
    BY <1>2, <1>5 DEF AgeOk, PollOk, OpenStates
<1>7. RoomOk(c, c.node \in Planes)
  <2>1. c.at = "closed" => RoomOk(c, c.node \in Planes)
      BY DEF RoomOk
  <2>2. c = NoLink => RoomOk(c, c.node \in Planes)
    <3>1. NoLink.at = "none" /\ NoLink.told = "none"
        BY DEF NoLink
    <3> QED  BY <3>1 DEF RoomOk
  <2> QED  BY <1>4, <2>1, <2>2
<1> QED  BY <1>2, <1>3, <1>4, <1>5, <1>6, <1>7, NoLinkFacts DEF c

\* The accept loop moves, and connections it has not taken may be cut.
LEMMA AcceptorMoves ==
    ASSUME TransportInv, link' \in [Links -> LinkRec],
           \A k \in Links : link'[k] = link[k] \/ (link[k].at = "backlog" /\ link'[k] = CutTo(k)),
           UNCHANGED <<peerOpen, bodyReads, holder, poller, handled, twice>>,
           quota' \in QuotaRec, quota'.others = quota.others,
           acceptor' \in {"slot", "accept", "pause", "stopped"}, permits' \in Nat,
           permits' + Acceptors(acceptor') = permits + Acceptors(acceptor)
    PROVE  TransportInv'
<1>1. Planes' = Planes /\ UNCHANGED <<poller, handled, twice>> /\ UNCHANGED <<peerOpen, bodyReads, holder>>
    BY DEF Planes
<1>2. \A k \in Links : link'[k] # link[k] =>
          /\ link[k].at = "backlog" /\ link'[k].at \in {"closed", "none"} /\ link'[k].poll = 0 /\ ~link'[k].fin
          /\ AgeOk(link'[k]) /\ RoomOk(link'[k], link'[k].node \in Planes) /\ PollOk(link'[k], poller, handled)
          /\ Held(k) => link'[k].at = "closed" /\ link'[k].node = link[k].node
          /\ ~Held(k) => link'[k].at = "none"
    BY CutFacts
<1>3. \A k \in Links : /\ link'[k].at \in OpenStates <=> link[k].at \in OpenStates
                       /\ link[k].at \in OpenStates => link'[k].node = link[k].node
                       /\ link'[k].at = "hold" <=> link[k].at = "hold"
                       /\ link'[k].at = "body" <=> link[k].at = "body"
                       /\ link[k].at = "hold" => link'[k] = link[k]
    BY <1>2 DEF OpenStates
<1>4. SlotsOk' /\ PeersOk'
  <2>1. OpenSet(link') = OpenSet(link)
      BY <1>3 DEF OpenSet
  <2>2. \A n : OpenOf(link', n) = OpenOf(link, n)
      BY <1>3, <2>1 DEF OpenOf, OpenSet
  <2>3. {link'[l].node : l \in OpenSet(link')} = {link[l].node : l \in OpenSet(link)}
      BY <1>3, <2>1 DEF OpenSet
  <2>4. PeersOk'
      BY <1>1, <2>1, <2>2, <2>3 DEF TransportInv, PeersOk
  <2>5. SlotsOk'
    <3>1. Cardinality(OpenSet(link)) \in Nat
        BY LinksFinite DEF OpenSet
    <3>2. Acceptors(acceptor) \in Nat /\ Acceptors(acceptor') \in Nat /\ permits \in Nat
        BY DEF Acceptors, TransportInv, TransportType
    <3>3. permits + Cardinality(OpenSet(link)) + Acceptors(acceptor) = MaxConnections
        BY DEF TransportInv, SlotsOk
    <3> QED  BY <2>1, <3>1, <3>2, <3>3 DEF SlotsOk
  <2> QED  BY <2>4, <2>5
<1>5. BodiesOk'
    BY <1>1, <1>3, BodiesSame
<1>6. HoldsOk'
    BY <1>1, <1>3, HoldsSame
<1>7. LinksOk'
  <2>1. ASSUME NEW k \in Links
        PROVE  AgeOk(link'[k]) /\ RoomOk(link'[k], link'[k].node \in Planes) /\ PollOk(link'[k], poller, handled)
      BY <1>2 DEF TransportInv, LinksOk
  <2>2. \A a, b \in Links : link'[a].poll # 0 /\ link'[a].poll = link'[b].poll /\ link'[a].node = link'[b].node => a = b
      BY <1>2 DEF TransportInv, LinksOk
  <2> QED  BY <1>1, <2>1, <2>2 DEF LinksOk
<1>8. HandledOk'
    BY <1>1 DEF TransportInv, HandledOk
<1>9. PlanesOk'
  <2>1. ASSUME NEW d \in Planes PROVE PlaneOk(d, poller[d], link')
    <3>1. PlaneOk(d, poller[d], link) /\ (poller[d].link # 0 => poller[d].link \in Links) /\ 0 \notin Links
        BY DEF TransportInv, PlanesOk, TransportType, PollerRec, Links
    <3>2. poller[d].link \in Links => Held(poller[d].link)
        BY DEF Held, Planes
    <3>3. poller[d].link # 0 => \/ link'[poller[d].link] = link[poller[d].link]
                                \/ /\ link'[poller[d].link].at = "closed" /\ link'[poller[d].link].poll = 0 /\ ~link'[poller[d].link].fin
                                   /\ link'[poller[d].link].node = link[poller[d].link].node
        BY <1>2, <3>1, <3>2
    <3>4. ASSUME NEW k \in Links, link'[k].node = d, link'[k].at # "none", poller[d].at # "vanished"
          PROVE  k = poller[d].link \/ link'[k].fin
      <4>1. CASE link'[k] = link[k]
          BY <3>1, <3>4, <4>1 DEF PlaneOk
      <4>2. CASE link'[k] # link[k]
        <5>1. Held(k) /\ link'[k].node = link[k].node
            BY <1>2, <3>4, <4>2
        <5>2. PICK e \in Planes : poller[e].link = k
            BY <5>1 DEF Held, Planes
        <5>3. link[k].node = e
            BY <5>2, LinkFacts
        <5> QED  BY <3>4, <5>1, <5>2, <5>3
      <4> QED  BY <4>1, <4>2
    <3> QED  BY <3>1, <3>3, <3>4 DEF PlaneOk
  <2> QED  BY <1>1, <2>1 DEF PlanesOk
<1>10. TransportType'
  <2>1. bodyReads' \in Nat /\ peerOpen' \in [DOMAIN peerOpen' -> Nat] /\ holder' \in [DOMAIN holder' -> Links] /\ poller' = poller
      BY <1>1 DEF TransportInv, TransportType
  <2> QED  BY <2>1, ServerTypes
<1> QED  BY <1>4, <1>5, <1>6, <1>7, <1>8, <1>9, <1>10 DEF TransportInv

\* The accept loop takes a slot and gives it back.
LEMMA AcceptorSteps ==
    ASSUME TransportInv, TakeSlot \/ AcceptFails \/ PauseOver \/ Shutdown
    PROVE  TransportInv'
<1>1. link' = link /\ UNCHANGED <<peerOpen, bodyReads, holder, poller, handled, twice>>
    BY DEF TakeSlot, AcceptFails, PauseOver, Shutdown
<1>2. link' \in [Links -> LinkRec] /\ \A k \in Links : link'[k] = link[k]
    BY <1>1 DEF TransportInv, TransportType
<1>3. quota' \in QuotaRec /\ quota'.others = quota.others
  <2>1. quota \in QuotaRec
      BY DEF TransportInv, TransportType
  <2>2. CASE UNCHANGED quota
      BY <2>1, <2>2
  <2>3. CASE Use("errors")
      BY <2>1, <2>3, UseKeeps
  <2>4. CASE Use("stops")
      BY <2>1, <2>4, UseKeeps
  <2> QED  BY <2>2, <2>3, <2>4 DEF TakeSlot, AcceptFails, PauseOver, Shutdown
<1>4. /\ acceptor' \in {"slot", "accept", "pause", "stopped"} /\ permits' \in Nat
      /\ permits' + Acceptors(acceptor') = permits + Acceptors(acceptor)
  <2>1. permits \in Nat /\ acceptor \in {"slot", "accept", "pause", "stopped"}
      BY DEF TransportInv, TransportType
  <2> QED  BY <2>1 DEF TakeSlot, AcceptFails, PauseOver, Shutdown, Acceptors
<1> QED  BY <1>1, <1>2, <1>3, <1>4, AcceptorMoves

\* The listener goes with its backlog.
LEMMA StopAcceptingStep ==
    ASSUME TransportInv, StopAccepting
    PROVE  TransportInv'
<1>1. UNCHANGED <<peerOpen, bodyReads, holder, poller, handled, twice>> /\ UNCHANGED quota
    BY DEF StopAccepting
<1>2. link' \in [Links -> LinkRec] /\ \A k \in Links : link'[k] = link[k] \/ (link[k].at = "backlog" /\ link'[k] = CutTo(k))
  <2>1. link' = [k \in Links |-> IF link[k].at = "backlog" THEN CutTo(k) ELSE link[k]]
      BY CutFacts DEF StopAccepting
  <2>2. \A k \in Links : CutTo(k) \in LinkRec /\ link[k] \in LinkRec
      BY CutFacts, LinkFacts
  <2> QED  BY <2>1, <2>2
<1>3. quota' \in QuotaRec /\ quota'.others = quota.others
    BY <1>1 DEF TransportInv, TransportType
<1>4. /\ acceptor' \in {"slot", "accept", "pause", "stopped"} /\ permits' \in Nat
      /\ permits' + Acceptors(acceptor') = permits + Acceptors(acceptor)
  <2>1. permits \in Nat /\ acceptor \in {"slot", "accept", "pause", "stopped"}
      BY DEF TransportInv, TransportType
  <2> QED  BY <2>1 DEF StopAccepting, Acceptors
<1> QED  BY <1>1, <1>2, <1>3, <1>4, AcceptorMoves

\* A connection is taken within its peer's share, or cut.
LEMMA AcceptLinkStep ==
    ASSUME TransportInv, NEW l \in Links, AcceptLink(l)
    PROVE  TransportInv'
<1> DEFINE n == link[l].node
<1>1. /\ link \in [Links -> LinkRec] /\ link[l] \in LinkRec /\ link[l].age \in Nat
      /\ AgeOk(link[l]) /\ RoomOk(link[l], n \in Planes) /\ PollOk(link[l], poller, handled)
      /\ quota \in QuotaRec /\ PeerTimeout \in Nat
    BY LinkFacts, TransportAssumption
<1>2. /\ acceptor = "accept" /\ link[l].at = "backlog" /\ acceptor' = "slot"
      /\ UNCHANGED <<bodyReads, holder, ending, poller, handled, twice, quota>>
    BY DEF AcceptLink
<1>3. quota' \in QuotaRec /\ quota'.others = quota.others /\ permits \in Nat /\ bodyReads' \in Nat /\ holder' \in [DOMAIN holder' -> Links]
    BY <1>1, <1>2 DEF TransportInv, TransportType
<1>4. CASE Counted(n) >= PeerShare
  <2>1. link' = [link EXCEPT ![l] = CutTo(l)] /\ permits' = permits + 1 /\ UNCHANGED peerOpen
      BY <1>4, CutFacts DEF AcceptLink
  <2>2. link' \in [Links -> LinkRec] /\ \A k \in Links : link'[k] = link[k] \/ (link[k].at = "backlog" /\ link'[k] = CutTo(k))
      BY <1>1, <1>2, <2>1, CutFacts
  <2>3. permits' \in Nat /\ permits' + Acceptors(acceptor') = permits + Acceptors(acceptor)
      BY <1>2, <1>3, <2>1 DEF Acceptors
  <2>4. UNCHANGED <<peerOpen, bodyReads, holder, poller, handled, twice>> /\ acceptor' \in {"slot", "accept", "pause", "stopped"}
      BY <1>2, <2>1
  <2> QED  BY <1>3, <2>2, <2>3, <2>4, AcceptorMoves
<1>5. CASE ~(Counted(n) >= PeerShare)
  <2> DEFINE c == [link[l] EXCEPT !.at = "tls", !.left = PeerTimeout]
  <2>1. /\ link' = [link EXCEPT ![l] = c] /\ UNCHANGED permits
        /\ peerOpen' = [m \in DOMAIN peerOpen \cup {n} |-> Counted(m) + (IF m = n THEN 1 ELSE 0)]
      BY <1>1, <1>5 DEF AcceptLink
  <2>2. c \in LinkRec
    <3>1. "tls" \in OpenStates \cup {"none", "backlog", "closed"} /\ PeerTimeout \in Int
        BY <1>1 DEF OpenStates
    <3> QED  BY <1>1, <3>1 DEF LinkRec
  <2>3. /\ c.at = "tls" /\ c.left = PeerTimeout /\ c.node = n /\ c.age = link[l].age /\ c.poll = link[l].poll
        /\ c.told = link[l].told /\ c.room = link[l].room /\ c.fin = link[l].fin
      BY <1>1 DEF LinkRec
  <2> HIDE DEF c
  <2>4. link' \in [Links -> LinkRec] /\ link'[l] = c /\ \A k \in Links \ {l} : link'[k] = link[k]
      BY <2>1, <2>2, LinkSet
  <2>5. Counted(n) < PeerShare
    <3>1. Counted(n) \in Nat /\ PeerShare \in Nat
        BY TransportAssumption DEF Counted, TransportInv, TransportType
    <3> QED  BY <1>5, <3>1
  <2>6. SlotsOk' /\ PeersOk' /\ peerOpen' \in [DOMAIN peerOpen' -> Nat]
    <3>1. link[l].at \notin OpenStates /\ link'[l].at \in OpenStates /\ link'[l].node = link[l].node
        BY <1>2, <2>3, <2>4 DEF OpenStates
    <3> QED  BY <1>2, <2>1, <2>4, <2>5, <3>1, SlotsOpened
  <2>7. BodiesOk'
      BY <1>2, <2>3, <2>4, BodiesSame
  <2>8. HoldsOk'
    <3>1. \A k \in Links : /\ link'[k].at = "hold" <=> link[k].at = "hold"
                           /\ link[k].at = "hold" => link'[k].node = link[k].node /\ (link'[k].left # 0 => link[k].left # 0)
        BY <1>2, <2>3, <2>4
    <3> QED  BY <1>2, <3>1, HoldsSame
  <2>9. c.poll = 0
      BY <1>1, <1>2, <2>3 DEF PollOk
  <2>10. AgeOk(c) /\ RoomOk(c, c.node \in Planes) /\ PollOk(c, poller, handled)
    <3>1. AgeOk(c)
        BY <1>1, <1>2, <2>3 DEF AgeOk, OpenStates
    <3>2. RoomOk(c, c.node \in Planes) /\ PollOk(c, poller, handled)
        BY <1>1, <1>2, <2>3, <2>9 DEF RoomOk, PollOk
    <3> QED  BY <3>1, <3>2
  <2>11. Moved(l) /\ SameEnd(l)
      BY <1>2, <2>3, <2>4 DEF Moved, SameEnd
  <2>12. StillHeld(l)
    <3>1. \A d \in Planes : poller[d].link = l => link[l].node = d /\ ~link[l].fin
        BY LinkFacts
    <3> QED  BY <2>3, <2>4, <2>9, <3>1 DEF StillHeld
  <2>13. LinksOk' /\ HandledOk' /\ PlanesOk'
      BY <2>4, <2>9, <2>10, <2>11, <2>12, LinkMoves
  <2>14. TransportType'
    <3>1. acceptor' \in {"slot", "accept", "pause", "stopped"} /\ permits' \in Nat /\ poller' = poller
        BY <1>2, <1>3, <2>1
    <3> QED  BY <1>3, <2>4, <2>6, <3>1, ServerTypes
  <2> QED  BY <2>6, <2>7, <2>8, <2>13, <2>14 DEF TransportInv
<1> QED  BY <1>4, <1>5

-----------------------------------------------------------------------------
(* The data planes. *)

\* What a data plane d may do to a connection.
Driven(d, c, b, ps) ==
    /\ c.at = "none" \/ c.node = d
    /\ b.at = "none" \/ b.node = d
    /\ b.at \in OpenStates <=> c.at \in OpenStates
    /\ b.at = "body" <=> c.at = "body"
    /\ b.at = "hold" <=> c.at = "hold"
    /\ b.left = c.left \/ b.at # "hold"
    /\ AgeOk(b) /\ RoomOk(b, b.node \in Planes) /\ PollOk(b, ps, handled)

\* No two connections of a node carry the same poll.
OnePoll(lk) == \A a, b \in Links : lk[a].poll # 0 /\ lk[a].poll = lk[b].poll /\ lk[a].node = lk[b].node => a = b

\* A data plane moves, and what it holds with it.
LEMMA PlaneMoves ==
    ASSUME TransportInv, NEW d \in Planes, NEW q \in PollerRec, poller' = [poller EXCEPT ![d] = q],
           link' \in [Links -> LinkRec], \A k \in Links : link'[k] = link[k] \/ Driven(d, link[k], link'[k], poller'),
           OnePoll(link'), UNCHANGED server, UNCHANGED <<handled, twice>>, quota' \in QuotaRec, quota'.others = quota.others,
           LastSent(poller[d]) <= LastSent(q), PlaneOk(d, q, link')
    PROVE  TransportInv'
<1>1. /\ UNCHANGED <<permits, peerOpen>> /\ acceptor' = acceptor /\ bodyReads' = bodyReads /\ holder' = holder
      /\ handled' = handled /\ twice' = twice
    BY DEF server
<1>2. poller \in [Planes -> PollerRec]
    BY DEF TransportInv, TransportType
<1>3. Planes' = Planes /\ poller' \in [Planes -> PollerRec] /\ poller'[d] = q /\ \A e \in Planes \ {d} : poller'[e] = poller[e]
    BY <1>2 DEF Planes
<1>4. \A k \in Links : /\ link'[k].at \in OpenStates <=> link[k].at \in OpenStates
                       /\ link[k].at \in OpenStates => link'[k].node = link[k].node
                       /\ link'[k].at = "hold" <=> link[k].at = "hold"
                       /\ link'[k].at = "body" <=> link[k].at = "body"
                       /\ link[k].at = "hold" => link'[k].node = link[k].node /\ (link'[k].left # 0 => link[k].left # 0)
    BY DEF Driven, OpenStates
<1>5. SlotsOk' /\ PeersOk'
    BY <1>1, <1>4, SlotsSame
<1>6. BodiesOk'
    BY <1>1, <1>4, BodiesSame
<1>7. HoldsOk'
    BY <1>1, <1>4, HoldsSame
<1>8. \A e \in Planes : LastSent(poller[e]) <= LastSent(poller'[e]) /\ LastSent(poller[e]) \in Int /\ LastSent(poller'[e]) \in Int
  <2>1. \A e \in Planes : poller[e].poll \in Nat /\ poller'[e].poll \in Nat
      BY <1>2, <1>3 DEF PollerRec
  <2>2. \A e \in Planes : LastSent(poller[e]) \in Int /\ LastSent(poller'[e]) \in Int
      BY <2>1 DEF LastSent
  <2>3. ASSUME NEW e \in Planes PROVE LastSent(poller[e]) <= LastSent(poller'[e])
      BY <1>3, <2>2
  <2> QED  BY <2>2, <2>3
<1>9. HandledOk'
  <2>1. ASSUME NEW h \in handled PROVE h[1] \in Planes /\ h[2] \in Nat /\ h[2] <= LastSent(poller'[h[1]])
    <3>1. h[1] \in Planes /\ h[2] \in Nat /\ h[2] <= LastSent(poller[h[1]])
        BY DEF TransportInv, HandledOk
    <3> QED  BY <1>8, <3>1
  <2> QED  BY <1>1, <1>3, <2>1 DEF TransportInv, HandledOk
<1>10. LinksOk'
  <2>1. ASSUME NEW k \in Links, link'[k] = link[k]
        PROVE  AgeOk(link'[k]) /\ RoomOk(link'[k], link'[k].node \in Planes) /\ PollOk(link'[k], poller', handled)
    <3>1. AgeOk(link[k]) /\ RoomOk(link[k], link[k].node \in Planes) /\ PollOk(link[k], poller, handled) /\ link[k].poll \in Nat
        BY LinkFacts
    <3>2. PollOk(link[k], poller', handled)
        BY <1>3, <1>8, <3>1 DEF PollOk, Planes
    <3> QED  BY <2>1, <3>1, <3>2
  <2>2. ASSUME NEW k \in Links, Driven(d, link[k], link'[k], poller')
        PROVE  AgeOk(link'[k]) /\ RoomOk(link'[k], link'[k].node \in Planes) /\ PollOk(link'[k], poller', handled)
      BY <2>2 DEF Driven
  <2> QED  BY <1>1, <1>3, <2>1, <2>2 DEF LinksOk, OnePoll
<1>11. PlanesOk'
  <2>1. ASSUME NEW e \in Planes, e # d PROVE PlaneOk(e, poller[e], link')
    <3>1. PlaneOk(e, poller[e], link) /\ (poller[e].link # 0 => poller[e].link \in Links)
        BY <1>2 DEF TransportInv, PlanesOk, PollerRec
    <3>2. \A k \in Links : link'[k] # link[k] => (link[k].at = "none" \/ link[k].node = d) /\ (link'[k].at = "none" \/ link'[k].node = d)
        BY DEF Driven
    <3>3. poller[e].link # 0 => link'[poller[e].link] = link[poller[e].link]
        BY <2>1, <3>1, <3>2 DEF PlaneOk
    <3>4. ASSUME NEW k \in Links, link'[k].node = e, link'[k].at # "none" PROVE link'[k] = link[k]
        BY <2>1, <3>2, <3>4
    <3> QED  BY <3>1, <3>3, <3>4 DEF PlaneOk
  <2> QED  BY <1>3, <2>1 DEF PlanesOk
<1>12. TransportType'
  <2>1. acceptor' \in {"slot", "accept", "pause", "stopped"} /\ permits' \in Nat /\ bodyReads' \in Nat
        /\ peerOpen' \in [DOMAIN peerOpen' -> Nat] /\ holder' \in [DOMAIN holder' -> Links]
      BY <1>1 DEF TransportInv, TransportType
  <2>2. Planes' \subseteq NetNode /\ Planes' \cap quota'.others = {}
      BY <1>3 DEF TransportInv, TransportType
  <2>3. poller' \in [Planes' -> PollerRec]
      BY <1>3
  <2> QED  BY <2>1, <2>2, <2>3 DEF TransportType
<1> QED  BY <1>5, <1>6, <1>7, <1>9, <1>10, <1>11, <1>12 DEF TransportInv

\* What holds of a data plane.
LEMMA PlaneFacts ==
    ASSUME TransportInv, NEW d \in Planes
    PROVE  /\ poller \in [Planes -> PollerRec] /\ poller[d] \in PollerRec /\ PlaneOk(d, poller[d], link)
           /\ poller[d].poll \in Nat /\ poller[d].left \in Nat /\ poller[d].whole \in Nat /\ poller[d].ceiling \in 0 .. HoldTime
           /\ (poller[d].link # 0 => poller[d].link \in Links) /\ 0 \notin Links
           /\ quota \in QuotaRec /\ link \in [Links -> LinkRec]
<1>1. poller \in [Planes -> PollerRec] /\ quota \in QuotaRec /\ link \in [Links -> LinkRec]
    BY DEF TransportInv, TransportType
<1>2. poller[d] \in PollerRec
    BY <1>1
<1>3. PlaneOk(d, poller[d], link)
    BY DEF TransportInv, PlanesOk
<1> QED  BY <1>1, <1>2, <1>3 DEF PollerRec, Links

\* The connection is dropped: closed by the server before, or told now.
LEMMA DropStep ==
    ASSUME TransportInv, NEW d \in Planes, NEW q \in PollerRec, poller' = [poller EXCEPT ![d] = q], link' = Hung(poller[d].link),
           UNCHANGED server, UNCHANGED <<handled, twice>>, quota' \in QuotaRec, quota'.others = quota.others,
           poller[d].at # "vanished", q.link = 0, q.at \in {"wait", "dial"}, q.at = "dial" => q.poll > 0,
           q.at = "wait" => q.left <= HoldTime, LastSent(poller[d]) <= LastSent(q)
    PROVE  TransportInv'
<1> DEFINE l == poller[d].link
<1>1. /\ poller \in [Planes -> PollerRec] /\ PlaneOk(d, poller[d], link) /\ (l # 0 => l \in Links) /\ 0 \notin Links
      /\ link \in [Links -> LinkRec] /\ poller[d].poll \in Nat
    BY PlaneFacts
<1>2. OnePoll(link)
    BY DEF TransportInv, LinksOk, OnePoll
<1>3. CASE l = 0
  <2>1. link' = link
      BY <1>3 DEF Hung
  <2>2. PlaneOk(d, q, link')
      BY <1>1, <1>3, <2>1 DEF PlaneOk
  <2>3. OnePoll(link') /\ link' \in [Links -> LinkRec] /\ \A k \in Links : link'[k] = link[k]
      BY <1>1, <1>2, <2>1
  <2> QED  BY <2>2, <2>3, PlaneMoves
<1>4. CASE l # 0
  <2> DEFINE c == IF link[l].at = "closed" THEN NoLink ELSE [link[l] EXCEPT !.fin = TRUE]
  <2>1. link' = [link EXCEPT ![l] = c] /\ l \in Links /\ link[l] \in LinkRec
      BY <1>1, <1>4 DEF Hung
  <2>2. c \in LinkRec
      BY <2>1, NoLinkFacts DEF LinkRec
  <2>3. link[l].at # "closed" =>
          /\ c.at = link[l].at /\ c.left = link[l].left /\ c.owed = link[l].owed /\ c.room = link[l].room
          /\ c.node = link[l].node /\ c.age = link[l].age /\ c.poll = link[l].poll /\ c.answer = link[l].answer
          /\ c.told = link[l].told /\ c.fin
      BY <2>1 DEF LinkRec
  <2>4. link[l].at = "closed" => c = NoLink
      OBVIOUS
  <2> HIDE DEF c
  <2>5. link' \in [Links -> LinkRec] /\ link'[l] = c /\ \A k \in Links \ {l} : link'[k] = link[k]
    <3>1. l \in Links
        BY <2>1
    <3> QED  BY <1>1, <2>1, <2>2, <3>1
  <2>6. c.poll # 0 => c.poll = link[l].poll /\ c.node = link[l].node
      BY <2>3, <2>4, NoLinkFacts
  <2>7. OnePoll(link')
      BY <1>2, <2>1, <2>5, <2>6 DEF OnePoll
  <2>8. link[l].node = d /\ link[l].at # "none"
      BY <1>1, <1>4 DEF PlaneOk
  <2>9. PollOk(c, poller', handled)
    <3>1. PollOk(link[l], poller, handled) /\ link[l].poll \in Nat
        BY <2>1, LinkFacts
    <3>2. DOMAIN poller' = DOMAIN poller /\ poller'[d] = q
        BY <1>1 DEF Planes
    <3>3. LastSent(poller[d]) \in Int /\ LastSent(q) \in Int
        BY <1>1 DEF LastSent, PollerRec
    <3>4. CASE link[l].at # "closed"
        BY <2>3, <2>8, <3>1, <3>2, <3>3, <3>4 DEF PollOk
    <3>5. CASE link[l].at = "closed"
        BY <2>4, <3>5, NoLinkFacts DEF PollOk
    <3> QED  BY <3>4, <3>5
  <2>10. Driven(d, link[l], c, poller')
    <3>1. AgeOk(link[l]) /\ RoomOk(link[l], link[l].node \in Planes)
        BY <2>1, LinkFacts
    <3>2. CASE link[l].at # "closed"
      <4>1. AgeOk(c)
          BY <2>3, <3>1, <3>2 DEF AgeOk
      <4>2. RoomOk(c, c.node \in Planes)
          BY <2>3, <2>8, <3>1, <3>2 DEF RoomOk
      <4> QED  BY <2>3, <2>8, <2>9, <3>2, <4>1, <4>2 DEF Driven
    <3>3. CASE link[l].at = "closed"
      <4>1. NoLink.at = "none" /\ NoLink.told = "none"
          BY DEF NoLink
      <4>2. RoomOk(c, c.node \in Planes)
          BY <2>4, <3>3, <4>1 DEF RoomOk
      <4> QED  BY <2>4, <2>8, <2>9, <3>3, <4>1, <4>2, NoLinkFacts DEF Driven, OpenStates
    <3> QED  BY <3>2, <3>3
  <2>11. PlaneOk(d, q, link')
    <3>1. c.at = "none" \/ c.fin
        BY <2>3, <2>4, NoLinkFacts
    <3>2. \A k \in Links : link'[k].node = d /\ link'[k].at # "none" => link'[k].fin
        BY <1>1, <2>5, <3>1 DEF PlaneOk
    <3> QED  BY <3>2 DEF PlaneOk
  <2>12. \A k \in Links : link'[k] = link[k] \/ Driven(d, link[k], link'[k], poller')
      BY <2>5, <2>10
  <2> QED  BY <2>5, <2>7, <2>11, <2>12, PlaneMoves
<1> QED  BY <1>3, <1>4

\* A backoff stays within the hold.
LEMMA BacksOffFacts ==
    ASSUME NEW p \in PollerRec, NEW after \in Nat, NEW q \in BacksOff(p, after)
    PROVE  q \in PollerRec /\ q.at = "wait" /\ q.link = 0 /\ q.left <= HoldTime /\ q.poll = p.poll
<1>1. HoldTime \in Nat /\ p.ceiling \in 0 .. HoldTime
    BY TransportAssumption DEF PollerRec
<1>2. PICK j \in 0 .. p.ceiling :
          q = [p EXCEPT !.at = "wait", !.link = 0, !.left = WaitAtLeast(j, after), !.whole = 0, !.ceiling = NextCeiling(p.ceiling)]
    BY DEF BacksOff
<1>3. WaitAtLeast(j, after) \in Nat /\ WaitAtLeast(j, after) <= HoldTime
    BY <1>1 DEF WaitAtLeast
<1>4. NextCeiling(p.ceiling) \in 0 .. HoldTime
    BY <1>1 DEF NextCeiling
<1> QED  BY <1>1, <1>2, <1>3, <1>4 DEF PollerRec

\* A poll that is over was sent or never will be.
LEMMA AtRestOrNot ==
    ASSUME NEW p \in PollerRec, NEW q \in PollerRec, q.at = "wait", q.poll = p.poll
    PROVE  LastSent(p) <= LastSent(q)
BY DEF LastSent, PollerRec

\* A poll that failed drops its connection.
LEMMA PollFailsStep ==
    ASSUME TransportInv, NEW d \in Planes, PollFails(d)
    PROVE  TransportInv'
<1>1. poller[d] \in PollerRec /\ quota \in QuotaRec
    BY PlaneFacts
<1>2. poller[d].at # "vanished" /\ link' = Hung(poller[d].link) /\ UNCHANGED server /\ UNCHANGED <<handled, twice>> /\ quota' = quota
    BY DEF PollFails
<1>3. PICK q \in BacksOff(poller[d], 0) : poller' = [poller EXCEPT ![d] = q]
    BY DEF PollFails
<1>4. q \in PollerRec /\ q.at = "wait" /\ q.link = 0 /\ q.left <= HoldTime /\ q.poll = poller[d].poll
    BY <1>1, <1>3, BacksOffFacts
<1>5. LastSent(poller[d]) <= LastSent(q)
    BY <1>1, <1>4, AtRestOrNot
<1> QED  BY <1>1, <1>2, <1>3, <1>4, <1>5, DropStep

\* A poll that is abandoned drops its connection.
LEMMA AbandonStep ==
    ASSUME TransportInv, NEW d \in Planes, Abandon(d)
    PROVE  TransportInv'
<1> DEFINE q == [poller[d] EXCEPT !.at = "wait", !.link = 0, !.left = 0, !.whole = 0]
<1>1. poller[d] \in PollerRec /\ quota \in QuotaRec /\ HoldTime \in Nat
    BY PlaneFacts, TransportAssumption
<1>2. /\ poller[d].at # "vanished" /\ link' = Hung(poller[d].link) /\ UNCHANGED server /\ UNCHANGED <<handled, twice>>
      /\ poller' = [poller EXCEPT ![d] = q] /\ Use("moves")
    BY DEF Abandon, Dropped
<1>3. q \in PollerRec /\ q.at = "wait" /\ q.link = 0 /\ q.left <= HoldTime /\ q.poll = poller[d].poll
  <2>1. q.at = "wait" /\ q.link = 0 /\ q.left = 0 /\ q.poll = poller[d].poll
      BY <1>1 DEF PollerRec
  <2>2. q \in PollerRec
      BY <1>1 DEF PollerRec
  <2> QED  BY <1>1, <2>1, <2>2
<1> HIDE DEF q
<1>4. LastSent(poller[d]) <= LastSent(q)
    BY <1>1, <1>3, AtRestOrNot
<1>5. quota' \in QuotaRec /\ quota'.others = quota.others
    BY <1>1, <1>2, UseKeeps
<1> QED  BY <1>2, <1>3, <1>4, <1>5, DropStep

\* A node that dies leaves its connection to the server's timers.
LEMMA VanishStep ==
    ASSUME TransportInv, NEW d \in Planes, Vanish(d)
    PROVE  TransportInv'
<1> DEFINE l == poller[d].link
           q == [poller[d] EXCEPT !.at = "vanished", !.link = 0]
<1>1. /\ poller \in [Planes -> PollerRec] /\ PlaneOk(d, poller[d], link) /\ (l # 0 => l \in Links)
      /\ link \in [Links -> LinkRec] /\ poller[d].poll \in Nat /\ poller[d] \in PollerRec /\ quota \in QuotaRec
    BY PlaneFacts
<1>2. /\ poller[d].at = "sent" /\ poller' = [poller EXCEPT ![d] = q] /\ Use("vanishes")
      /\ link' = (IF link[l].at = "closed" THEN [link EXCEPT ![l] = NoLink] ELSE link)
      /\ UNCHANGED server /\ UNCHANGED <<handled, twice>>
    BY <1>1 DEF Vanish
<1>3. q \in PollerRec
    BY <1>1 DEF PollerRec
<1>4. q.at = "vanished" /\ q.link = 0 /\ q.poll = poller[d].poll
    BY <1>1 DEF PollerRec
<1> HIDE DEF q
<1>5. quota' \in QuotaRec /\ quota'.others = quota.others
    BY <1>1, <1>2, UseKeeps
<1>6. l \in Links /\ link[l].node = d
    BY <1>1, <1>2 DEF PlaneOk
<1>7. PlaneOk(d, q, link')
    BY <1>4 DEF PlaneOk
<1>8. LastSent(poller[d]) <= LastSent(q)
    BY <1>1, <1>2, <1>4 DEF LastSent
<1>9. link' \in [Links -> LinkRec] /\ \A k \in Links : link'[k] = link[k] \/ (k = l /\ link[k].at = "closed" /\ link'[k] = NoLink)
    BY <1>1, <1>2, <1>6, NoLinkFacts
<1>10. OnePoll(link')
  <2>1. OnePoll(link)
      BY DEF TransportInv, LinksOk, OnePoll
  <2> QED  BY <1>9, <2>1, NoLinkFacts DEF OnePoll
<1>11. link[l].at = "closed" => Driven(d, link[l], NoLink, poller')
  <2>1. NoLink.at = "none" /\ NoLink.told = "none"
      BY DEF NoLink
  <2>2. RoomOk(NoLink, NoLink.node \in Planes) /\ PollOk(NoLink, poller', handled)
      BY <2>1, NoLinkFacts DEF RoomOk, PollOk
  <2> QED  BY <1>6, <2>1, <2>2, NoLinkFacts DEF Driven, OpenStates
<1>12. \A k \in Links : link'[k] = link[k] \/ Driven(d, link[k], link'[k], poller')
    BY <1>9, <1>11
<1> QED  BY <1>2, <1>3, <1>5, <1>7, <1>8, <1>9, <1>10, <1>12, PlaneMoves

\* A poll is written on a connection that waits for one.
LEMMA SendStep ==
    ASSUME TransportInv, NEW d \in Planes, NEW q \in PollerRec, poller' = [poller EXCEPT ![d] = q],
           q.link = poller[d].link, q.link # 0, q.at = "sent", poller[d].at \in {"wait", "connecting"},
           link[q.link].at = "head", link' = [link EXCEPT ![q.link].poll = q.poll], LastSent(poller[d]) < q.poll,
           UNCHANGED server, UNCHANGED <<handled, twice>>, quota' \in QuotaRec, quota'.others = quota.others
    PROVE  TransportInv'
<1> DEFINE l == q.link
           c == [link[l] EXCEPT !.poll = q.poll]
<1>1. /\ poller \in [Planes -> PollerRec] /\ PlaneOk(d, poller[d], link) /\ l \in Links
      /\ link \in [Links -> LinkRec] /\ link[l] \in LinkRec /\ poller[d].poll \in Nat /\ q.poll \in Nat
    BY PlaneFacts DEF PollerRec
<1>2. link' = [link EXCEPT ![l] = c] /\ c \in LinkRec
    BY <1>1 DEF LinkRec
<1>3. /\ c.at = link[l].at /\ c.left = link[l].left /\ c.owed = link[l].owed /\ c.room = link[l].room
      /\ c.node = link[l].node /\ c.age = link[l].age /\ c.poll = q.poll /\ c.answer = link[l].answer
      /\ c.told = link[l].told /\ c.fin = link[l].fin
    BY <1>1 DEF LinkRec
<1>4. /\ link[l].node = d /\ ~link[l].fin /\ link[l].at = "head" /\ link[l].told = "none" /\ link[l].poll = 0
      /\ \A k \in Links : link[k].node = d /\ link[k].at # "none" => k = l \/ link[k].fin
    BY <1>1 DEF PlaneOk
<1> HIDE DEF c
<1>5. link' \in [Links -> LinkRec] /\ link'[l] = c /\ \A k \in Links \ {l} : link'[k] = link[k]
    BY <1>1, <1>2
<1>6. LastSent(poller[d]) \in Int /\ LastSent(q) = q.poll /\ LastSent(poller[d]) <= LastSent(q)
    BY <1>1 DEF LastSent
<1>7. PlaneOk(d, q, link')
  <2>1. \A k \in Links : link'[k].node = d /\ link'[k].at # "none" => k = l \/ link'[k].fin
      BY <1>4, <1>5
  <2> QED  BY <1>3, <1>4, <1>5, <2>1 DEF PlaneOk
<1>8. OnePoll(link')
  <2>1. OnePoll(link)
      BY DEF TransportInv, LinksOk, OnePoll
  <2>2. ASSUME NEW k \in Links, k # l, link[k].node = d PROVE link[k].poll # q.poll
    <3>1. PollOk(link[k], poller, handled) /\ link[k].poll \in Nat
        BY LinkFacts
    <3>2. CASE link[k].poll # 0
        BY <1>1, <1>6, <2>2, <3>1, <3>2 DEF PollOk
    <3>3. CASE link[k].poll = 0
      <4>1. q.poll # 0
          BY <1>1, <1>6, TransportAssumption DEF LastSent, PlaneOk
      <4> QED  BY <3>3, <4>1
    <3> QED  BY <3>2, <3>3
  <2> QED  BY <1>3, <1>4, <1>5, <2>1, <2>2 DEF OnePoll
<1>9. Driven(d, link[l], c, poller')
  <2>1. AgeOk(link[l]) /\ RoomOk(link[l], link[l].node \in Planes)
      BY <1>1, LinkFacts
  <2>2. AgeOk(c)
      BY <1>3, <2>1 DEF AgeOk
  <2>3. RoomOk(c, c.node \in Planes)
      BY <1>3, <1>4, <2>1 DEF RoomOk
  <2>4. PollOk(c, poller', handled)
    <3>1. DOMAIN poller' = DOMAIN poller /\ poller'[d] = q /\ d \in DOMAIN poller
        BY <1>1 DEF Planes
    <3>2. <<d, q.poll>> \notin handled
      <4>1. <<d, q.poll>> \in handled => q.poll <= LastSent(poller[d])
        <5>1. <<d, q.poll>>[1] = d /\ <<d, q.poll>>[2] = q.poll
            OBVIOUS
        <5> QED  BY <5>1 DEF TransportInv, HandledOk
      <4> QED  BY <1>1, <1>6, <4>1
    <3> QED  BY <1>1, <1>3, <1>4, <1>6, <3>1, <3>2 DEF PollOk
  <2> QED  BY <1>3, <1>4, <2>2, <2>3, <2>4 DEF Driven
<1>10. \A k \in Links : link'[k] = link[k] \/ Driven(d, link[k], link'[k], poller')
    BY <1>5, <1>9
<1> QED  BY <1>5, <1>6, <1>7, <1>8, <1>10, PlaneMoves

\* A poll goes out on the kept connection, or a new one is dialled.
LEMMA PollBeginsStep ==
    ASSUME TransportInv, NEW d \in Planes, PollBegins(d)
    PROVE  TransportInv'
<1> DEFINE p == [poller[d] EXCEPT !.poll = poller[d].poll + 1, !.whole = RequestTimeout, !.left = ConnectTimeout]
           l == poller[d].link
<1>1. poller[d] \in PollerRec /\ poller[d].poll \in Nat /\ quota \in QuotaRec /\ RequestTimeout \in Nat /\ ConnectTimeout \in Nat
    BY PlaneFacts, TransportAssumption DEF RequestTimeout
<1>2. p \in PollerRec
  <2>1. poller[d].poll + 1 \in Nat
      BY <1>1
  <2> QED  BY <1>1, <2>1 DEF PollerRec
<1>3. p.at = poller[d].at /\ p.link = l /\ p.poll = poller[d].poll + 1
    BY <1>1 DEF PollerRec
<1>4. p.at = "wait" /\ Use("polls") /\ UNCHANGED server /\ UNCHANGED <<handled, twice>>
    BY DEF PollBegins
<1>5. \/ /\ l # 0 /\ link[l].at = "head"
         /\ link' = [link EXCEPT ![l].poll = p.poll]
         /\ poller' = [poller EXCEPT ![d] = [p EXCEPT !.at = "sent"]]
      \/ /\ link' = Hung(l)
         /\ poller' = [poller EXCEPT ![d] = [p EXCEPT !.at = "dial", !.link = 0]]
      \/ /\ link' = Hung(l)
         /\ \E q \in BacksOff(p, 0) : poller' = [poller EXCEPT ![d] = q]
    BY <1>3 DEF PollBegins
<1> HIDE DEF p
<1>6. quota' \in QuotaRec /\ quota'.others = quota.others
    BY <1>1, <1>4, UseKeeps
<1>7. LastSent(poller[d]) = poller[d].poll /\ LastSent(poller[d]) < p.poll
    BY <1>1, <1>3, <1>4 DEF LastSent
<1>8. CASE /\ l # 0 /\ link[l].at = "head"
           /\ link' = [link EXCEPT ![l].poll = p.poll]
           /\ poller' = [poller EXCEPT ![d] = [p EXCEPT !.at = "sent"]]
  <2> DEFINE q == [p EXCEPT !.at = "sent"]
  <2>1. q \in PollerRec /\ q.at = "sent" /\ q.link = l /\ q.poll = p.poll
      BY <1>2, <1>3 DEF PollerRec
  <2>2. poller[d].at \in {"wait", "connecting"}
      BY <1>3, <1>4
  <2>3. poller' = [poller EXCEPT ![d] = q]
      BY <1>8
  <2> HIDE DEF q
  <2>4. q.link # 0 /\ link[q.link].at = "head" /\ link' = [link EXCEPT ![q.link].poll = q.poll] /\ LastSent(poller[d]) < q.poll
      BY <1>7, <1>8, <2>1
  <2> HIDE DEF l
  <2> QED  BY <1>4, <1>6, <2>1, <2>2, <2>3, <2>4, SendStep DEF l
<1>9. CASE link' = Hung(l) /\ poller' = [poller EXCEPT ![d] = [p EXCEPT !.at = "dial", !.link = 0]]
  <2> DEFINE q == [p EXCEPT !.at = "dial", !.link = 0]
  <2>1. q \in PollerRec
      BY <1>2 DEF PollerRec
  <2>2. q.at = "dial" /\ q.link = 0 /\ q.poll = p.poll
      BY <1>2 DEF PollerRec
  <2>3. poller' = [poller EXCEPT ![d] = q]
      BY <1>9
  <2> HIDE DEF q
  <2>4. q.poll > 0 /\ LastSent(poller[d]) <= LastSent(q)
      BY <1>1, <1>3, <1>7, <2>2 DEF LastSent
  <2>5. poller[d].at # "vanished" /\ q.at \in {"wait", "dial"}
      BY <1>3, <1>4, <2>2
  <2> QED  BY <1>4, <1>6, <1>9, <2>1, <2>2, <2>3, <2>4, <2>5, DropStep
<1>10. CASE link' = Hung(l) /\ \E q \in BacksOff(p, 0) : poller' = [poller EXCEPT ![d] = q]
  <2>1. PICK q \in BacksOff(p, 0) : poller' = [poller EXCEPT ![d] = q]
      BY <1>10
  <2>2. q \in PollerRec /\ q.at = "wait" /\ q.link = 0 /\ q.left <= HoldTime /\ q.poll = p.poll
      BY <1>2, <2>1, BacksOffFacts
  <2>3. LastSent(poller[d]) <= LastSent(q)
      BY <1>1, <1>3, <1>7, <2>2 DEF LastSent
  <2>4. poller[d].at # "vanished" /\ q.at \in {"wait", "dial"}
      BY <1>3, <1>4, <2>2
  <2> QED  BY <1>4, <1>6, <1>10, <2>1, <2>2, <2>3, <2>4, DropStep
<1> QED  BY <1>5, <1>8, <1>9, <1>10

\* The poll is written through the new connection.
LEMMA ConnectedStep ==
    ASSUME TransportInv, NEW d \in Planes, Connected(d)
    PROVE  TransportInv'
<1> DEFINE q == [poller[d] EXCEPT !.at = "sent"]
<1>1. /\ poller[d] \in PollerRec /\ poller[d].poll \in Nat /\ quota \in QuotaRec /\ PlaneOk(d, poller[d], link)
      /\ poller \in [Planes -> PollerRec]
    BY PlaneFacts
<1>2. q \in PollerRec /\ q.at = "sent" /\ q.link = poller[d].link /\ q.poll = poller[d].poll
    BY <1>1 DEF PollerRec
<1>3. /\ poller[d].at = "connecting" /\ link[poller[d].link].at = "head" /\ poller' = [poller EXCEPT ![d] = q]
      /\ link' = [link EXCEPT ![poller[d].link].poll = poller[d].poll]
      /\ UNCHANGED server /\ UNCHANGED <<handled, twice>> /\ quota' = quota
    BY <1>1 DEF Connected
<1> HIDE DEF q
<1>4. poller[d].link # 0 /\ LastSent(poller[d]) < q.poll /\ poller[d].at \in {"wait", "connecting"}
    BY <1>1, <1>2, <1>3 DEF PlaneOk, LastSent
<1> QED  BY <1>1, <1>2, <1>3, <1>4, SendStep

\* A fresh connection takes the first free link.
LEMMA FreshFacts ==
    ASSUME NEW n \in NetNode
    PROVE  LET c == [NoLink EXCEPT !.at = "backlog", !.node = n]
           IN  /\ c \in LinkRec /\ c.at = "backlog" /\ c.node = n /\ c.poll = 0 /\ ~c.fin /\ c.left = 0
               /\ AgeOk(c) /\ c.room = SocketRoom /\ c.told = "none"
<1> DEFINE c == [NoLink EXCEPT !.at = "backlog", !.node = n]
<1>1. /\ c.at = "backlog" /\ c.node = n /\ c.poll = 0 /\ ~c.fin /\ c.left = 0 /\ c.age = 0
      /\ c.room = SocketRoom /\ c.told = "none"
    BY DEF NoLink
<1>2. c \in LinkRec
    BY NoLinkFacts DEF LinkRec, OpenStates
<1> HIDE DEF c
<1>3. AgeOk(c)
    BY <1>1 DEF AgeOk, OpenStates
<1> QED  BY <1>1, <1>2, <1>3 DEF c

\* The data plane that dials has no other connection.
LEMMA DialStep ==
    ASSUME TransportInv, NEW d \in Planes, Dial(d)
    PROVE  TransportInv'
<1>1. /\ poller[d] \in PollerRec /\ poller[d].poll \in Nat /\ quota \in QuotaRec /\ PlaneOk(d, poller[d], link)
      /\ poller \in [Planes -> PollerRec] /\ link \in [Links -> LinkRec] /\ 0 \notin Links
    BY PlaneFacts
<1>2. poller[d].at = "dial" /\ UNCHANGED server /\ UNCHANGED <<handled, twice>> /\ quota' = quota
    BY DEF Dial
<1>3. poller[d].link = 0 /\ poller[d].poll > 0
    BY <1>1, <1>2 DEF PlaneOk
<1>4. CASE acceptor = "stopped"
  <2>1. PICK q \in BacksOff(poller[d], 0) : poller' = [poller EXCEPT ![d] = q]
      BY <1>4 DEF Dial
  <2>2. link' = Hung(poller[d].link)
      BY <1>3, <1>4 DEF Dial, Hung
  <2>3. q \in PollerRec /\ q.at = "wait" /\ q.link = 0 /\ q.left <= HoldTime /\ q.poll = poller[d].poll
      BY <1>1, <2>1, BacksOffFacts
  <2>4. LastSent(poller[d]) <= LastSent(q)
      BY <1>1, <2>3, AtRestOrNot
  <2> QED  BY <1>1, <1>2, <2>1, <2>2, <2>3, <2>4, DropStep
<1>5. CASE acceptor # "stopped"
  <2>1. PICK l \in Links : /\ FreeLink(l) /\ link' = [link EXCEPT ![l] = [NoLink EXCEPT !.at = "backlog", !.node = d]]
                           /\ poller' = [poller EXCEPT ![d].at = "connecting", ![d].link = l]
      BY <1>5 DEF Dial
  <2> DEFINE q == [poller[d] EXCEPT !.at = "connecting", !.link = l]
             c == [NoLink EXCEPT !.at = "backlog", !.node = d]
  <2>2. q \in PollerRec
      BY <1>1 DEF PollerRec
  <2>3. q.at = "connecting" /\ q.link = l /\ q.poll = poller[d].poll
      BY <1>1 DEF PollerRec
  <2>4. poller' = [poller EXCEPT ![d] = q] /\ link' = [link EXCEPT ![l] = c]
      BY <1>1, <2>1
  <2>5. d \in NetNode
      BY DEF TransportInv, TransportType
  <2>6. /\ c \in LinkRec /\ c.at = "backlog" /\ c.node = d /\ c.poll = 0 /\ ~c.fin
        /\ AgeOk(c) /\ c.room = SocketRoom /\ c.told = "none"
      BY <2>5, FreshFacts
  <2> HIDE DEF q, c
  <2>7. link' \in [Links -> LinkRec] /\ link'[l] = c /\ \A k \in Links \ {l} : link'[k] = link[k]
      BY <2>4, <2>6, LinkSet
  <2>8. OnePoll(link')
    <3>1. OnePoll(link)
        BY DEF TransportInv, LinksOk, OnePoll
    <3> QED  BY <2>6, <2>7, <3>1 DEF OnePoll
  <2>9. LastSent(poller[d]) <= LastSent(q)
      BY <1>1, <1>2, <2>3 DEF LastSent
  <2>10. PlaneOk(d, q, link')
    <3>1. \A k \in Links : link'[k].node = d /\ link'[k].at # "none" => k = l \/ link'[k].fin
        BY <1>1, <1>2, <1>3, <2>7 DEF PlaneOk
    <3> QED  BY <1>1, <1>3, <2>3, <2>6, <2>7, <3>1 DEF PlaneOk
  <2>11. Driven(d, link[l], c, poller')
    <3>1. link[l].at = "none"
        BY <2>1 DEF FreeLink
    <3>2. PollOk(c, poller', handled) /\ RoomOk(c, c.node \in Planes)
        BY <2>6 DEF PollOk, RoomOk
    <3> QED  BY <2>6, <3>1, <3>2 DEF Driven, OpenStates
  <2>12. \A k \in Links : link'[k] = link[k] \/ Driven(d, link[k], link'[k], poller')
      BY <2>7, <2>11
  <2> QED  BY <1>1, <1>2, <2>2, <2>4, <2>7, <2>8, <2>9, <2>10, <2>12, PlaneMoves
<1> QED  BY <1>4, <1>5

\* The answer was taken, and the connection kept.
LEMMA KeepStep ==
    ASSUME TransportInv, NEW d \in Planes, NEW q \in PollerRec, poller' = [poller EXCEPT ![d] = q],
           poller[d].at = "sent", q.at = "wait", q.link = poller[d].link, q.left <= HoldTime, q.poll = poller[d].poll,
           link[q.link].told # "none", link[q.link].room = SocketRoom, link' = [link EXCEPT ![q.link].told = "none"],
           UNCHANGED server, UNCHANGED <<handled, twice>>, quota' \in QuotaRec, quota'.others = quota.others
    PROVE  TransportInv'
<1> DEFINE l == q.link
           c == [link[l] EXCEPT !.told = "none"]
<1>1. /\ poller \in [Planes -> PollerRec] /\ PlaneOk(d, poller[d], link) /\ poller[d].poll \in Nat /\ poller[d] \in PollerRec
      /\ link \in [Links -> LinkRec] /\ (poller[d].link # 0 => poller[d].link \in Links)
    BY PlaneFacts
<1>2. l \in Links /\ link[l].node = d /\ ~link[l].fin
    BY <1>1 DEF PlaneOk
<1>3. /\ AgeOk(link[l]) /\ RoomOk(link[l], link[l].node \in Planes) /\ PollOk(link[l], poller, handled) /\ link[l] \in LinkRec
    BY <1>2, LinkFacts
<1>4. link[l].at \in {"head", "closed"} /\ link[l].poll = 0
    BY <1>3 DEF RoomOk, PollOk
<1>5. c \in LinkRec
  <2>1. "none" \in Answers
      BY DEF Answers
  <2> QED  BY <1>3, <2>1 DEF LinkRec
<1>6. link' = [link EXCEPT ![l] = c]
    BY <1>1, <1>2
<1>7. /\ c.at = link[l].at /\ c.left = link[l].left /\ c.owed = link[l].owed /\ c.room = link[l].room
      /\ c.node = link[l].node /\ c.age = link[l].age /\ c.poll = link[l].poll /\ c.answer = link[l].answer
      /\ c.told = "none" /\ c.fin = link[l].fin
    BY <1>3 DEF LinkRec
<1> HIDE DEF c
<1>8. link' \in [Links -> LinkRec] /\ link'[l] = c /\ \A k \in Links \ {l} : link'[k] = link[k]
    BY <1>2, <1>5, <1>6, LinkSet
<1>9. OnePoll(link')
  <2>1. OnePoll(link)
      BY DEF TransportInv, LinksOk, OnePoll
  <2> QED  BY <1>4, <1>7, <1>8, <2>1 DEF OnePoll
<1>10. LastSent(poller[d]) <= LastSent(q)
    BY <1>1, AtRestOrNot
<1>11. PlaneOk(d, q, link')
  <2>1. \A k \in Links : link'[k].node = d /\ link'[k].at # "none" => k = l \/ link'[k].fin
      BY <1>1, <1>8 DEF PlaneOk
  <2>2. link'[l].node = d /\ ~link'[l].fin /\ link'[l].at \in {"head", "closed"} /\ link'[l].poll = 0 /\ link'[l].told = "none"
      BY <1>2, <1>4, <1>7, <1>8
  <2> QED  BY <2>1, <2>2 DEF PlaneOk
<1>12. Driven(d, link[l], c, poller')
  <2>1. AgeOk(c)
      BY <1>3, <1>7 DEF AgeOk
  <2>2. RoomOk(c, c.node \in Planes)
      BY <1>3, <1>4, <1>7 DEF RoomOk
  <2>3. PollOk(c, poller', handled)
      BY <1>4, <1>7 DEF PollOk
  <2> QED  BY <1>2, <1>7, <2>1, <2>2, <2>3 DEF Driven
<1>13. \A k \in Links : link'[k] = link[k] \/ Driven(d, link[k], link'[k], poller')
    BY <1>8, <1>12
<1> QED  BY <1>8, <1>9, <1>10, <1>11, <1>13, PlaneMoves

\* The answer keeps the connection or drops it.
LEMMA TakeAnswerStep ==
    ASSUME TransportInv, NEW d \in Planes, TakeAnswer(d)
    PROVE  TransportInv'
<1> DEFINE p == poller[d]
           l == p.link
           a == link[l].told
<1>1. /\ p \in PollerRec /\ quota \in QuotaRec /\ HoldTime \in Nat /\ HoldTime + 1 \in Nat
      /\ FirstBackoff \in 0 .. HoldTime /\ StandbyRetry \in 0 .. HoldTime
    BY PlaneFacts, TransportAssumption
<1>2. /\ p.at = "sent" /\ a # "none" /\ link[l].room = SocketRoom /\ p.at # "vanished"
      /\ UNCHANGED server /\ UNCHANGED <<handled, twice>> /\ quota' \in QuotaRec /\ quota'.others = quota.others
    BY <1>1 DEF TakeAnswer
<1>3. ASSUME NEW q \in PollerRec, q.at = "wait", q.link = l, q.left <= HoldTime, q.poll = p.poll,
             poller' = [poller EXCEPT ![d] = q], link' = [link EXCEPT ![l].told = "none"]
      PROVE  TransportInv'
  <2>1. link[q.link].told # "none" /\ link[q.link].room = SocketRoom /\ link' = [link EXCEPT ![q.link].told = "none"]
      BY <1>2, <1>3
  <2> QED  BY <1>2, <1>3, <2>1, KeepStep
<1>4. ASSUME NEW q \in PollerRec, q.at = "wait", q.link = 0, q.left <= HoldTime, q.poll = p.poll,
             poller' = [poller EXCEPT ![d] = q], link' = Hung(l)
      PROVE  TransportInv'
  <2>1. LastSent(p) <= LastSent(q) /\ q.at \in {"wait", "dial"}
      BY <1>1, <1>4, AtRestOrNot
  <2> QED  BY <1>2, <1>4, <2>1, DropStep
<1>5. CASE a \in {"snapshot", "unchanged"}
  <2> DEFINE q == [p EXCEPT !.at = "wait", !.left = 0, !.whole = 0, !.ceiling = FirstBackoff]
  <2>1. poller' = [poller EXCEPT ![d] = q] /\ link' = [link EXCEPT ![l].told = "none"]
      BY <1>5 DEF TakeAnswer
  <2>2. q \in PollerRec
      BY <1>1 DEF PollerRec
  <2>3. q.at = "wait" /\ q.link = l /\ q.left = 0 /\ q.poll = p.poll
      BY <1>1 DEF PollerRec
  <2> HIDE DEF q, p
  <2>4. q.left <= HoldTime
      BY <1>1, <2>3
  <2> QED  BY <1>3, <2>1, <2>2, <2>3, <2>4
<1>6. CASE a = "gone"
  <2>1. PICK b \in BacksOff(p, 0) : poller' = [poller EXCEPT ![d] = [b EXCEPT !.link = l]] /\ link' = [link EXCEPT ![l].told = "none"]
      BY <1>6 DEF TakeAnswer
  <2> DEFINE q == [b EXCEPT !.link = l]
  <2>2. b \in PollerRec /\ b.at = "wait" /\ b.left <= HoldTime /\ b.poll = p.poll
      BY <1>1, <2>1, BacksOffFacts
  <2>3. q \in PollerRec
      BY <1>1, <2>2 DEF PollerRec
  <2>4. q.at = "wait" /\ q.link = l /\ q.left <= HoldTime /\ q.poll = p.poll
      BY <2>2 DEF PollerRec
  <2>5. poller' = [poller EXCEPT ![d] = q]
      BY <2>1
  <2> HIDE DEF q, p
  <2> QED  BY <1>3, <2>1, <2>3, <2>4, <2>5
<1>7. CASE a = "standby"
  <2>1. PICK w \in 0 .. StandbyRetry :
            poller' = [poller EXCEPT ![d] = [p EXCEPT !.at = "wait", !.link = 0, !.left = w, !.whole = 0]] /\ link' = Hung(l)
      BY <1>7 DEF TakeAnswer
  <2> DEFINE q == [p EXCEPT !.at = "wait", !.link = 0, !.left = w, !.whole = 0]
  <2>2. w \in Nat /\ w <= HoldTime
      BY <1>1
  <2>3. q \in PollerRec
      BY <1>1, <2>2 DEF PollerRec
  <2>4. q.at = "wait" /\ q.link = 0 /\ q.left = w /\ q.poll = p.poll
      BY <1>1 DEF PollerRec
  <2>5. poller' = [poller EXCEPT ![d] = q]
      BY <2>1
  <2> HIDE DEF q, p
  <2> QED  BY <1>4, <2>1, <2>2, <2>3, <2>4, <2>5
<1>8. CASE a = "refused"
  <2>1. PICK after \in {0, 1, HoldTime + 1} : \E q \in BacksOff(p, after) : poller' = [poller EXCEPT ![d] = q]
      BY <1>8 DEF TakeAnswer
  <2>2. PICK q \in BacksOff(p, after) : poller' = [poller EXCEPT ![d] = q]
      BY <2>1
  <2>3. link' = Hung(l) /\ after \in Nat
      BY <1>1, <1>8 DEF TakeAnswer
  <2>4. q \in PollerRec /\ q.at = "wait" /\ q.link = 0 /\ q.left <= HoldTime /\ q.poll = p.poll
      BY <1>1, <2>2, <2>3, BacksOffFacts
  <2> QED  BY <1>4, <2>2, <2>3, <2>4
<1>9. a \in {"snapshot", "unchanged", "gone", "standby", "refused"}
    BY DEF TakeAnswer
<1> QED  BY <1>5, <1>6, <1>7, <1>8, <1>9

\* Another node takes a free connection.
LEMMA StrangerDialsStep ==
    ASSUME TransportInv, NEW n \in quota.others, StrangerDials(n)
    PROVE  TransportInv'
<1>1. quota \in QuotaRec /\ link \in [Links -> LinkRec] /\ n \in NetNode /\ n \notin Planes
    BY DEF TransportInv, TransportType, QuotaRec
<1>2. /\ Use("dials") /\ UNCHANGED <<poller, handled, twice>>
      /\ UNCHANGED <<acceptor, permits, peerOpen, bodyReads, holder>>
    BY DEF StrangerDials, server
<1>3. PICK l \in Links : FreeLink(l) /\ link' = [link EXCEPT ![l] = [NoLink EXCEPT !.at = "backlog", !.node = n]]
    BY DEF StrangerDials
<1> DEFINE c == [NoLink EXCEPT !.at = "backlog", !.node = n]
<1>4. link[l].at = "none"
    BY <1>3 DEF FreeLink
<1>5. /\ c \in LinkRec /\ c.at = "backlog" /\ c.node = n /\ c.poll = 0 /\ ~c.fin
      /\ AgeOk(c) /\ c.room = SocketRoom /\ c.told = "none"
    BY <1>1, FreshFacts
<1>6. link' = [link EXCEPT ![l] = c]
    BY <1>3
<1> HIDE DEF c
<1>7. link' \in [Links -> LinkRec] /\ link'[l] = c /\ \A k \in Links \ {l} : link'[k] = link[k]
    BY <1>5, <1>6, LinkSet
<1>8. quota' \in QuotaRec /\ quota'.others = quota.others
    BY <1>1, <1>2, UseKeeps
<1>9. \A k \in Links : /\ link'[k].at \in OpenStates <=> link[k].at \in OpenStates
                       /\ link[k].at \in OpenStates => link'[k].node = link[k].node
                       /\ link'[k].at = "hold" <=> link[k].at = "hold"
                       /\ link'[k].at = "body" <=> link[k].at = "body"
                       /\ link[k].at = "hold" => link'[k] = link[k]
    BY <1>4, <1>5, <1>7 DEF OpenStates
<1>10. SlotsOk' /\ PeersOk' /\ BodiesOk' /\ HoldsOk'
  <2>1. SlotsOk' /\ PeersOk'
      BY <1>2, <1>9, SlotsSame
  <2>2. BodiesOk'
      BY <1>2, <1>9, BodiesSame
  <2>3. HoldsOk'
      BY <1>2, <1>9, HoldsSame
  <2> QED  BY <2>1, <2>2, <2>3
<1>11. Moved(l) /\ PollOk(c, poller, handled) /\ RoomOk(c, c.node \in Planes)
    BY <1>2, <1>5, <1>7 DEF Moved, PollOk, RoomOk
<1>12. StillHeld(l)
  <2>1. \A d \in Planes : poller[d].link # l
      BY <1>4, LinkFacts
  <2> QED  BY <2>1 DEF StillHeld
<1>13. LinksOk' /\ HandledOk' /\ PlanesOk'
    BY <1>1, <1>5, <1>7, <1>11, <1>12, LinkMoves
<1>14. TransportType'
  <2>1. acceptor' \in {"slot", "accept", "pause", "stopped"} /\ permits' \in Nat /\ bodyReads' \in Nat
        /\ peerOpen' \in [DOMAIN peerOpen' -> Nat] /\ holder' \in [DOMAIN holder' -> Links] /\ poller' = poller
      BY <1>2 DEF TransportInv, TransportType
  <2> QED  BY <1>7, <1>8, <2>1, ServerTypes
<1> QED  BY <1>10, <1>13, <1>14 DEF TransportInv

\* A tick takes from the time left what it adds to the age.
LEMMA TransportTickStep ==
    ASSUME TransportInv, TransportTick
    PROVE  TransportInv'
<1> DEFINE aged(k) == [link[k] EXCEPT !.left = TimeLeft(link[k].left), !.age = link[k].age + 1]
           rested(d) == [poller[d] EXCEPT !.left = TimeLeft(poller[d].left), !.whole = TimeLeft(poller[d].whole)]
<1>1. Prompt /\ Use("ticks") /\ UNCHANGED server /\ UNCHANGED <<handled, twice>>
    BY DEF TransportTick
<1>2. /\ link' = [k \in Links |-> IF link[k].at \in OpenStates THEN aged(k) ELSE link[k]]
      /\ poller' = [d \in Planes |-> rested(d)]
    BY DEF TransportTick, LinkOpen, OpenStates, Planes
<1>3. link \in [Links -> LinkRec] /\ poller \in [Planes -> PollerRec] /\ quota \in QuotaRec
    BY DEF TransportInv, TransportType
<1>4. \A k \in Links : /\ aged(k) \in LinkRec
                       /\ aged(k).left = TimeLeft(link[k].left) /\ aged(k).age = link[k].age + 1
                       /\ aged(k).at = link[k].at /\ aged(k).owed = link[k].owed /\ aged(k).room = link[k].room
                       /\ aged(k).node = link[k].node /\ aged(k).poll = link[k].poll /\ aged(k).answer = link[k].answer
                       /\ aged(k).told = link[k].told /\ aged(k).fin = link[k].fin
  <2>1. SUFFICES ASSUME NEW k \in Links
                 PROVE  /\ aged(k) \in LinkRec
                        /\ aged(k).left = TimeLeft(link[k].left) /\ aged(k).age = link[k].age + 1
                        /\ aged(k).at = link[k].at /\ aged(k).owed = link[k].owed /\ aged(k).room = link[k].room
                        /\ aged(k).node = link[k].node /\ aged(k).poll = link[k].poll /\ aged(k).answer = link[k].answer
                        /\ aged(k).told = link[k].told /\ aged(k).fin = link[k].fin
      OBVIOUS
  <2>2. link[k] \in LinkRec /\ link[k].left \in Int /\ link[k].age \in Nat
      BY LinkFacts
  <2>3. TimeLeft(link[k].left) \in Int /\ link[k].age + 1 \in Nat
      BY <2>2 DEF TimeLeft
  <2> QED  BY <2>2, <2>3 DEF LinkRec
<1>5. \A d \in Planes : /\ rested(d) \in PollerRec
                        /\ rested(d).at = poller[d].at /\ rested(d).link = poller[d].link /\ rested(d).poll = poller[d].poll
                        /\ rested(d).left <= poller[d].left
  <2>1. SUFFICES ASSUME NEW d \in Planes
                 PROVE  /\ rested(d) \in PollerRec
                        /\ rested(d).at = poller[d].at /\ rested(d).link = poller[d].link /\ rested(d).poll = poller[d].poll
                        /\ rested(d).left <= poller[d].left
      OBVIOUS
  <2>2. poller[d] \in PollerRec /\ poller[d].left \in Nat /\ poller[d].whole \in Nat
      BY PlaneFacts
  <2>3. TimeLeft(poller[d].left) \in Nat /\ TimeLeft(poller[d].whole) \in Nat /\ TimeLeft(poller[d].left) <= poller[d].left
      BY <2>2 DEF TimeLeft
  <2>4. /\ rested(d).at = poller[d].at /\ rested(d).link = poller[d].link /\ rested(d).poll = poller[d].poll
        /\ rested(d).left = TimeLeft(poller[d].left)
      BY <2>2 DEF PollerRec
  <2>5. rested(d) \in PollerRec
      BY <2>2, <2>3 DEF PollerRec
  <2> QED  BY <2>3, <2>4, <2>5
<1>6. \A k \in Links : (link[k].at \in OpenStates => link'[k] = aged(k)) /\ (link[k].at \notin OpenStates => link'[k] = link[k])
    BY <1>2
<1>7. Planes' = Planes /\ \A d \in Planes : poller'[d] = rested(d)
    BY <1>2 DEF Planes
<1> HIDE DEF aged, rested
<1>8. link' \in [Links -> LinkRec] /\ poller' \in [Planes -> PollerRec]
    BY <1>2, <1>3, <1>4, <1>5
<1>9. \A k \in Links :
          /\ link'[k].at = link[k].at /\ link'[k].node = link[k].node /\ link'[k].poll = link[k].poll
          /\ link'[k].answer = link[k].answer /\ link'[k].owed = link[k].owed /\ link'[k].room = link[k].room
          /\ link'[k].told = link[k].told /\ link'[k].fin = link[k].fin
    BY <1>4, <1>6
<1>10. /\ UNCHANGED <<permits, peerOpen>> /\ acceptor' = acceptor /\ bodyReads' = bodyReads /\ holder' = holder
       /\ handled' = handled /\ twice' = twice
    BY <1>1 DEF server
<1>11. \A k \in Links : link[k].at \in {"tls", "head", "auth", "body", "hold", "write"} => link[k].left > 0
    BY <1>1 DEF Prompt
<1>12. SlotsOk' /\ PeersOk'
    BY <1>9, <1>10, SlotsSame
<1>13. BodiesOk'
    BY <1>9, <1>10, BodiesSame
<1>14. HoldsOk'
  <2>1. \A k \in Links : link[k].at = "hold" => link[k].left # 0
      BY <1>11, LinkFacts
  <2> QED  BY <1>9, <1>10, <2>1, HoldsSame
<1>15. \A d \in Planes : LastSent(poller'[d]) = LastSent(poller[d])
    BY <1>5, <1>7 DEF LastSent
<1>16. HandledOk'
    BY <1>7, <1>10, <1>15 DEF TransportInv, HandledOk
<1>17. LinksOk'
  <2>1. ASSUME NEW k \in Links
        PROVE  AgeOk(link'[k]) /\ RoomOk(link'[k], link'[k].node \in Planes) /\ PollOk(link'[k], poller', handled)
    <3>1. /\ AgeOk(link[k]) /\ RoomOk(link[k], link[k].node \in Planes) /\ PollOk(link[k], poller, handled)
          /\ link[k].left \in Int /\ link[k].age \in Nat /\ link[k].owed \in Nat
        BY LinkFacts
    <3>2. PollOk(link'[k], poller', handled)
      <4>1. DOMAIN poller' = DOMAIN poller
          BY <1>7 DEF Planes
      <4> QED  BY <1>9, <1>15, <3>1, <4>1 DEF PollOk, Planes
    <3>3. CASE link[k].at \notin OpenStates
      <4>1. link'[k] = link[k]
          BY <1>6, <3>3
      <4> QED  BY <3>1, <3>2, <4>1
    <3>4. CASE link[k].at \in OpenStates
      <4>1. /\ link[k].left > 0 /\ link'[k].left = link[k].left - 1 /\ link'[k].age = link[k].age + 1
            /\ link'[k].left \in Nat /\ link'[k].age + link'[k].left = link[k].age + link[k].left
        <5>1. link[k].left > 0
            BY <1>11, <3>4 DEF OpenStates
        <5>2. link'[k].left = link[k].left - 1 /\ link'[k].age = link[k].age + 1
            BY <1>4, <1>6, <3>4, <5>1 DEF TimeLeft
        <5> QED  BY <3>1, <5>1, <5>2
      <4>2. AgeOk(link'[k])
        <5>1. CASE link[k].at # "write"
            BY <1>9, <3>1, <3>4, <4>1, <5>1 DEF AgeOk
        <5>2. CASE link[k].at = "write"
          <6>1. /\ link[k].owed <= AnswerSize - SocketRoom + link[k].room /\ link[k].owed > 0 /\ link[k].owed <= AnswerSize - SocketRoom
                /\ link[k].age + link[k].left <= ToAnswer + Stalls(AnswerSize - SocketRoom - link[k].owed + 1)
              BY <3>1, <4>1, <5>2 DEF AgeOk
          <6> QED  BY <1>9, <4>1, <5>2, <6>1 DEF AgeOk, OpenStates
        <5> QED  BY <5>1, <5>2
      <4>3. RoomOk(link'[k], link'[k].node \in Planes)
          BY <1>9, <3>1, <3>4 DEF RoomOk, OpenStates
      <4> QED  BY <3>2, <4>2, <4>3
    <3> QED  BY <3>3, <3>4
  <2>2. \A a, b \in Links : link'[a].poll # 0 /\ link'[a].poll = link'[b].poll /\ link'[a].node = link'[b].node => a = b
      BY <1>9 DEF TransportInv, LinksOk
  <2> QED  BY <1>7, <1>10, <2>1, <2>2 DEF LinksOk
<1>18. PlanesOk'
  <2>1. ASSUME NEW d \in Planes PROVE PlaneOk(d, poller'[d], link')
    <3>1. PlaneOk(d, poller[d], link) /\ (poller[d].link # 0 => poller[d].link \in Links) /\ poller[d].left \in Nat
        BY PlaneFacts
    <3>2. /\ poller'[d].at = poller[d].at /\ poller'[d].link = poller[d].link /\ poller'[d].poll = poller[d].poll
          /\ poller'[d].left <= poller[d].left /\ poller'[d].left \in Nat /\ HoldTime \in Nat
        BY <1>5, <1>7, TransportAssumption DEF PollerRec
    <3>3. poller'[d].at = "wait" => poller'[d].left <= HoldTime
        BY <3>1, <3>2 DEF PlaneOk
    <3> QED  BY <1>9, <3>1, <3>2, <3>3 DEF PlaneOk
  <2> QED  BY <1>7, <2>1 DEF PlanesOk
<1>19. TransportType'
  <2>1. quota' \in QuotaRec /\ quota'.others = quota.others
      BY <1>1, <1>3, UseKeeps
  <2>2. acceptor' \in {"slot", "accept", "pause", "stopped"} /\ permits' \in Nat /\ bodyReads' \in Nat
        /\ peerOpen' \in [DOMAIN peerOpen' -> Nat] /\ holder' \in [DOMAIN holder' -> Links]
      BY <1>10 DEF TransportInv, TransportType
  <2>3. Planes' \subseteq NetNode /\ Planes' \cap quota'.others = {}
      BY <1>7, <2>1 DEF TransportInv, TransportType
  <2>4. poller' \in [Planes' -> PollerRec]
      BY <1>7, <1>8
  <2> QED  BY <1>8, <2>1, <2>2, <2>3, <2>4 DEF TransportType
<1> QED  BY <1>12, <1>13, <1>14, <1>16, <1>17, <1>18, <1>19 DEF TransportInv

-----------------------------------------------------------------------------
(* The whole. *)

\* The invariant holds initially.
LEMMA TransportInitially == ASSUME TransportInit PROVE TransportInv
<1>1. PICK w \in TransportWorlds : /\ quota = w /\ poller = [d \in w.planes |-> Rested]
    BY DEF TransportInit
<1>2. /\ acceptor = "slot" /\ permits = MaxConnections /\ peerOpen = <<>> /\ link = [l \in Links |-> NoLink]
      /\ bodyReads = MaxBodyReads /\ holder = <<>> /\ handled = {} /\ twice = {}
    BY DEF TransportInit
<1>3. quota \in QuotaRec /\ Planes = w.planes /\ Planes \subseteq NetNode /\ Planes \cap quota.others = {}
  <2>1. w \in QuotaRec /\ w.planes \cap w.others = {}
      BY TransportAssumption DEF QuotaRec
  <2>2. w.planes \in SUBSET NetNode
      BY <2>1 DEF QuotaRec
  <2> QED  BY <1>1, <2>1, <2>2 DEF Planes
<1>4. Rested \in PollerRec /\ Rested.at = "wait" /\ Rested.link = 0 /\ Rested.left = 0 /\ Rested.poll = 0
    BY TransportAssumption DEF Rested, PollerRec
<1>5. DOMAIN peerOpen = {} /\ DOMAIN holder = {} /\ peerOpen \in [{} -> Nat] /\ holder \in [{} -> Links]
    BY <1>2
<1>6. \A l \in Links : link[l] = NoLink
    BY <1>2
<1>7. TransportType
    BY <1>1, <1>2, <1>3, <1>4, <1>5, NoLinkFacts, TransportAssumption DEF TransportType
<1>8. OpenSet(link) = {} /\ BodySet(link) = {}
    BY <1>6, NoLinkFacts DEF OpenSet, BodySet, OpenStates
<1>9. SlotsOk /\ PeersOk /\ BodiesOk
  <2>1. Cardinality({}) = 0
      BY FS_EmptySet
  <2>2. MaxConnections \in Nat /\ MaxBodyReads \in Nat
      BY TransportAssumption
  <2>3. SlotsOk
    <3>1. Cardinality(OpenSet(link)) = 0
        BY <1>8, <2>1
    <3>2. Acceptors(acceptor) = 0
        BY <1>2 DEF Acceptors
    <3> QED  BY <1>2, <2>2, <3>1, <3>2 DEF SlotsOk
  <2>4. PeersOk
      BY <1>5, <1>8 DEF PeersOk
  <2>5. BodiesOk
    <3>1. Cardinality(BodySet(link)) = 0
        BY <1>8, <2>1
    <3> QED  BY <1>2, <2>2, <3>1 DEF BodiesOk
  <2> QED  BY <2>3, <2>4, <2>5
<1>10. LinksOk
  <2>1. NoLink.told = "none" /\ RoomOk(NoLink, NoLink.node \in Planes) /\ PollOk(NoLink, poller, handled)
    <3>1. NoLink.told = "none"
        BY DEF NoLink
    <3> QED  BY <3>1, NoLinkFacts DEF RoomOk, PollOk
  <2> QED  BY <1>6, <2>1, NoLinkFacts DEF LinksOk
<1>11. HandledOk /\ HoldsOk
    BY <1>2, <1>5, <1>6, NoLinkFacts DEF HandledOk, HoldsOk
<1>12. PlanesOk
  <2>1. \A d \in Planes : poller[d] = Rested
      BY <1>1, <1>3
  <2> QED  BY <1>4, <1>6, <2>1, NoLinkFacts, TransportAssumption DEF PlanesOk, PlaneOk
<1> QED  BY <1>7, <1>9, <1>10, <1>11, <1>12 DEF TransportInv

\* Every step keeps the invariant.
LEMMA TransportSteps ==
    ASSUME TransportInv, [TransportNext]_transportVars
    PROVE  TransportInv'
<1>1. CASE UNCHANGED transportVars
  <2>1. /\ UNCHANGED <<acceptor, permits, peerOpen, bodyReads, holder>> /\ UNCHANGED <<link, poller, handled, twice, quota>>
      BY <1>1 DEF transportVars, server
  <2> QED  BY <2>1 DEF TransportInv, TransportType, SlotsOk, PeersOk, BodiesOk, LinksOk, HandledOk, HoldsOk, PlanesOk, Planes
<1>2. CASE TakeSlot \/ AcceptFails \/ PauseOver \/ Shutdown
    BY <1>2, AcceptorSteps
<1>3. CASE StopAccepting
    BY <1>3, StopAcceptingStep
<1>4. CASE TransportTick
    BY <1>4, TransportTickStep
<1>5. ASSUME NEW l \in Links,
             \/ AcceptLink(l) \/ Handshake(l) \/ BodyRead(l) \/ PeerTimesOut(l) \/ Disconnected(l)
             \/ \E said \in {"asked", "refused", "standby"} : HeadRead(l, said)
             \/ \E admitted \in BOOLEAN : Authenticated(l, admitted)
             \/ \E a \in {"snapshot", "gone", "unchanged", "standby"} : HoldEnds(l, a)
             \/ WriteOn(l) \/ WriteStalls(l) \/ WriteFails(l) \/ Written(l)
             \/ PeerReads(l) \/ StrangerLeaves(l)
      PROVE  TransportInv'
    BY <1>5, AcceptLinkStep, HandshakeStep, BodyReadStep, PeerTimesOutStep, DisconnectedStep, HeadReadStep, AuthenticatedStep, HoldEndsStep,
       WriteOnStep, WriteStallsStep, WrittenStep, PeerReadsStep, StrangerLeavesStep
<1>6. ASSUME NEW d \in Planes,
             PollBegins(d) \/ Dial(d) \/ Connected(d) \/ PollFails(d) \/ Abandon(d) \/ TakeAnswer(d) \/ Vanish(d)
      PROVE  TransportInv'
    BY <1>6, PollBeginsStep, DialStep, ConnectedStep, PollFailsStep, AbandonStep, TakeAnswerStep, VanishStep
<1>7. ASSUME NEW n \in quota.others, StrangerDials(n) PROVE TransportInv'
    BY <1>7, StrangerDialsStep
<1> QED  BY <1>1, <1>2, <1>3, <1>4, <1>5, <1>6, <1>7 DEF TransportNext, Planes

\* The invariant says what ConnectionsHold does.
LEMMA TransportInvHolds == ASSUME TransportInv PROVE ConnectionsHold
<1>1. SlotsAddUp
    BY SlotsParts DEF TransportInv
<1>2. AgeBounded
  <2> DEFINE D == AnswerSize - SocketRoom
  <2>1. /\ D \in Nat /\ AnswerSize \in Nat /\ SocketRoom \in Nat /\ ToAnswer \in Nat /\ PeerTimeout \in Nat /\ HoldTime \in Nat /\ ReviewTimeout \in Nat
        /\ Stalls(D) \in Nat
    <3>1. D \in Nat
        BY TransportAssumption
    <3>2. Stalls(D) \in Nat
      <4> HIDE DEF D
      <4> QED  BY <3>1, StallsGrow
    <3>3. PeerTimeout \in Nat /\ HoldTime \in Nat /\ ReviewTimeout \in Nat /\ AnswerSize \in Nat /\ SocketRoom \in Nat
        BY TransportAssumption
    <3>4. ToAnswer \in Nat
        BY <3>3 DEF ToAnswer
    <3> QED  BY <3>1, <3>2, <3>3, <3>4
  <2>2. ASSUME NEW l \in Links PROVE link[l].age <= ToAnswer + Stalls(D)
    <3>1. AgeOk(link[l]) /\ link[l].age \in Nat /\ link[l].left \in Int /\ link[l].owed \in Nat
        BY LinkFacts
    <3>2. CASE link[l].at # "write"
      <4>1. link[l].age <= ToAnswer
          BY <2>1, <3>1, <3>2 DEF AgeOk, OpenStates, ToAnswer
      <4> HIDE DEF D
      <4> QED  BY <2>1, <3>1, <4>1
    <3>3. CASE link[l].at = "write"
      <4>1. \/ link[l].age <= ToAnswer
            \/ link[l].owed <= D /\ link[l].age <= ToAnswer + Stalls(D - link[l].owed)
            \/ /\ link[l].owed > 0 /\ link[l].owed <= D /\ link[l].left \in Nat
               /\ link[l].age + link[l].left <= ToAnswer + Stalls(D - link[l].owed + 1)
          BY <3>1, <3>3 DEF AgeOk
      <4> HIDE DEF D
      <4>2. CASE link[l].age <= ToAnswer
          BY <2>1, <3>1, <4>2
      <4>3. CASE link[l].owed <= D /\ link[l].age <= ToAnswer + Stalls(D - link[l].owed)
        <5>1. D - link[l].owed \in Nat /\ D - link[l].owed <= D
            BY <2>1, <3>1, <4>3
        <5>2. Stalls(D - link[l].owed) <= Stalls(D) /\ Stalls(D - link[l].owed) \in Nat
            BY <2>1, <5>1, StallsGrow
        <5> QED  BY <2>1, <3>1, <4>3, <5>2
      <4>4. CASE /\ link[l].owed > 0 /\ link[l].owed <= D /\ link[l].left \in Nat
                 /\ link[l].age + link[l].left <= ToAnswer + Stalls(D - link[l].owed + 1)
        <5>1. D - link[l].owed + 1 \in Nat /\ D - link[l].owed + 1 <= D
            BY <2>1, <3>1, <4>4
        <5>2. Stalls(D - link[l].owed + 1) <= Stalls(D) /\ Stalls(D - link[l].owed + 1) \in Nat
            BY <2>1, <5>1, StallsGrow
        <5> QED  BY <2>1, <3>1, <4>4, <5>2
      <4> QED  BY <4>1, <4>2, <4>3, <4>4
    <3> QED  BY <3>2, <3>3
  <2> QED  BY <2>2 DEF AgeBounded, ToAnswer, Stalls
<1>3. OneHold
    BY DEF OneHold, TransportInv, HoldsOk
<1>4. OneConnection
    BY DEF OneConnection, TransportInv, PlanesOk, PlaneOk, Planes
<1>5. twice = {}
    BY DEF TransportInv, HandledOk
<1> QED  BY <1>1, <1>2, <1>3, <1>4, <1>5 DEF ConnectionsHold

\* However peers stall, leave, vanish or retry, slots, counts and reads add up
\* over every exit path, nothing but answered polls keeps a connection, a pod
\* holds one poll, a data plane one connection, no poll is handled twice
\* (server.rs, serve, connection, Holds and StallGuard; remote.rs, exchange,
\* send and Backoff).
THEOREM ConnectionsCorrect == TransportSpec => []ConnectionsHold
<1>1. TransportInit => TransportInv
    BY TransportInitially
<1>2. TransportInv /\ [TransportNext]_transportVars => TransportInv'
    BY TransportSteps
<1>3. TransportInv => ConnectionsHold
    BY TransportInvHolds
<1> QED  BY <1>1, <1>2, <1>3, PTL DEF TransportSpec

-----------------------------------------------------------------------------
(* The client's socket: StallsBounded of ClientStream for every budget, room
   and buffer size.  Its four bounds are not inductive: a tick may only be
   said to keep the age within the budget when the timer is known to run
   since the age began, so the strengthening ties each timer to what it
   measures. *)

\* The values the fields of a ClientStream, its buffers and its clocks take.
StreamType ==
    /\ writeIdle \in Nat /\ queued \in Nat /\ stalled \in BOOLEAN /\ stallLeft \in Nat
    /\ closing \in {"no", "shutdown", "linger", "closed", "failed"}
    /\ closeLeft \in Nat /\ budgetLeft \in Nat /\ discarded \in Nat /\ arrived \in Nat
    /\ clientDone \in BOOLEAN /\ age \in Nat \cup {-1} /\ closeAge \in Nat /\ silence \in Nat

\* The stall timer runs exactly while a pending poll has seen no flush
\* complete, and is as far as that poll is old.
StallTimer ==
    /\ closing = "no" /\ writeIdle > 0 => IF age = -1 THEN ~stalled ELSE stalled /\ age + stallLeft = writeIdle
    /\ closing = "failed" => age >= writeIdle

\* The deadline of the close, then the end of the linger, is as far as the
\* close is old; within the linger the deadline is a silence's or that end.
CloseTimer ==
    /\ closing \in {"no", "failed"} => closeAge = 0
    /\ closing = "shutdown" => closeAge + closeLeft = CloseBudget
    /\ closing = "linger" =>
          /\ closeAge + budgetLeft = CloseBudget /\ closeLeft <= budgetLeft
          /\ silence + closeLeft >= LingerIdle \/ closeLeft = budgetLeft
    /\ closing = "closed" =>
          /\ closeAge <= CloseBudget
          /\ clientDone \/ discarded = ReadOff \/ silence >= LingerIdle \/ closeAge = CloseBudget
    /\ discarded <= ReadOff

StreamInv == StreamType /\ StallTimer /\ CloseTimer

-----------------------------------------------------------------------------
\* A stream begins with no timer running (ClientStream::new).
LEMMA InitStream == StreamInit => StreamInv
  <1> SUFFICES ASSUME StreamInit
               PROVE  StreamInv
    OBVIOUS
  <1> USE ClientStreamAssumption DEF StreamInit
  <1>1. StreamType
    BY DEF StreamType
  <1>2. StallTimer
    BY DEF StallTimer
  <1>3. CloseTimer
    BY DEF CloseTimer
  <1> QED BY <1>1, <1>2, <1>3 DEF StreamInv

\* Polls of a write or a flush keep the stall timer in step: a pending one
\* starts it, a completed flush ends it, a write taken leaves it alone.
LEMMA WritesKeep == StreamInv /\ (PollWrite \/ PollFlush) => StreamInv'
  <1> SUFFICES ASSUME StreamInv, PollWrite \/ PollFlush
               PROVE  StreamInv'
    OBVIOUS
  <1> USE ClientStreamAssumption
  <1>1. closing = "no" /\ closing' \in {"no", "failed"} /\ UNCHANGED <<writeIdle, closeVars, peerVars>>
    BY DEF PollWrite, PollFlush, PollStall, Taken
  <1>2. ASSUME PollStall PROVE StallTimer' /\ stalled' \in BOOLEAN /\ stallLeft' \in Nat /\ age' \in Nat \cup {-1}
    <2>1. writeIdle \in Nat /\ stallLeft \in Nat /\ stalled \in BOOLEAN /\ age \in Nat \cup {-1} /\ StallTimer
      BY DEF StreamInv, StreamType
    <2>2. age' \in Nat /\ (age' = age \/ (age' = 0 /\ age = -1))
      BY <1>2, <2>1 DEF PollStall
    <2>3. CASE writeIdle = 0
      BY <1>1, <1>2, <2>1, <2>2, <2>3 DEF PollStall, StallTimer
    <2>4. CASE writeIdle > 0 /\ ~stalled
      <3>1. age = -1
        BY <1>1, <2>1, <2>4 DEF StallTimer
      <3>2. stalled' = TRUE /\ stallLeft' = writeIdle /\ closing' = "no" /\ age' = 0
        BY <1>1, <1>2, <2>1, <2>4, <3>1 DEF PollStall
      <3> QED BY <1>1, <2>1, <2>4, <3>2 DEF StallTimer
    <2>5. CASE writeIdle > 0 /\ stalled
      <3>1. age # -1 /\ age + stallLeft = writeIdle
        BY <1>1, <2>1, <2>5 DEF StallTimer
      <3>2. stalled' = stalled /\ stallLeft' = stallLeft /\ age' = age /\ (closing' = "failed" => stallLeft = 0)
        BY <1>1, <1>2, <2>1, <2>5, <3>1 DEF PollStall
      <3> QED BY <1>1, <2>1, <2>5, <3>1, <3>2 DEF StallTimer
    <2> QED BY <2>1, <2>3, <2>4, <2>5
  <1>3. StallTimer' /\ stalled' \in BOOLEAN /\ stallLeft' \in Nat /\ age' \in Nat \cup {-1} /\ queued' \in Nat
    <2>1. CASE PollWrite
      <3>1. CASE queued < TlsRoom /\ queued' = queued + 1 /\ Taken /\ UNCHANGED <<stallLeft, closing, age>>
        BY <1>1, <3>1 DEF StreamInv, StreamType, StallTimer, Taken
      <3>2. CASE queued = TlsRoom /\ PollStall /\ UNCHANGED queued
        BY <1>2, <3>2 DEF StreamInv, StreamType
      <3> QED BY <2>1, <3>1, <3>2 DEF PollWrite
    <2>2. CASE PollFlush
      <3>1. CASE queued <= KernelRoom /\ stalled' = FALSE /\ age' = -1 /\ UNCHANGED <<stallLeft, closing>>
        BY <1>1, <2>2, <3>1 DEF StreamInv, StreamType, StallTimer, PollFlush
      <3>2. CASE queued > KernelRoom /\ PollStall
        BY <1>2, <2>2, <3>2 DEF StreamInv, StreamType, PollFlush
      <3> QED BY <2>2, <3>1, <3>2 DEF PollFlush
    <2> QED BY <2>1, <2>2
  <1>4. CloseTimer'
    BY <1>1 DEF StreamInv, StreamType, CloseTimer, closeVars, peerVars
  <1> QED BY <1>1, <1>3, <1>4 DEF StreamInv, StreamType, closeVars, peerVars

\* What is read off never passes the cap, and a linger that goes on has a
\* deadline within its budget.
LEMMA ReadOffKeeps ==
    ASSUME StreamInv, NEW restart \in BOOLEAN, NEW by \in Nat, ReadOffWaiting(restart, by),
           closeAge + by = CloseBudget, budgetLeft' = by, UNCHANGED <<closeAge, clientDone>>,
           ~restart => closing = "linger" /\ by = budgetLeft
    PROVE  /\ CloseTimer'
           /\ closing' \in {"linger", "closed"} /\ closeLeft' \in Nat /\ discarded' \in Nat /\ arrived' \in Nat /\ silence' \in Nat
  <1> USE ClientStreamAssumption
  <1> DEFINE read == LeastOf(arrived, ReadOff - discarded)
  <1>1. read \in Nat /\ read <= arrived /\ discarded + read <= ReadOff
    BY DEF StreamInv, StreamType, CloseTimer, LeastOf
  <1>2. /\ discarded' = discarded + read /\ arrived' = arrived - read
        /\ closeLeft' = IF restart \/ read > 0 THEN LeastOf(LingerIdle, by) ELSE closeLeft
        /\ silence' = IF restart \/ read > 0 THEN 0 ELSE silence
        /\ closing' = IF discarded + read = ReadOff \/ clientDone \/ closeLeft' = 0 THEN "closed" ELSE "linger"
    BY DEF ReadOffWaiting, Restart
  <1> HIDE DEF read
  <1>3. discarded' \in Nat /\ arrived' \in Nat /\ discarded' <= ReadOff /\ closing' \in {"linger", "closed"}
    BY <1>1, <1>2 DEF StreamInv, StreamType
  <1>4. CASE restart \/ read > 0
    <2>1. closeLeft' \in Nat /\ closeLeft' <= by /\ silence' = 0 /\ (closeLeft' = LingerIdle \/ closeLeft' = by)
      BY <1>2, <1>4 DEF LeastOf
    <2>2. closeLeft' = 0 => closeAge' = CloseBudget
      BY <2>1 DEF StreamInv, StreamType
    <2>3. closing' = "closed" => clientDone' \/ discarded' = ReadOff \/ closeAge' = CloseBudget
      BY <1>2, <2>2
    <2>4. closeAge' <= CloseBudget
      BY DEF StreamInv, StreamType
    <2>5. closing' = "linger" =>
             /\ closeAge' + budgetLeft' = CloseBudget /\ closeLeft' <= budgetLeft'
             /\ silence' + closeLeft' >= LingerIdle \/ closeLeft' = budgetLeft'
      <3>1. closeAge \in Nat /\ closeAge' = closeAge /\ budgetLeft' = by
        BY DEF StreamInv, StreamType
      <3>2. closeAge' + budgetLeft' = CloseBudget /\ closeLeft' <= budgetLeft'
        BY <2>1, <3>1
      <3>3. LingerIdle \in Nat
        BY ClientStreamAssumption
      <3>4. silence' + closeLeft' >= LingerIdle \/ closeLeft' = budgetLeft'
        <4>1. CASE closeLeft' = LingerIdle
          <5>1. silence' + closeLeft' = LingerIdle
            BY <2>1, <3>3, <4>1
          <5> QED BY <3>3, <5>1
        <4>2. CASE closeLeft' = by
          BY <3>1, <4>2
        <4> QED BY <2>1, <4>1, <4>2
      <3> QED BY <3>2, <3>4
    <2> QED BY <1>3, <2>1, <2>3, <2>4, <2>5 DEF CloseTimer
  <1>5. CASE ~(restart \/ read > 0)
    <2>1. closeLeft' = closeLeft /\ silence' = silence /\ closing = "linger" /\ budgetLeft' = budgetLeft
      BY <1>2, <1>5
    <2>2. closeLeft' = 0 => closeAge' = CloseBudget \/ silence' >= LingerIdle
      BY <2>1 DEF StreamInv, StreamType, CloseTimer
    <2> QED BY <1>2, <1>3, <2>1, <2>2 DEF CloseTimer, StreamInv, StreamType
  <1> QED BY <1>4, <1>5

\* The close: armed by its first poll, then in step with its deadlines.
LEMMA CloseKeeps == StreamInv /\ (StartShutdown \/ ShutdownPending \/ ShutdownDone \/ PollLinger) => StreamInv'
  <1> SUFFICES ASSUME StreamInv, StartShutdown \/ ShutdownPending \/ ShutdownDone \/ PollLinger
               PROVE  StreamInv'
    OBVIOUS
  <1> USE ClientStreamAssumption
  <1>1. CASE StartShutdown
    <2>1. StreamType'
      <3>1. UNCHANGED <<writeIdle, stallLeft, budgetLeft, discarded, silence, arrived, clientDone>>
        BY <1>1 DEF StartShutdown, peerVars
      <3>2. queued' = queued + 1 /\ stalled' = FALSE /\ age' = -1 /\ closing' = "shutdown" /\ closeLeft' = CloseBudget /\ closeAge' = 0
        BY <1>1 DEF StartShutdown
      <3>3. CloseBudget \in Nat
        BY ClientStreamAssumption
      <3>4. queued' \in Nat /\ stallLeft' \in Nat /\ closeLeft' \in Nat /\ writeIdle' \in Nat /\ budgetLeft' \in Nat /\ discarded' \in Nat /\ arrived' \in Nat /\ silence' \in Nat /\ closeAge' \in Nat
        BY <3>1, <3>2, <3>3 DEF StreamInv, StreamType
      <3>5. stalled' \in BOOLEAN /\ clientDone' \in BOOLEAN
        BY <3>1, <3>2 DEF StreamInv, StreamType
      <3>6. age' \in Nat \cup {-1} /\ closing' \in {"no", "shutdown", "linger", "closed", "failed"}
        BY <3>2
      <3> QED BY <3>4, <3>5, <3>6 DEF StreamType
    <2>2. StallTimer'
      BY <1>1 DEF StartShutdown, StallTimer
    <2>3. CloseTimer'
      BY <1>1 DEF StartShutdown, StreamInv, CloseTimer
    <2> QED BY <2>1, <2>2, <2>3 DEF StreamInv
  <1>2. CASE ShutdownPending
    BY <1>2 DEF ShutdownPending, StreamInv, StreamType, StallTimer, CloseTimer, stallVars, closeVars, peerVars
  <1>3. CASE ShutdownDone
    <2>1. closing = "shutdown" /\ closeAge + closeLeft = CloseBudget /\ closeLeft \in Nat /\ budgetLeft' = closeLeft
          /\ ReadOffWaiting(TRUE, closeLeft) /\ UNCHANGED <<stallVars, closeAge, clientDone>>
      BY <1>3 DEF ShutdownDone, StreamInv, StreamType, CloseTimer
    <2>2. /\ CloseTimer'
          /\ closing' \in {"linger", "closed"} /\ closeLeft' \in Nat /\ discarded' \in Nat /\ arrived' \in Nat /\ silence' \in Nat
      BY <2>1, ReadOffKeeps
    <2> QED BY <2>1, <2>2 DEF StreamInv, StreamType, StallTimer, stallVars
  <1>4. CASE PollLinger
    <2>1. closing = "linger" /\ closeAge + budgetLeft = CloseBudget /\ budgetLeft \in Nat /\ budgetLeft' = budgetLeft
          /\ ReadOffWaiting(FALSE, budgetLeft) /\ UNCHANGED <<stallVars, closeAge, clientDone>>
      BY <1>4 DEF PollLinger, StreamInv, StreamType, CloseTimer
    <2>2. /\ CloseTimer'
          /\ closing' \in {"linger", "closed"} /\ closeLeft' \in Nat /\ discarded' \in Nat /\ arrived' \in Nat /\ silence' \in Nat
      BY <2>1, ReadOffKeeps
    <2> QED BY <2>1, <2>2 DEF StreamInv, StreamType, StallTimer, stallVars
  <1> QED BY <1>1, <1>2, <1>3, <1>4

\* The client moves no timer.
LEMMA ClientKeeps == StreamInv /\ (ClientReadsOn \/ ClientStillSends \/ ClientCloses) => StreamInv'
  <1> SUFFICES ASSUME StreamInv, ClientReadsOn \/ ClientStillSends \/ ClientCloses
               PROVE  StreamInv'
    OBVIOUS
  <1>1. CASE ClientReadsOn
    BY <1>1 DEF ClientReadsOn, StreamInv, StreamType, StallTimer, CloseTimer, closeVars, peerVars
  <1>2. CASE ClientStillSends
    BY <1>2 DEF ClientStillSends, StreamInv, StreamType, StallTimer, CloseTimer, stallVars, closeVars
  <1>3. CASE ClientCloses
    BY <1>3 DEF ClientCloses, StreamInv, StreamType, StallTimer, CloseTimer, stallVars, closeVars
  <1> QED BY <1>1, <1>2, <1>3

\* A tick moves every timer and what it measures alike: none of them is due.
LEMMA TickKeeps == StreamInv /\ TickStream => StreamInv'
  <1> SUFFICES ASSUME StreamInv, TickStream
               PROVE  StreamInv'
    OBVIOUS
  <1> USE ClientStreamAssumption
  <1>1. StreamType'
    BY DEF TickStream, Down, StreamInv, StreamType, peerVars
  <1>2. StallTimer'
    <2>1. closing' = closing /\ writeIdle' = writeIdle /\ stalled' = stalled /\ closing \notin {"closed", "failed"}
      BY DEF TickStream
    <2>2. CASE closing = "no"
      <3>1. age \in Nat /\ writeIdle > 0 /\ stalled /\ age + stallLeft = writeIdle /\ stallLeft > 0
        BY <2>2 DEF TickStream, PollDue, StreamInv, StreamType, StallTimer
      <3>2. age' = age + 1 /\ stallLeft' = stallLeft - 1
        BY <3>1 DEF TickStream, Down
      <3> QED BY <2>1, <2>2, <3>1, <3>2 DEF StreamInv, StreamType, StallTimer
    <2>3. CASE closing # "no"
      BY <2>1, <2>3 DEF StallTimer
    <2> QED BY <2>2, <2>3
  <1>3. CloseTimer'
    <2>1. /\ closing' = closing /\ discarded' = discarded
          /\ closeLeft' = Down(closeLeft) /\ budgetLeft' = Down(budgetLeft)
          /\ closeAge' = closeAge + (IF closing = "no" THEN 0 ELSE 1)
          /\ silence' = silence + (IF closing = "linger" THEN 1 ELSE 0)
      BY DEF TickStream
    <2>2. closing \in {"no", "shutdown", "linger"}
      BY DEF TickStream, StreamInv, StreamType
    <2>3. closing \in {"shutdown", "linger"} => closeLeft > 0
      BY DEF TickStream, PollDue, StreamInv, StreamType
    <2> QED BY <2>1, <2>2, <2>3 DEF StreamInv, StreamType, CloseTimer, Down
  <1> QED BY <1>1, <1>2, <1>3 DEF StreamInv

\* The strengthening is inductive.
LEMMA StepKeeps == StreamInv /\ [StreamNext]_streamVars => StreamInv'
  <1> SUFFICES ASSUME StreamInv, [StreamNext]_streamVars
               PROVE  StreamInv'
    OBVIOUS
  <1>1. CASE UNCHANGED streamVars
    BY <1>1 DEF streamVars, StreamInv, StreamType, StallTimer, CloseTimer
  <1>2. CASE StreamNext
    BY <1>2, WritesKeep, CloseKeeps, ClientKeeps, TickKeeps DEF StreamNext
  <1> QED BY <1>1, <1>2

\* It implies the property.
LEMMA InvBounds == StreamInv => StallsBounded
  BY ClientStreamAssumption DEF StreamInv, StreamType, StallTimer, CloseTimer, StallsBounded

\* A client that lets no flush complete loses its connection when the write
\* budget is over and no other client does, and a close ends within its
\* budget, cutting off a client that still sends only for a reason: for every
\* budget, buffer and client (ClientStream::poll_stall, poll_shutdown).
THEOREM StreamBounded == StreamSpec => []StallsBounded
  <1>1. StreamInit => StreamInv
    BY InitStream
  <1>2. StreamInv /\ [StreamNext]_streamVars => StreamInv'
    BY StepKeeps
  <1>3. StreamInv => StallsBounded
    BY InvBounds
  <1> QED BY <1>1, <1>2, <1>3, PTL DEF StreamSpec
-----------------------------------------------------------------------------
(* The chunked framing: byte for byte, the peer is where the observer is. *)

PhaseNames == {"Size", "SizeExt", "SizeCrlf", "Data", "DataCrlf", "TrailerLineStart",
               "TrailerLine", "TrailerCr", "Done", "Broken"}
Sizes  == 0 .. SizeLimit - 1
Phases == [p : PhaseNames, size : Sizes, flag : BOOLEAN]
Peers  == [w : {"size", "data", "gap", "trailer", "over", "overrun"}, n : Nat,
           cr : BOOLEAN, blank : BOOLEAN, counting : BOOLEAN]

\* Where the peer stands when the observer is in phase ph.
InStep(ph, q) ==
    /\ ph \in Phases /\ q \in Peers
    /\ ph.p = "Size" => q.w = "size" /\ q.n = ph.size /\ ~q.cr /\ q.counting
    /\ ph.p = "SizeExt" => q.w = "size" /\ q.n = ph.size /\ ~q.cr /\ ~q.counting
    /\ ph.p = "SizeCrlf" => q.w = "size" /\ q.n = ph.size /\ q.cr
    /\ ph.p = "Data" => q.w = "data" /\ q.n = ph.size /\ ph.size > 0
    /\ ph.p = "DataCrlf" => q.w = "gap" /\ (q.cr <=> ph.flag)
    /\ ph.p = "TrailerLineStart" => q.w = "trailer" /\ ~q.cr /\ q.blank
    /\ ph.p = "TrailerLine" => q.w = "trailer" /\ ~q.cr /\ ~q.blank
    /\ ph.p = "TrailerCr" => q.w = "trailer" /\ q.cr /\ (q.blank <=> ph.flag)
    /\ ph.p = "Done" <=> q.w = "over"
    /\ q.w # "overrun"

\* What every read leaves behind, the inductive invariant of EndsAgree.
ChunkedInv ==
    /\ peerKind \in PeerKinds
    /\ InStep(phase, peer)
    /\ decoded = peerGot

\* shift_hex refuses exactly the digit that would push another out of the
\* integer, so a size it accepts is the one the peer computes, wrapped or wider.
LEMMA SizesFit ==
    ASSUME ChunkedAssumption, NEW h \in Nat, NEW d \in Digit, h \div SizeTop = 0, peerKind \in PeerKinds
    PROVE  h * SizeBase + d \in Sizes /\ (h * SizeBase + d) % PeerMax = h * SizeBase + d
<1> USE DEF ChunkedAssumption
<1>1. h < SizeTop
    OBVIOUS
<1>2. SizeTop \in Nat /\ SizeBase \in Nat /\ SizeBase >= 2 /\ d \in Nat /\ d < SizeBase
    BY DEF Digit
<1>3. h * SizeBase + d < SizeBase * SizeTop
  <2>1. (h + 1) * SizeBase <= SizeTop * SizeBase
      BY <1>1, <1>2
  <2>2. (h + 1) * SizeBase = h * SizeBase + SizeBase
      BY <1>2
  <2>3. SizeTop * SizeBase = SizeBase * SizeTop
      BY <1>2
  <2>4. h * SizeBase \in Nat /\ SizeBase * SizeTop \in Nat
      BY <1>2
  <2> QED  BY <1>2, <2>1, <2>2, <2>3, <2>4
<1>4. h * SizeBase + d \in Nat /\ SizeBase * SizeTop \in Nat
    BY <1>2
<1>5. SizeBase * SizeTop <= SizeBase * (SizeBase * SizeTop) /\ SizeBase * (SizeBase * SizeTop) \in Nat
  <2> DEFINE w == SizeBase * SizeTop
  <2>1. w \in Nat
      BY <1>4
  <2> HIDE DEF w
  <2>2. w <= SizeBase * w /\ SizeBase * w \in Nat
      BY <2>1, <1>2
  <2> QED  BY <2>2 DEF w
<1>6. PeerMax \in Nat /\ SizeLimit <= PeerMax /\ SizeLimit \in Nat /\ h * SizeBase + d < SizeLimit
    BY <1>3, <1>4, <1>5 DEF PeerMax, SizeLimit
<1> DEFINE v == h * SizeBase + d
<1>7. v \in Nat /\ v < SizeLimit
    BY <1>4, <1>6
<1> HIDE DEF v
<1>8. v \in 0 .. SizeLimit - 1 /\ v % PeerMax = v
    BY <1>6, <1>7
<1> QED  BY <1>8 DEF v, Sizes

\* What a byte within a line changes of the peer.
LEMMA WithinFields ==
    ASSUME ChunkedAssumption, peerKind \in PeerKinds, NEW q \in Peers, NEW b \in Byte
    PROVE  /\ Within(q, b) \in Peers
           /\ Within(q, b).w = q.w
           /\ Within(q, b).cr <=> b.c = "cr"
           /\ Within(q, b).blank <=> q.blank /\ b.c = "cr"
           /\ Within(q, b).counting <=> q.counting /\ b.c = "hex"
           /\ q.w = "size" /\ q.counting /\ b.c = "hex" => Within(q, b).n = (q.n * SizeBase + b.n) % PeerMax
           /\ ~(q.w = "size" /\ q.counting /\ b.c = "hex") => Within(q, b).n = q.n
<1>1. PeerMax \in Nat \ {0} /\ SizeBase \in Nat
  <2>1. SizeBase * SizeTop \in Nat \ {0} /\ SizeBase \in Nat \ {0}
      BY DEF ChunkedAssumption
  <2>2. SizeBase * (SizeBase * SizeTop) \in Nat \ {0}
    <3> DEFINE w == SizeBase * SizeTop
    <3>1. w \in Nat \ {0}
        BY <2>1
    <3> HIDE DEF w
    <3>2. SizeBase * w \in Nat \ {0}
        BY <3>1, <2>1
    <3> QED  BY <3>2 DEF w
  <2> QED  BY <2>1, <2>2 DEF PeerMax, SizeLimit
<1>2. b.n \in Nat
    BY DEF Byte, Digit
<1>3. (q.n * SizeBase + b.n) % PeerMax \in Nat
  <2>1. q.n * SizeBase + b.n \in Nat
      BY <1>1, <1>2 DEF Peers
  <2> QED  BY <2>1, <1>1
<1>4. (b.c = "cr") \in BOOLEAN /\ (q.blank /\ b.c = "cr") \in BOOLEAN /\ (q.counting /\ b.c = "hex") \in BOOLEAN
    BY Zenon
<1> DEFINE m == IF q.w = "size" /\ q.counting /\ b.c = "hex" THEN (q.n * SizeBase + b.n) % PeerMax ELSE q.n
<1>5. m \in Nat
    BY <1>3 DEF Peers
<1>6. Within(q, b) = [w |-> q.w, cr |-> b.c = "cr", blank |-> q.blank /\ b.c = "cr",
                      counting |-> q.counting /\ b.c = "hex", n |-> m]
    BY DEF Within
<1>7. (q.w = "size" /\ q.counting /\ b.c = "hex" => m = (q.n * SizeBase + b.n) % PeerMax)
      /\ (~(q.w = "size" /\ q.counting /\ b.c = "hex") => m = q.n)
    OBVIOUS
<1> HIDE DEF m
<1>8. Within(q, b) \in Peers
    BY <1>4, <1>5, <1>6 DEF Peers
<1>9. Within(q, b).w = q.w /\ Within(q, b).n = m
    BY <1>6
<1>10. (Within(q, b).cr <=> b.c = "cr") /\ (Within(q, b).blank <=> q.blank /\ b.c = "cr")
       /\ (Within(q, b).counting <=> q.counting /\ b.c = "hex")
  <2> DEFINE x == b.c = "cr"
             y == q.blank /\ b.c = "cr"
             z == q.counting /\ b.c = "hex"
  <2>1. Within(q, b) = [w |-> q.w, cr |-> x, blank |-> y, counting |-> z, n |-> m]
      BY <1>6, Zenon
  <2> HIDE DEF x, y, z
  <2>2. Within(q, b).cr = x /\ Within(q, b).blank = y /\ Within(q, b).counting = z
      BY <2>1
  <2> QED  BY <2>2, Zenon DEF x, y, z
<1> QED  BY <1>7, <1>8, <1>9, <1>10

\* The phases and positions that are written out.
LEMMA Limit ==
    ASSUME ChunkedAssumption PROVE SizeLimit \in Nat \ {0}
BY DEF ChunkedAssumption, SizeLimit

LEMMA PhaseAt ==
    ASSUME ChunkedAssumption, NEW p \in PhaseNames
    PROVE  At(p) \in Phases /\ At(p).p = p /\ At(p).size = 0 /\ At(p).flag = FALSE
BY Limit DEF At, Phases, Sizes

LEMMA PhaseSized ==
    ASSUME NEW p \in PhaseNames, NEW n \in Sizes
    PROVE  Sized(p, n) \in Phases /\ Sized(p, n).p = p /\ Sized(p, n).size = n
BY DEF At, Sized, Phases

LEMMA PhaseFlagged ==
    ASSUME ChunkedAssumption, NEW p \in PhaseNames, NEW f \in BOOLEAN
    PROVE  Flagged(p, f) \in Phases /\ Flagged(p, f).p = p /\ Flagged(p, f).flag = f
BY Limit DEF At, Flagged, Phases, Sizes

LEMMA PeerPlaced ==
    ASSUME NEW w \in {"size", "data", "gap", "trailer", "over", "overrun"}
    PROVE  /\ PeerAt(w) \in Peers /\ PeerAt(w).w = w /\ PeerAt(w).n = 0
           /\ ~PeerAt(w).cr /\ PeerAt(w).blank /\ PeerAt(w).counting
           /\ \A n \in Nat : [PeerAt(w) EXCEPT !.n = n] \in Peers /\ [PeerAt(w) EXCEPT !.n = n].w = w
                             /\ [PeerAt(w) EXCEPT !.n = n].n = n
BY DEF PeerAt, Peers

\* In a line, the peer takes a byte as Within says unless the line ends there.
LEMMA PeerLine ==
    ASSUME NEW q \in Peers, NEW b \in Byte, q.w \in {"size", "gap", "trailer"}
    PROVE  /\ b.c # "lf" => PeerStep(q, b) = Within(q, b)
           /\ b.c = "lf" /\ q.cr /\ q.w = "size" =>
                PeerStep(q, b) = IF q.n = 0 THEN PeerAt("trailer") ELSE [PeerAt("data") EXCEPT !.n = q.n]
           /\ b.c = "lf" /\ q.cr /\ q.w = "gap" => PeerStep(q, b) = PeerAt("size")
           /\ b.c = "lf" /\ q.cr /\ q.w = "trailer" =>
                PeerStep(q, b) = IF q.blank THEN PeerAt("over") ELSE PeerAt("trailer")
<1>1. b.c # "lf" => ~LineEnds(q, b)
    BY DEF LineEnds
<1>2. b.c = "lf" /\ q.cr => LineEnds(q, b)
    BY DEF LineEnds
<1> QED  BY <1>1, <1>2 DEF PeerStep

\* The digits of a size: the peer, wrapping or wide, has the same one.
LEMMA SizeInStep ==
    ASSUME ChunkedAssumption, peerKind \in PeerKinds, NEW ph, NEW q, InStep(ph, q), NEW b \in Byte,
           ph.p = "Size", InSize(ph, b) # Broken
    PROVE  InStep(InSize(ph, b), PeerStep(q, b))
<1>1. ph \in Phases /\ q \in Peers /\ q.w = "size" /\ q.n = ph.size /\ ~q.cr /\ q.counting
      /\ ph.size \in Sizes /\ ph.flag \in BOOLEAN
    BY DEF InStep, Phases
<1>2. SizeLimit \in Nat
    BY Limit
<1>3. CASE b.c = "hex"
  <2>1. b.n \in Digit
      BY <1>3 DEF Byte
  <2>2. ph.size \div SizeTop = 0 /\ InSize(ph, b) = [Sized("Size", ph.size * SizeBase + b.n) EXCEPT !.flag = TRUE]
      BY <1>3 DEF InSize, ShiftHex
  <2>3. ph.size \in Nat
      BY <1>1, <1>2 DEF Sizes
  <2>4. ph.size * SizeBase + b.n \in Sizes
        /\ (ph.size * SizeBase + b.n) % PeerMax = ph.size * SizeBase + b.n
      BY <2>1, <2>2, <2>3, SizesFit
  <2>5. PeerStep(q, b) = Within(q, b)
      BY <1>1, <1>3, PeerLine
  <2>6. Within(q, b) \in Peers /\ Within(q, b).w = "size" /\ ~Within(q, b).cr /\ Within(q, b).counting
        /\ Within(q, b).n = ph.size * SizeBase + b.n
      BY <1>1, <1>3, <2>4, WithinFields
  <2> DEFINE v == ph.size * SizeBase + b.n
  <2>7. InSize(ph, b) \in Phases /\ InSize(ph, b).p = "Size" /\ InSize(ph, b).size = v
    <3>1. "Size" \in PhaseNames /\ v \in Sizes /\ InSize(ph, b) = [Sized("Size", v) EXCEPT !.flag = TRUE]
        BY <2>2, <2>4 DEF PhaseNames
    <3> HIDE DEF v
    <3> QED  BY <3>1 DEF Sized, At, Phases
  <2> QED  BY <2>5, <2>6, <2>7 DEF InStep
<1>4. CASE b.c # "hex"
  <2>1. \/ b.c = "semi" /\ InSize(ph, b) = Sized("SizeExt", ph.size)
        \/ b.c = "cr" /\ InSize(ph, b) = Sized("SizeCrlf", ph.size)
      BY <1>4 DEF InSize
  <2>2. PeerStep(q, b) = Within(q, b)
      BY <1>1, <2>1, PeerLine
  <2>3. Within(q, b) \in Peers /\ Within(q, b).w = "size" /\ Within(q, b).n = ph.size
        /\ (Within(q, b).cr <=> b.c = "cr") /\ ~Within(q, b).counting
      BY <1>1, <1>4, WithinFields
  <2>4. Sized("SizeExt", ph.size) \in Phases /\ Sized("SizeExt", ph.size).p = "SizeExt" /\ Sized("SizeExt", ph.size).size = ph.size
      BY <1>1, PhaseSized DEF PhaseNames
  <2>5. Sized("SizeCrlf", ph.size) \in Phases /\ Sized("SizeCrlf", ph.size).p = "SizeCrlf" /\ Sized("SizeCrlf", ph.size).size = ph.size
      BY <1>1, PhaseSized DEF PhaseNames
  <2>6. CASE b.c = "semi"
      BY <2>1, <2>2, <2>3, <2>4, <2>6 DEF InStep
  <2>7. CASE b.c = "cr"
      BY <2>1, <2>2, <2>3, <2>5, <2>7 DEF InStep
  <2> QED  BY <2>1, <2>6, <2>7
<1> QED  BY <1>3, <1>4

\* The rest of the size's line, and its end.
LEMMA SizeExtInStep ==
    ASSUME ChunkedAssumption, peerKind \in PeerKinds, NEW ph, NEW q, InStep(ph, q), NEW b \in Byte,
           ph.p = "SizeExt", InSizeExt(ph, b) # Broken
    PROVE  InStep(InSizeExt(ph, b), PeerStep(q, b))
<1>1. ph \in Phases /\ q \in Peers /\ q.w = "size" /\ q.n = ph.size /\ ~q.cr /\ ~q.counting
      /\ ph.size \in Sizes
    BY DEF InStep, Phases
<1>2. \/ b.c = "cr" /\ InSizeExt(ph, b) = Sized("SizeCrlf", ph.size)
      \/ b.c \in FieldValue /\ InSizeExt(ph, b) = ph
    BY DEF InSizeExt
<1>3. b.c # "lf" /\ (b.c \in FieldValue => b.c # "cr")
    BY <1>2 DEF FieldValue
<1>4. PeerStep(q, b) = Within(q, b)
    BY <1>1, <1>3, PeerLine
<1>5. Within(q, b) \in Peers /\ Within(q, b).w = "size" /\ Within(q, b).n = ph.size
      /\ (Within(q, b).cr <=> b.c = "cr") /\ ~Within(q, b).counting
    BY <1>1, WithinFields
<1>6. Sized("SizeCrlf", ph.size) \in Phases /\ Sized("SizeCrlf", ph.size).p = "SizeCrlf" /\ Sized("SizeCrlf", ph.size).size = ph.size
    BY <1>1, PhaseSized DEF PhaseNames
<1>7. CASE b.c = "cr"
    BY <1>2, <1>3, <1>4, <1>5, <1>6, <1>7 DEF InStep
<1>8. CASE b.c # "cr"
    BY <1>1, <1>2, <1>4, <1>5, <1>8 DEF InStep
<1> QED  BY <1>7, <1>8

LEMMA SizeCrlfInStep ==
    ASSUME ChunkedAssumption, peerKind \in PeerKinds, NEW ph, NEW q, InStep(ph, q), NEW b \in Byte,
           ph.p = "SizeCrlf", AfterSizeCr(ph, b) # Broken
    PROVE  InStep(AfterSizeCr(ph, b), PeerStep(q, b))
<1>1. ph \in Phases /\ q \in Peers /\ q.w = "size" /\ q.n = ph.size /\ q.cr /\ ph.size \in Sizes
    BY DEF InStep, Phases
<1>2. b.c = "lf" /\ AfterSizeCr(ph, b) = IF ph.size = 0 THEN At("TrailerLineStart") ELSE Sized("Data", ph.size)
    BY DEF AfterSizeCr
<1>3. PeerStep(q, b) = IF ph.size = 0 THEN PeerAt("trailer") ELSE [PeerAt("data") EXCEPT !.n = ph.size]
    BY <1>1, <1>2, PeerLine
<1>4. CASE ph.size = 0
  <2>1. At("TrailerLineStart") \in Phases /\ At("TrailerLineStart").p = "TrailerLineStart"
      BY PhaseAt DEF PhaseNames
  <2>2. PeerAt("trailer") \in Peers /\ PeerAt("trailer").w = "trailer" /\ ~PeerAt("trailer").cr /\ PeerAt("trailer").blank
      BY PeerPlaced
  <2> QED  BY <1>2, <1>3, <1>4, <2>1, <2>2 DEF InStep
<1>5. CASE ph.size # 0
  <2>1. Sized("Data", ph.size) \in Phases /\ Sized("Data", ph.size).p = "Data" /\ Sized("Data", ph.size).size = ph.size
      BY <1>1, PhaseSized DEF PhaseNames
  <2>2. ph.size \in Nat /\ ph.size > 0
      BY <1>1, <1>5, Limit DEF Sizes
  <2> DEFINE d == [PeerAt("data") EXCEPT !.n = ph.size]
  <2>3. d \in Peers /\ d.w = "data" /\ d.n = ph.size
      BY <2>2, PeerPlaced
  <2>4. PeerStep(q, b) = d /\ AfterSizeCr(ph, b) = Sized("Data", ph.size)
      BY <1>2, <1>3, <1>5
  <2> HIDE DEF d
  <2> QED  BY <2>1, <2>2, <2>3, <2>4 DEF InStep
<1> QED  BY <1>4, <1>5

\* The CRLF behind a chunk's payload.
LEMMA DataCrlfInStep ==
    ASSUME ChunkedAssumption, peerKind \in PeerKinds, NEW ph, NEW q, InStep(ph, q), NEW b \in Byte,
           ph.p = "DataCrlf", InDataCrlf(ph, b) # Broken
    PROVE  InStep(InDataCrlf(ph, b), PeerStep(q, b))
<1>1. ph \in Phases /\ q \in Peers /\ q.w = "gap" /\ (q.cr <=> ph.flag)
    BY DEF InStep
<1>2. \/ b.c = "cr" /\ InDataCrlf(ph, b) = Flagged("DataCrlf", TRUE)
      \/ b.c = "lf" /\ ph.flag /\ InDataCrlf(ph, b) = At("Size")
    BY DEF InDataCrlf
<1>3. CASE b.c = "cr"
  <2>1. PeerStep(q, b) = Within(q, b) /\ Within(q, b) \in Peers /\ Within(q, b).w = "gap" /\ Within(q, b).cr
      BY <1>1, <1>3, PeerLine, WithinFields
  <2>2. Flagged("DataCrlf", TRUE) \in Phases /\ Flagged("DataCrlf", TRUE).p = "DataCrlf" /\ Flagged("DataCrlf", TRUE).flag = TRUE
      BY PhaseFlagged DEF PhaseNames
  <2> QED  BY <1>2, <1>3, <2>1, <2>2 DEF InStep
<1>4. CASE b.c = "lf"
  <2>1. PeerStep(q, b) = PeerAt("size") /\ InDataCrlf(ph, b) = At("Size")
      BY <1>1, <1>2, <1>4, PeerLine
  <2>2. At("Size") \in Phases /\ At("Size").p = "Size" /\ At("Size").size = 0
      BY PhaseAt DEF PhaseNames
  <2>3. PeerAt("size") \in Peers /\ PeerAt("size").w = "size" /\ PeerAt("size").n = 0
        /\ ~PeerAt("size").cr /\ PeerAt("size").counting
      BY PeerPlaced
  <2> QED  BY <2>1, <2>2, <2>3 DEF InStep
<1> QED  BY <1>2, <1>3, <1>4

\* The trailer lines, and the blank one that ends the body.
LEMMA TrailerInStep ==
    ASSUME ChunkedAssumption, peerKind \in PeerKinds, NEW ph, NEW q, InStep(ph, q), NEW b \in Byte,
           ph.p \in {"TrailerLineStart", "TrailerLine", "TrailerCr"}, Step(ph, b) # Broken
    PROVE  InStep(Step(ph, b), PeerStep(q, b))
<1>1. ph \in Phases /\ q \in Peers /\ q.w = "trailer" /\ ph.flag \in BOOLEAN
    BY DEF InStep, Phases
<1> USE PhaseAt, PhaseFlagged, PeerPlaced DEF PhaseNames
<1>2. ASSUME b.c # "lf"
      PROVE  PeerStep(q, b) \in Peers /\ PeerStep(q, b).w = "trailer" /\ (PeerStep(q, b).cr <=> b.c = "cr")
             /\ (PeerStep(q, b).blank <=> q.blank /\ b.c = "cr")
    BY <1>1, <1>2, PeerLine, WithinFields
<1>3. CASE ph.p = "TrailerLineStart"
  <2>0. q.blank /\ Step(ph, b) = AtTrailerLineStart(b)
      BY <1>3 DEF InStep, Step
  <2>1. \/ b.c = "cr" /\ Step(ph, b) = Flagged("TrailerCr", TRUE)
        \/ b.c \in FieldValue /\ Step(ph, b) = Flagged("TrailerLine", FALSE)
      BY <2>0, Zenon DEF AtTrailerLineStart
  <2>2. b.c # "lf" /\ (b.c \in FieldValue => b.c # "cr")
      BY <2>1 DEF FieldValue
  <2> QED  BY <1>2, <2>0, <2>1, <2>2 DEF InStep
<1>4. CASE ph.p = "TrailerLine"
  <2> DEFINE f == ph.flag \/ b.c = "colon"
  <2>1. ~q.blank /\ f \in BOOLEAN
      BY <1>4 DEF InStep
  <2>2. \/ b.c = "cr" /\ Step(ph, b) = Flagged("TrailerCr", FALSE)
        \/ b.c \in FieldValue /\ Step(ph, b) = Flagged("TrailerLine", f)
    <3>1. Step(ph, b) = InTrailerLine(ph, b)
        BY <1>4 DEF Step
    <3> QED  BY <3>1, Zenon DEF InTrailerLine
  <2>3. b.c # "lf" /\ (b.c \in FieldValue => b.c # "cr")
      BY <2>2 DEF FieldValue
  <2> HIDE DEF f
  <2>4. CASE b.c = "cr"
      BY <1>2, <2>1, <2>2, <2>3, <2>4 DEF InStep
  <2>5. CASE b.c # "cr"
    <3>1. Step(ph, b) \in Phases /\ Step(ph, b).p = "TrailerLine"
      <4>1. "TrailerLine" \in PhaseNames /\ Step(ph, b) = Flagged("TrailerLine", f)
          BY <2>2, <2>5
      <4>2. Flagged("TrailerLine", f) \in Phases /\ Flagged("TrailerLine", f).p = "TrailerLine"
          BY <2>1, <4>1, PhaseFlagged, Zenon
      <4> QED  BY <4>1, <4>2
    <3> QED  BY <1>2, <2>1, <2>3, <2>5, <3>1 DEF InStep
  <2> QED  BY <2>4, <2>5
<1>5. CASE ph.p = "TrailerCr"
  <2>1. b.c = "lf" /\ Step(ph, b) = IF ph.flag THEN At("Done") ELSE At("TrailerLineStart")
      BY <1>5 DEF Step, AfterTrailerCr
  <2>2. q.cr /\ (q.blank <=> ph.flag)
      BY <1>5 DEF InStep
  <2>3. PeerStep(q, b) = IF q.blank THEN PeerAt("over") ELSE PeerAt("trailer")
      BY <1>1, <2>1, <2>2, PeerLine
  <2>4. CASE ph.flag
    <3>1. Step(ph, b) = At("Done") /\ PeerStep(q, b) = PeerAt("over")
        BY <2>1, <2>2, <2>3, <2>4
    <3> QED  BY <3>1 DEF InStep
  <2>5. CASE ~ph.flag
    <3>1. Step(ph, b) = At("TrailerLineStart") /\ PeerStep(q, b) = PeerAt("trailer")
        BY <2>1, <2>2, <2>3, <2>5
    <3> QED  BY <3>1 DEF InStep
  <2> QED  BY <2>4, <2>5
<1> QED  BY <1>3, <1>4, <1>5

\* A byte that breaks nothing moves both alike, and is no payload to either;
\* one that breaks the framing reaches only the observer.
LEMMA ByteInStep ==
    ASSUME ChunkedAssumption, peerKind \in PeerKinds, NEW ph, NEW q, InStep(ph, q), NEW b \in Byte,
           ph.p \notin {"Data", "Done", "Broken"}
    PROVE  /\ Step(ph, b) # Broken => InStep(Step(ph, b), PeerStep(q, b))
           /\ InStep(Broken, q)
           /\ q.w # "data"
<1>1. ph.p \in PhaseNames
    BY DEF InStep, Phases
<1>2. InStep(Broken, q)
  <2>1. Broken \in Phases /\ Broken.p = "Broken"
      BY PhaseAt DEF Broken, PhaseNames
  <2> QED  BY <2>1 DEF InStep
<1>3. q.w # "data"
    BY <1>1 DEF InStep, PhaseNames
<1>4. ASSUME Step(ph, b) # Broken PROVE InStep(Step(ph, b), PeerStep(q, b))
  <2>1. CASE ph.p = "Size"
    <3>1. Step(ph, b) = InSize(ph, b)
        BY <2>1 DEF Step
    <3> QED  BY <1>4, <2>1, <3>1, SizeInStep
  <2>2. CASE ph.p = "SizeExt"
    <3>1. Step(ph, b) = InSizeExt(ph, b)
        BY <2>2 DEF Step
    <3> QED  BY <1>4, <2>2, <3>1, SizeExtInStep
  <2>3. CASE ph.p = "SizeCrlf"
    <3>1. Step(ph, b) = AfterSizeCr(ph, b)
        BY <2>3 DEF Step
    <3> QED  BY <1>4, <2>3, <3>1, SizeCrlfInStep
  <2>4. CASE ph.p = "DataCrlf"
    <3>1. Step(ph, b) = InDataCrlf(ph, b)
        BY <2>4 DEF Step
    <3> QED  BY <1>4, <2>4, <3>1, DataCrlfInStep
  <2>5. CASE ph.p \in {"TrailerLineStart", "TrailerLine", "TrailerCr"}
      BY <1>4, <2>5, TrailerInStep
  <2> QED  BY <1>1, <2>1, <2>2, <2>3, <2>4, <2>5 DEF PhaseNames
<1> QED  BY <1>2, <1>3, <1>4

\* f is k turns of advance's loop.
IsTurns(f, ph, bytes, k) ==
    f = [n \in 0 .. k |-> IF n = 0 THEN [i |-> 0, ph |-> ph, out |-> <<>>] ELSE Iteration(f[n - 1], bytes)]

\* The turns of advance exist, by induction on how many there are.
LEMMA TurnsExist ==
    ASSUME NEW ph, NEW bytes, NEW L \in Nat
    PROVE  \E f : IsTurns(f, ph, bytes, L)
<1> DEFINE Upto(k) == \E f : f = [n \in 0 .. k |-> IF n = 0 THEN [i |-> 0, ph |-> ph, out |-> <<>>] ELSE Iteration(f[n - 1], bytes)]
           B == {k \in 0 .. L : ~Upto(k)}
<1>1. Upto(0)
  <2> DEFINE f == [n \in 0 .. 0 |-> [i |-> 0, ph |-> ph, out |-> <<>>]]
  <2>1. f = [n \in 0 .. 0 |-> IF n = 0 THEN [i |-> 0, ph |-> ph, out |-> <<>>] ELSE Iteration(f[n - 1], bytes)]
      OBVIOUS
  <2> HIDE DEF f
  <2> QED  BY <2>1
<1>2. ASSUME NEW k \in 0 .. L, Upto(k) PROVE Upto(k + 1)
  <2>1. PICK f : f = [n \in 0 .. k |-> IF n = 0 THEN [i |-> 0, ph |-> ph, out |-> <<>>] ELSE Iteration(f[n - 1], bytes)]
      BY <1>2
  <2> DEFINE m == k + 1
             g == [n \in 0 .. m |-> IF n = m THEN Iteration(f[k], bytes) ELSE f[n]]
  <2>2. ASSUME NEW n \in 0 .. m PROVE g[n] = IF n = 0 THEN [i |-> 0, ph |-> ph, out |-> <<>>] ELSE Iteration(g[n - 1], bytes)
    <3>1. CASE n = m
      <4>1. n # 0 /\ n - 1 = k /\ n - 1 \in 0 .. m /\ n - 1 # m
          BY <3>1
      <4>2. g[n - 1] = f[n - 1] /\ g[n] = Iteration(f[k], bytes)
          BY <3>1, <4>1
      <4> HIDE DEF g
      <4> QED  BY <3>1, <4>1, <4>2
    <3>2. CASE n # m
      <4>1. n \in 0 .. k /\ g[n] = f[n] /\ (n # 0 => n - 1 \in 0 .. m /\ n - 1 # m)
          BY <3>2
      <4>2. n # 0 => g[n - 1] = f[n - 1]
          BY <4>1
      <4>3. f[n] = IF n = 0 THEN [i |-> 0, ph |-> ph, out |-> <<>>] ELSE Iteration(f[n - 1], bytes)
        <5> HIDE DEF g, m
        <5> QED  BY <2>1, <4>1, Zenon
      <4> HIDE DEF g
      <4> QED  BY <4>1, <4>2, <4>3
    <3> QED  BY <3>1, <3>2
  <2>3. g = [n \in 0 .. m |-> IF n = 0 THEN [i |-> 0, ph |-> ph, out |-> <<>>] ELSE Iteration(g[n - 1], bytes)]
    <3>1. g = [n \in 0 .. m |-> g[n]]
        OBVIOUS
    <3> HIDE DEF g
    <3> QED  BY <2>2, <3>1
  <2> HIDE DEF g
  <2> QED  BY <2>3
<1>3. B = {}
  <2> SUFFICES ASSUME B # {} PROVE FALSE
      OBVIOUS
  <2>1. PICK k \in B : \A j \in B : k <= j
    <3>1. B \in SUBSET Nat
        OBVIOUS
    <3> HIDE DEF B
    <3> QED  BY <3>1, Least
  <2> HIDE DEF Upto
  <2>2. k # 0
      BY <1>1
  <2>3. k - 1 \in 0 .. L /\ k - 1 < k /\ (k - 1) + 1 = k
      BY <2>1, <2>2
  <2>4. Upto(k - 1)
      BY <2>1, <2>3
  <2>5. Upto((k - 1) + 1)
      BY <1>2, <2>3, <2>4
  <2> QED  BY <2>1, <2>3, <2>5
<1> HIDE DEF Upto
<1>4. Upto(L)
    BY <1>3
<1> QED  BY <1>4 DEF Upto, IsTurns

\* f is where the peer is after each of k bytes.
IsAfter(f, q, bytes, k) ==
    f = [n \in 0 .. k |-> IF n = 0 THEN [q |-> q, got |-> <<>>] ELSE PeerTurn(f[n - 1], bytes[n])]

\* So do the peer's positions.
LEMMA AfterExist ==
    ASSUME NEW q, NEW bytes, NEW L \in Nat
    PROVE  \E f : IsAfter(f, q, bytes, L)
<1> DEFINE Upto(k) == \E f : f = [n \in 0 .. k |-> IF n = 0 THEN [q |-> q, got |-> <<>>] ELSE PeerTurn(f[n - 1], bytes[n])]
           B == {k \in 0 .. L : ~Upto(k)}
<1>1. Upto(0)
  <2> DEFINE f == [n \in 0 .. 0 |-> [q |-> q, got |-> <<>>]]
  <2>1. f = [n \in 0 .. 0 |-> IF n = 0 THEN [q |-> q, got |-> <<>>] ELSE PeerTurn(f[n - 1], bytes[n])]
      OBVIOUS
  <2> HIDE DEF f
  <2> QED  BY <2>1
<1>2. ASSUME NEW k \in 0 .. L, Upto(k) PROVE Upto(k + 1)
  <2>1. PICK f : f = [n \in 0 .. k |-> IF n = 0 THEN [q |-> q, got |-> <<>>] ELSE PeerTurn(f[n - 1], bytes[n])]
      BY <1>2
  <2> DEFINE m == k + 1
             g == [n \in 0 .. m |-> IF n = m THEN PeerTurn(f[k], bytes[m]) ELSE f[n]]
  <2>2. ASSUME NEW n \in 0 .. m PROVE g[n] = IF n = 0 THEN [q |-> q, got |-> <<>>] ELSE PeerTurn(g[n - 1], bytes[n])
    <3>1. CASE n = m
      <4>1. n # 0 /\ n - 1 = k /\ n - 1 \in 0 .. m /\ n - 1 # m
          BY <3>1
      <4>2. g[n - 1] = f[n - 1] /\ g[n] = PeerTurn(f[k], bytes[m])
          BY <3>1, <4>1
      <4> HIDE DEF g
      <4> QED  BY <3>1, <4>1, <4>2
    <3>2. CASE n # m
      <4>1. n \in 0 .. k /\ g[n] = f[n] /\ (n # 0 => n - 1 \in 0 .. m /\ n - 1 # m)
          BY <3>2
      <4>2. n # 0 => g[n - 1] = f[n - 1]
          BY <4>1
      <4>3. f[n] = IF n = 0 THEN [q |-> q, got |-> <<>>] ELSE PeerTurn(f[n - 1], bytes[n])
        <5> HIDE DEF g, m
        <5> QED  BY <2>1, <4>1, Zenon
      <4> HIDE DEF g
      <4> QED  BY <4>1, <4>2, <4>3
    <3> QED  BY <3>1, <3>2
  <2>3. g = [n \in 0 .. m |-> IF n = 0 THEN [q |-> q, got |-> <<>>] ELSE PeerTurn(g[n - 1], bytes[n])]
    <3>1. g = [n \in 0 .. m |-> g[n]]
        OBVIOUS
    <3> HIDE DEF g
    <3> QED  BY <2>2, <3>1
  <2> HIDE DEF g
  <2> QED  BY <2>3
<1>3. B = {}
  <2> SUFFICES ASSUME B # {} PROVE FALSE
      OBVIOUS
  <2>1. PICK k \in B : \A j \in B : k <= j
    <3>1. B \in SUBSET Nat
        OBVIOUS
    <3> HIDE DEF B
    <3> QED  BY <3>1, Least
  <2> HIDE DEF Upto
  <2>2. k # 0
      BY <1>1
  <2>3. k - 1 \in 0 .. L /\ k - 1 < k /\ (k - 1) + 1 = k
      BY <2>1, <2>2
  <2>4. Upto(k - 1)
      BY <2>1, <2>3
  <2>5. Upto((k - 1) + 1)
      BY <1>2, <2>3, <2>4
  <2> QED  BY <2>1, <2>3, <2>5
<1> HIDE DEF Upto
<1>4. Upto(L)
    BY <1>3
<1> QED  BY <1>4 DEF Upto, IsAfter

\* advance runs its turns one after the other.
LEMMA AdvanceTurns ==
    ASSUME NEW ph, NEW bytes, Len(bytes) \in Nat
    PROVE  \E t : /\ t[0] = [i |-> 0, ph |-> ph, out |-> <<>>]
                  /\ \A n \in 1 .. Len(bytes) : t[n] = Iteration(t[n - 1], bytes)
                  /\ Advance(ph, bytes) = t[Len(bytes)]
<1> DEFINE Def(f) == IsTurns(f, ph, bytes, Len(bytes))
           t == CHOOSE f : Def(f)
<1>1. \E f : Def(f)
    BY TurnsExist
<1>2. Def(t)
  <2> HIDE DEF Def
  <2> QED  BY <1>1
<1>3. Advance(ph, bytes) = t[Len(bytes)]
    BY DEF Advance, IsTurns
<1>4. t = [n \in 0 .. Len(bytes) |-> IF n = 0 THEN [i |-> 0, ph |-> ph, out |-> <<>>]
                                     ELSE Iteration(t[n - 1], bytes)]
    BY <1>2 DEF IsTurns
<1> HIDE DEF t
<1>5. \A n \in 0 .. Len(bytes) : t[n] = IF n = 0 THEN [i |-> 0, ph |-> ph, out |-> <<>>]
                                        ELSE Iteration(t[n - 1], bytes)
  <2> TAKE n \in 0 .. Len(bytes)
  <2> QED  BY <1>4, Zenon
<1>6. 0 \in 0 .. Len(bytes) /\ \A n \in 1 .. Len(bytes) : n \in 0 .. Len(bytes) /\ n # 0
    OBVIOUS
<1>7. t[0] = [i |-> 0, ph |-> ph, out |-> <<>>] /\ \A n \in 1 .. Len(bytes) : t[n] = Iteration(t[n - 1], bytes)
    BY <1>5, <1>6
<1> QED  BY <1>3, <1>7

\* The peer takes the bytes one after the other.
LEMMA PeerTurns ==
    ASSUME NEW q, NEW bytes, Len(bytes) \in Nat
    PROVE  /\ PeerTakes(q, bytes)[0] = [q |-> q, got |-> <<>>]
           /\ \A n \in 1 .. Len(bytes) : PeerTakes(q, bytes)[n] = PeerTurn(PeerTakes(q, bytes)[n - 1], bytes[n])
<1> DEFINE Def(f) == IsAfter(f, q, bytes, Len(bytes))
           t == PeerTakes(q, bytes)
<1>1. \E f : Def(f)
    BY AfterExist
<1>2. t = CHOOSE f : Def(f)
    BY DEF PeerTakes, IsAfter
<1>3. Def(t)
  <2> HIDE DEF Def, t
  <2> QED  BY <1>1, <1>2
<1>4. t = [n \in 0 .. Len(bytes) |-> IF n = 0 THEN [q |-> q, got |-> <<>>] ELSE PeerTurn(t[n - 1], bytes[n])]
    BY <1>3 DEF IsAfter
<1> HIDE DEF t
<1>5. \A n \in 0 .. Len(bytes) : t[n] = IF n = 0 THEN [q |-> q, got |-> <<>>] ELSE PeerTurn(t[n - 1], bytes[n])
  <2> TAKE n \in 0 .. Len(bytes)
  <2> QED  BY <1>4, Zenon
<1>6. 0 \in 0 .. Len(bytes) /\ \A n \in 1 .. Len(bytes) : n \in 0 .. Len(bytes) /\ n # 0
    OBVIOUS
<1>7. t[0] = [q |-> q, got |-> <<>>] /\ \A n \in 1 .. Len(bytes) : t[n] = PeerTurn(t[n - 1], bytes[n])
    BY <1>5, <1>6
<1> QED  BY <1>7 DEF t

LEMMA BytesAssociate ==
    \A s, r, e \in Seq(Byte) : (s \o r) \o e = s \o (r \o e)
BY ConcatAssociative

\* Where the peer is k bytes into a run of payload of n.
InRun(a, s, n, k, run) ==
    /\ a.got = s \o run
    /\ k < n => a.q \in Peers /\ a.q.w = "data" /\ a.q.n = n - k
    /\ k = n => a.q = PeerAt("gap")

\* The bytes of a chunk that advance takes in one piece are payload to the
\* peer too, and no more of them.
LEMMA DataRun ==
    ASSUME NEW q, NEW bytes \in Seq(Byte), NEW i \in 0 .. Len(bytes), NEW take \in Nat, i + take <= Len(bytes),
           NEW t, t = PeerTakes(q, bytes), NEW s \in Seq(Byte), NEW n \in Nat, n > 0, take <= n,
           InRun(t[i], s, n, 0, <<>>)
    PROVE  InRun(t[i + take], s, n, take, SubSeq(bytes, i + 1, i + take))
<1> DEFINE Run(k) == InRun(t[i + k], s, n, k, SubSeq(bytes, i + 1, i + k))
           B == {k \in 0 .. take : ~Run(k)}
<1>0. Len(bytes) \in Nat /\ \A m \in 1 .. Len(bytes) : t[m] = PeerTurn(t[m - 1], bytes[m])
  <2>1. Len(bytes) \in Nat
      OBVIOUS
  <2> QED  BY <2>1, PeerTurns
<1>1. Run(0)
  <2>1. i + 0 = i /\ SubSeq(bytes, i + 1, i + 0) = <<>>
      OBVIOUS
  <2> QED  BY <2>1
<1>2. ASSUME NEW k \in 0 .. take, k < take, Run(k) PROVE Run(k + 1)
  <2> DEFINE m == i + k + 1
             a == t[i + k]
             r == SubSeq(bytes, i + 1, i + k)
             b == bytes[m]
  <2>1. m \in 1 .. Len(bytes) /\ m - 1 = i + k /\ m = i + (k + 1) /\ b \in Byte /\ k < n /\ k \in Nat
      BY <1>0, <1>2
  <2>2. t[m] = PeerTurn(a, b)
      BY <1>0, <2>1
  <2>3. a.got = s \o r /\ a.q \in Peers /\ a.q.w = "data" /\ a.q.n = n - k
      BY <1>2, <2>1 DEF InRun
  <2>4. Append(s \o r, b) = s \o SubSeq(bytes, i + 1, m)
    <3> DEFINE w == SubSeq(bytes, i + 1, m)
               e == <<b>>
    <3>1. r \in Seq(Byte) /\ e \in Seq(Byte)
        BY <1>0, <2>1
    <3>2. w = r \o e
      <4>1. i + 1 \in 1 .. Len(bytes) /\ m \in i + 1 .. Len(bytes) /\ m - 1 = i + k
          BY <1>0, <2>1
      <4>2. SubSeq(bytes, i + 1, m) = SubSeq(bytes, i + 1, m - 1) \o <<bytes[m]>>
        <5> HIDE DEF m
        <5> QED  BY <4>1, SubSeqRecursiveSecond
      <4> QED  BY <4>1, <4>2
    <3>3. b \in Byte /\ s \o r \in Seq(Byte)
        BY <2>1, <3>1
    <3> HIDE DEF m, r, b, w
    <3>4. Append(s \o r, b) = (s \o r) \o e
        BY <3>3, AppendIsConcat
    <3> HIDE DEF e
    <3>5. (s \o r) \o e = s \o (r \o e)
        BY <3>1, BytesAssociate, Zenon
    <3> QED  BY <3>2, <3>4, <3>5, Zenon DEF w
  <2> HIDE DEF a, r, b, m
  <2>5. t[m].got = s \o SubSeq(bytes, i + 1, m) /\ t[m].q = PeerStep(a.q, b)
    <3>1. t[m] = [q |-> PeerStep(a.q, b), got |-> Append(a.got, b)]
        BY <2>2, <2>3 DEF PeerTurn
    <3>2. t[m].q = PeerStep(a.q, b) /\ t[m].got = Append(a.got, b)
        BY <3>1
    <3> QED  BY <2>3, <2>4, <3>2, Zenon
  <2>6. PeerStep(a.q, b) = IF a.q.n = 1 THEN PeerAt("gap") ELSE [a.q EXCEPT !.n = a.q.n - 1]
      BY <2>3 DEF PeerStep
  <2>7. CASE k + 1 = n
    <3>1. t[m].q = PeerAt("gap")
        BY <2>1, <2>3, <2>5, <2>6, <2>7
    <3> QED  BY <2>1, <2>5, <2>7, <3>1 DEF InRun
  <2>8. CASE k + 1 < n
    <3>1. t[m].q = [a.q EXCEPT !.n = a.q.n - 1] /\ a.q.n - 1 = n - (k + 1) /\ n - (k + 1) \in Nat
      <4>1. a.q.n # 1 /\ a.q.n - 1 = n - (k + 1) /\ n - (k + 1) \in Nat
          BY <2>1, <2>3, <2>8
      <4> QED  BY <2>5, <2>6, <4>1
    <3>2. t[m].q \in Peers /\ t[m].q.w = "data" /\ t[m].q.n = n - (k + 1)
      <4> DEFINE e == a.q
                 v == n - (k + 1)
      <4>1. e \in Peers /\ e.w = "data" /\ v \in Nat /\ t[m].q = [e EXCEPT !.n = v]
          BY <2>3, <3>1
      <4> HIDE DEF e, v
      <4>2. t[m].q \in Peers /\ t[m].q.w = "data" /\ t[m].q.n = v
          BY <4>1 DEF Peers
      <4> QED  BY <4>2 DEF v
    <3> QED  BY <2>1, <2>5, <2>8, <3>2 DEF InRun
  <2> QED  BY <2>1, <2>7, <2>8
<1>3. B = {}
  <2> SUFFICES ASSUME B # {} PROVE FALSE
      OBVIOUS
  <2>1. PICK k \in B : \A j \in B : k <= j
    <3>1. B \in SUBSET Nat
        OBVIOUS
    <3> HIDE DEF B
    <3> QED  BY <3>1, Least
  <2> HIDE DEF Run
  <2>2. k # 0
      BY <1>1
  <2>3. k - 1 \in 0 .. take /\ k - 1 < take /\ k - 1 < k /\ (k - 1) + 1 = k
      BY <2>1, <2>2
  <2>4. Run(k - 1)
      BY <2>1, <2>3
  <2>5. Run((k - 1) + 1)
      BY <1>2, <2>3, <2>4
  <2> QED  BY <2>1, <2>3, <2>5
<1> HIDE DEF Run
<1>4. Run(take)
    BY <1>3
<1> QED  BY <1>4 DEF Run

\* After a turn of advance, the peer that was given what it took is in step.
Aligned(s, t, bytes) ==
    /\ s \in [i : 0 .. Len(bytes), ph : Phases, out : Seq(Byte)]
    /\ InStep(s.ph, t[s.i].q)
    /\ s.out = t[s.i].got

LEMMA DataAligned ==
    ASSUME ChunkedAssumption, peerKind \in PeerKinds, NEW q, NEW bytes \in Seq(Byte),
           NEW t, t = PeerTakes(q, bytes), NEW s, Aligned(s, t, bytes), s.i # Len(bytes), s.ph.p = "Data"
    PROVE  Aligned(SkipData(s, bytes), t, bytes)
<1> DEFINE L    == Len(bytes)
           i    == s.i
           size == s.ph.size
           take == IF size < L - i THEN size ELSE L - i
           run  == SubSeq(bytes, i + 1, i + take)
           a    == t[i]
<1>1. L \in Nat /\ i \in 0 .. L /\ i < L /\ s.out \in Seq(Byte) /\ s.out = a.got
    BY DEF Aligned
<1>2. a.q \in Peers /\ a.q.w = "data" /\ a.q.n = size /\ size > 0 /\ size \in Sizes
    BY DEF Aligned, InStep, Phases
<1>3. size \in Nat
    BY <1>2, Limit DEF Sizes
<1>4. take \in Nat /\ i + take <= L /\ take <= size /\ i + take \in 0 .. L /\ take > 0
    BY <1>1, <1>2, <1>3
<1>5. a.got = s.out \o <<>>
    BY <1>1, ConcatEmptySeq
<1>6. InRun(a, s.out, size, 0, <<>>)
    BY <1>2, <1>3, <1>5 DEF InRun
<1>7. InRun(t[i + take], s.out, size, take, run)
  <2> HIDE DEF L, i, size, take, a
  <2>1. L = Len(bytes) /\ a = t[i]
      BY DEF L, a
  <2> QED  BY <1>1, <1>2, <1>3, <1>4, <1>6, <2>1, DataRun
<1> DEFINE r == SkipData(s, bytes)
<1>8. r = [i |-> i + take, out |-> s.out \o run,
           ph |-> IF take = size THEN Flagged("DataCrlf", FALSE) ELSE Sized("Data", size - take)]
    BY DEF SkipData
<1>9. run \in Seq(Byte)
    BY <1>1, <1>4
<1>10. s.out \o run \in Seq(Byte)
  <2> HIDE DEF run
  <2> QED  BY <1>1, <1>9, ConcatProperties
<1> HIDE DEF r, run, take, a, i, size, L
<1>11. r.i = i + take /\ r.out = t[r.i].got /\ r.out \in Seq(Byte)
    BY <1>7, <1>8, <1>10 DEF InRun
<1>12. CASE take = size
  <2>1. r.ph = Flagged("DataCrlf", FALSE) /\ t[r.i].q = PeerAt("gap")
      BY <1>7, <1>8, <1>11, <1>12 DEF InRun
  <2>2. Flagged("DataCrlf", FALSE) \in Phases /\ Flagged("DataCrlf", FALSE).p = "DataCrlf" /\ Flagged("DataCrlf", FALSE).flag = FALSE
      BY PhaseFlagged DEF PhaseNames
  <2>3. PeerAt("gap") \in Peers /\ PeerAt("gap").w = "gap" /\ ~PeerAt("gap").cr
      BY PeerPlaced
  <2>4. InStep(r.ph, t[r.i].q) /\ r.ph \in Phases
      BY <2>1, <2>2, <2>3 DEF InStep
  <2>5. r \in [i : 0 .. L, ph : Phases, out : Seq(Byte)]
    <3>1. r = [i |-> r.i, out |-> r.out, ph |-> r.ph]
        BY <1>8
    <3> QED  BY <1>4, <1>11, <2>4, <3>1
  <2> QED  BY <1>11, <2>4, <2>5 DEF Aligned, r, L
<1>13. CASE take # size
  <2>1. take < size /\ size - take \in Sizes /\ size - take > 0
      BY <1>2, <1>3, <1>4, <1>13, Limit DEF Sizes
  <2>2. r.ph = Sized("Data", size - take) /\ t[r.i].q \in Peers /\ t[r.i].q.w = "data" /\ t[r.i].q.n = size - take
      BY <1>7, <1>8, <1>11, <1>13, <2>1 DEF InRun
  <2> DEFINE d == size - take
  <2>3. Sized("Data", d) \in Phases /\ Sized("Data", d).p = "Data" /\ Sized("Data", d).size = d
    <3>1. "Data" \in PhaseNames /\ d \in Sizes
        BY <2>1 DEF PhaseNames
    <3> HIDE DEF d
    <3> QED  BY <3>1, PhaseSized
  <2>4. InStep(r.ph, t[r.i].q) /\ r.ph \in Phases
    <3>1. r.ph = Sized("Data", d) /\ t[r.i].q.n = d /\ d > 0
        BY <2>1, <2>2
    <3> HIDE DEF d
    <3> QED  BY <2>2, <2>3, <3>1 DEF InStep
  <2>5. r \in [i : 0 .. L, ph : Phases, out : Seq(Byte)]
    <3>1. r = [i |-> r.i, out |-> r.out, ph |-> r.ph]
        BY <1>8
    <3> QED  BY <1>4, <1>11, <2>4, <3>1
  <2> QED  BY <1>11, <2>4, <2>5 DEF Aligned, r, L
<1> QED  BY <1>12, <1>13

LEMMA TurnAligned ==
    ASSUME ChunkedAssumption, peerKind \in PeerKinds, NEW q, NEW bytes \in Seq(Byte),
           NEW t, t = PeerTakes(q, bytes), NEW s, Aligned(s, t, bytes)
    PROVE  Aligned(Iteration(s, bytes), t, bytes)
<1>1. CASE s.i = Len(bytes) \/ s.ph.p \in {"Done", "Broken"}
  <2>1. Iteration(s, bytes) = s
      BY <1>1 DEF Iteration
  <2> QED  BY <2>1
<1>2. CASE s.i # Len(bytes) /\ s.ph.p = "Data"
  <2>1. Iteration(s, bytes) = SkipData(s, bytes)
      BY <1>2 DEF Iteration
  <2> QED  BY <1>2, <2>1, DataAligned
<1>3. CASE s.i # Len(bytes) /\ s.ph.p \notin {"Data", "Done", "Broken"}
  <2> DEFINE m == s.i + 1
             b == bytes[m]
             p == Step(s.ph, b)
             r == Iteration(s, bytes)
             a == t[s.i]
  <2>1. s \in [i : 0 .. Len(bytes), ph : Phases, out : Seq(Byte)] /\ InStep(s.ph, a.q) /\ s.out = a.got
      BY DEF Aligned
  <2>2. m \in 1 .. Len(bytes) /\ m - 1 = s.i /\ Len(bytes) \in Nat /\ b \in Byte
      BY <1>3, <2>1
  <2>3. t[m] = PeerTurn(a, b)
    <3>1. \A n \in 1 .. Len(bytes) : t[n] = PeerTurn(t[n - 1], bytes[n])
        BY <2>2, PeerTurns
    <3>2. t[m] = PeerTurn(t[m - 1], bytes[m])
      <4> HIDE DEF m
      <4> QED  BY <2>2, <3>1
    <3> QED  BY <2>2, <3>2
  <2>4. r = [s EXCEPT !.ph = p, !.i = IF p = Broken THEN @ ELSE @ + 1]
      BY <1>3 DEF Iteration
  <2> HIDE DEF b
  <2>5. /\ p # Broken => InStep(p, PeerStep(a.q, b))
        /\ InStep(Broken, a.q)
        /\ a.q.w # "data"
      BY <1>3, <2>1, <2>2, ByteInStep
  <2>6. t[m].q = PeerStep(a.q, b) /\ t[m].got = a.got
      BY <2>3, <2>5 DEF PeerTurn
  <2> HIDE DEF p, r, a, m
  <2>7. CASE p = Broken
    <3>1. r.i = s.i /\ r.ph = Broken /\ r.out = s.out /\ r = [i |-> s.i, ph |-> Broken, out |-> s.out]
        BY <2>1, <2>4, <2>7
    <3>2. Broken \in Phases
        BY <2>5 DEF InStep
    <3>3. r \in [i : 0 .. Len(bytes), ph : Phases, out : Seq(Byte)]
        BY <2>1, <3>1, <3>2
    <3>4. Aligned(r, t, bytes)
        BY <2>1, <2>5, <3>1, <3>3 DEF Aligned, a
    <3> QED  BY <3>4 DEF r
  <2>8. CASE p # Broken
    <3>1. r.i = m /\ r.ph = p /\ r.out = s.out /\ r = [i |-> m, ph |-> p, out |-> s.out]
        BY <2>1, <2>4, <2>8 DEF m
    <3>2. p \in Phases /\ InStep(p, t[m].q)
        BY <2>5, <2>6, <2>8 DEF InStep
    <3>3. r \in [i : 0 .. Len(bytes), ph : Phases, out : Seq(Byte)]
        BY <2>1, <2>2, <3>1, <3>2
    <3>4. Aligned(r, t, bytes)
        BY <2>1, <2>6, <3>1, <3>2, <3>3 DEF Aligned
    <3> QED  BY <3>4 DEF r
  <2> QED  BY <2>7, <2>8
<1> QED  BY <1>1, <1>2, <1>3

\* So it is after all of them.
LEMMA AdvanceAligned ==
    ASSUME ChunkedAssumption, peerKind \in PeerKinds, NEW ph, NEW q, InStep(ph, q), NEW bytes \in Seq(Byte)
    PROVE  Aligned(Advance(ph, bytes), PeerTakes(q, bytes), bytes)
<1> DEFINE L == Len(bytes)
           t == PeerTakes(q, bytes)
<1>1. L \in Nat
    OBVIOUS
<1>2. PICK f : /\ f[0] = [i |-> 0, ph |-> ph, out |-> <<>>]
               /\ \A n \in 1 .. L : f[n] = Iteration(f[n - 1], bytes)
               /\ Advance(ph, bytes) = f[L]
    BY <1>1, AdvanceTurns
<1> DEFINE Good(n) == Aligned(f[n], t, bytes)
           B == {n \in 0 .. L : ~Good(n)}
<1>3. Good(0)
  <2>1. t[0] = [q |-> q, got |-> <<>>]
      BY <1>1, PeerTurns
  <2> HIDE DEF t
  <2>2. f[0].i = 0 /\ f[0].ph = ph /\ f[0].out = <<>> /\ t[0].q = q /\ t[0].got = <<>>
      BY <1>2, <2>1
  <2>3. f[0] \in [i : 0 .. Len(bytes), ph : Phases, out : Seq(Byte)]
    <3>1. ph \in Phases /\ 0 \in 0 .. Len(bytes) /\ <<>> \in Seq(Byte)
        BY <1>1 DEF InStep
    <3> QED  BY <1>2, <3>1
  <2> QED  BY <2>2, <2>3 DEF Aligned
<1>4. ASSUME NEW n \in 1 .. L, Good(n - 1) PROVE Good(n)
  <2>1. f[n] = Iteration(f[n - 1], bytes)
      BY <1>2
  <2>2. Aligned(Iteration(f[n - 1], bytes), t, bytes)
      BY <1>4, TurnAligned
  <2> QED  BY <2>1, <2>2
<1>5. B = {}
  <2> SUFFICES ASSUME B # {} PROVE FALSE
      OBVIOUS
  <2>1. PICK n \in B : \A j \in B : n <= j
    <3>1. B \in SUBSET Nat
        BY <1>1
    <3> HIDE DEF B
    <3> QED  BY <3>1, Least
  <2> HIDE DEF Good
  <2>2. n # 0
      BY <1>3
  <2>3. n \in 1 .. L /\ n - 1 \in 0 .. L /\ n - 1 < n
      BY <1>1, <2>1, <2>2
  <2>4. Good(n - 1)
      BY <2>1, <2>3
  <2> QED  BY <1>4, <2>1, <2>3, <2>4
<1>6. Good(L)
  <2>1. L \in 0 .. L
      BY <1>1
  <2> HIDE DEF Good, L
  <2> QED  BY <1>5, <2>1
<1> QED  BY <1>2, <1>6

\* Every read keeps the peer in step.
LEMMA ChunkedStep ==
    ASSUME ChunkedAssumption, ChunkedInv, [ChunkedNext]_chunkedVars
    PROVE  ChunkedInv'
<1>1. CASE ChunkedNext
  <2>1. PICK k \in 1 .. MaxRead : \E bytes \in [1 .. k -> Byte] : Observe(bytes)
      BY <1>1 DEF ChunkedNext
  <2>2. PICK bytes \in [1 .. k -> Byte] : Observe(bytes)
      BY <2>1
  <2>3. bytes \in Seq(Byte)
    <3>1. k \in Nat
        BY <2>1 DEF ChunkedAssumption
    <3> QED  BY <2>2, <3>1
  <2> DEFINE a == Advance(phase, bytes)
             t == PeerTakes(peer, bytes)
  <2>4. Aligned(a, t, bytes)
      BY <2>3, AdvanceAligned DEF ChunkedInv
  <2>5. phase' = a.ph /\ decoded' = a.out /\ peer' = t[a.i].q /\ peerGot' = t[a.i].got /\ peerKind' = peerKind
      BY <2>2 DEF Observe
  <2> HIDE DEF a, t
  <2>6. InStep(phase', peer')
      BY <2>4, <2>5 DEF Aligned
  <2>7. decoded' = peerGot'
      BY <2>4, <2>5 DEF Aligned
  <2>8. InStep(phase, peer)'
      BY <2>6 DEF InStep, Peers, Phases, Sizes, PhaseNames, SizeLimit
  <2> QED  BY <2>5, <2>7, <2>8 DEF ChunkedInv, PeerKinds
<1>2. CASE UNCHANGED chunkedVars
    BY <1>2 DEF ChunkedInv, InStep, chunkedVars, Peers, Phases, Sizes, PhaseNames, SizeLimit, PeerKinds
<1> QED  BY <1>1, <1>2

LEMMA ChunkedStart ==
    ASSUME ChunkedAssumption, ChunkedInit
    PROVE  ChunkedInv
<1>1. At("Size") \in Phases /\ At("Size").p = "Size" /\ At("Size").size = 0
    BY PhaseAt DEF PhaseNames
<1>2. PeerAt("size") \in Peers /\ PeerAt("size").w = "size" /\ PeerAt("size").n = 0
      /\ ~PeerAt("size").cr /\ PeerAt("size").counting
    BY PeerPlaced
<1>3. InStep(At("Size"), PeerAt("size"))
    BY <1>1, <1>2 DEF InStep
<1> QED  BY <1>3 DEF ChunkedInit, ChunkedInv

\* However the bytes of a body fall into reads, and whatever they are, the peer
\* ends it where the observer does, with the same payload: for any width of the
\* size, any length of a read and every kind of peer (chunked.rs).
THEOREM FramingAgrees == ChunkedSpec => []EndsAgree
<1>1. ChunkedInit => ChunkedInv
    BY ChunkedAssumption, ChunkedStart
<1>2. ChunkedInv /\ [ChunkedNext]_chunkedVars => ChunkedInv'
    BY ChunkedAssumption, ChunkedStep
<1>3. ChunkedInv => EndsAgree
    BY DEF ChunkedInv, InStep, EndsAgree
<1> QED  BY <1>1, <1>2, <1>3, PTL DEF ChunkedSpec
=============================================================================
