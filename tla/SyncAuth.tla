------------------------------- MODULE SyncAuth -------------------------------
(***************************************************************************)
(* Sync authentication (src/src/kubernetes/controller/auth.rs): the        *)
(* pre-check of a token's claims, the cache of TokenReview verdicts, the   *)
(* two pools of reviews in flight and what a peer may use of them, and the *)
(* stale verdict that serves while no renewal can be made.                 *)
(*                                                                         *)
(* A review is evaluated by the apiserver at some time between its request *)
(* and its answer, so pods that are deleted meanwhile, and answers that    *)
(* overtake each other, are part of the model.  The permits and the counts *)
(* by peer are held by the requests themselves (they are guards dropped    *)
(* with the request's future), so they are read off the requests.  goneAt, *)
(* good and the clock of a scenario are there for the properties.          *)
(***************************************************************************)
EXTENDS Integers, Sequences, FiniteSets, Functions

CONSTANTS
    Caller,         \* requests being authenticated at a time
    Peer,           \* peer IPs
    Token,          \* tokens presented
    Pod,            \* pods tokens are bound to
    Claimed,        \* token -> [sub, forUs, exp, genuine, pod]
    Barred,         \* refused: accounts that are never authorized
    CacheTtl,       \* CACHE_TTL
    StaleTtl,       \* STALE_TTL
    ReviewTimeout,  \* REVIEW_TIMEOUT
    MaxVerdicts,    \* MAX_VERDICTS
    PerPod,         \* MAX_VERDICTS_PER_POD
    UnknownPermits, \* MAX_REVIEWS_IN_FLIGHT
    RenewalPermits, \* MAX_RENEWALS_IN_FLIGHT
    PerPeer,        \* MAX_REVIEWS_PER_PEER
    ReviewBurst,    \* REVIEW_BURST_PER_PEER
    ReviewRate,     \* REVIEW_RATE_PER_PEER
    RatedPeers,     \* MAX_RATED_PEERS
    AuthWorlds      \* bound: [tokens, accounts, peers, mortal, until,
                    \* asks]: what a behaviour may use

ASSUME AuthAssumption ==
    /\ CacheTtl \in Nat \ {0} /\ StaleTtl \in Nat /\ ReviewTimeout \in Nat \ {0}
    /\ MaxVerdicts \in Nat \ {0} /\ PerPod \in Nat \ {0}
    /\ UnknownPermits \in Nat /\ RenewalPermits \in Nat \ {0} /\ PerPeer \in Nat
    /\ ReviewBurst \in Nat \ {0} /\ ReviewRate \in Nat /\ RatedPeers \in Nat \ {0}
    /\ IsFiniteSet(Token) /\ \A t \in Token : Claimed[t].exp \in Nat
    /\ \A w \in AuthWorlds : w.peers \subseteq Peer

VARIABLES
    world,      \* which tokens are around, and for how long
    time,       \* seconds
    goneAt,     \* pod -> when it was deleted, or NotYet
    byToken,    \* by_token: token -> [at, ok]
    lastSweep,  \* when the verdicts were swept, or NotYet
    rates,      \* review_rates: peer -> [tokens, at]
    call,       \* request -> where it is
    line,       \* the requests that wait for a renewal permit, in order
    good,       \* token -> when it was last found good, or NotYet
    requests    \* requests made

authVars == <<world, time, goneAt, byToken, lastSweep, rates, call, line, good, requests>>

NotYet == -1
Quiet == [pc |-> "quiet"]

\* precheck: a JWT for the controller that has not expired.
Prechecked(t) == Claimed[t].forUs /\ time < Claimed[t].exp

\* verdict: authenticated for our audience, and bound to a pod that is there.
ReviewSays(t) ==
    /\ Claimed[t].genuine /\ Claimed[t].forUs /\ time < Claimed[t].exp
    /\ Claimed[t].pod \in Pod /\ goneAt[Claimed[t].pod] = NotYet

-----------------------------------------------------------------------------
\* What the cache knows of a token.

CachedForever(t) ==
    IF t \notin DOMAIN byToken THEN "unknown"
    ELSE IF byToken[t].ok
         THEN IF time - byToken[t].at < CacheTtl THEN "fresh" ELSE "expired"
         ELSE IF time - byToken[t].at < CacheTtl THEN "rejected" ELSE "unknown"

Cached(t) ==
    IF t \notin DOMAIN byToken THEN "unknown"
    ELSE LET age == time - byToken[t].at IN
         CASE byToken[t].ok /\ age < CacheTtl                              -> "fresh"
           [] byToken[t].ok /\ age >= CacheTtl /\ age < CacheTtl + StaleTtl -> "expired"
           [] ~byToken[t].ok /\ age < CacheTtl                             -> "rejected"
           [] OTHER                                                         -> "unknown"

\* kept: how long a verdict is.
Keeps(v) == time - v.at < IF v.ok THEN CacheTtl + StaleTtl ELSE CacheTtl

SweepDue == lastSweep = NotYet \/ time - lastSweep >= CacheTtl

Sweep(vs) == IF SweepDue THEN Restrict(vs, {t \in DOMAIN vs : Keeps(vs[t])}) ELSE vs

Crowded(vs, t) == Cardinality(DOMAIN vs) >= MaxVerdicts /\ t \notin DOMAIN vs

\* Rejections go first,
Shed(vs, t) == IF Crowded(vs, t) THEN Restrict(vs, {u \in DOMAIN vs : vs[u].ok}) ELSE vs

\* then the oldest quarter of a cache that is all accepted.
Cutoff(vs) ==
    CHOOSE x \in {vs[u].at : u \in DOMAIN vs} :
        /\ Cardinality({u \in DOMAIN vs : vs[u].at <= x}) > MaxVerdicts \div 4
        /\ Cardinality({u \in DOMAIN vs : vs[u].at < x}) <= MaxVerdicts \div 4
OldestGo(vs, t) ==
    IF Crowded(vs, t)
    THEN Restrict(vs, {u \in DOMAIN vs : vs[u].at > Cutoff(vs)})
    ELSE vs

\* A pod keeps its last accepted verdicts.
SamePod(vs, t) ==
    {u \in DOMAIN vs : u # t /\ vs[u].ok /\ Claimed[u].pod = Claimed[t].pod}
PodsOldest(vs, t) ==
    IF Cardinality(SamePod(vs, t)) < PerPod THEN {}
    ELSE CHOOSE D \in SUBSET SamePod(vs, t) :
             /\ Cardinality(D) = Cardinality(SamePod(vs, t)) - PerPod + 1
             /\ \A u \in D, w \in SamePod(vs, t) \ D : vs[u].at <= vs[w].at

Insert(vs, t, ok) == [u \in DOMAIN vs \cup {t} |-> IF u = t THEN [at |-> time, ok |-> ok] ELSE vs[u]]

\* remember on a cache that is swept and has room made.
Keep(vs, t, ok) ==
    Insert(Restrict(vs, DOMAIN vs \ IF ok THEN PodsOldest(vs, t) ELSE {}), t, ok)

\* A bug: room is made by age alone, whatever the verdict.
RememberByAge(t, ok) ==
    /\ byToken' = Keep(OldestGo(Sweep(byToken), t), t, ok)
    /\ lastSweep' = IF SweepDue THEN time ELSE lastSweep

Remember(t, ok) ==
    /\ byToken' = Keep(OldestGo(Shed(Sweep(byToken), t), t), t, ok)
    /\ lastSweep' = IF SweepDue THEN time ELSE lastSweep

-----------------------------------------------------------------------------
\* Permits and allowances.

Reviewing(kind) == {c \in Caller : call[c].pc = "review" /\ call[c].kind = kind}
ReviewsOf(p)    == {c \in Caller : call[c].pc = "review" /\ call[c].peer = p}

TokensAt(b) ==
    LET n == b.tokens + (time - b.at) * ReviewRate IN IF n > ReviewBurst THEN ReviewBurst ELSE n

\* charge_review: full buckets make room for a peer that has none.
RoomFor(p) ==
    IF Cardinality(DOMAIN rates) >= RatedPeers /\ p \notin DOMAIN rates
    THEN Restrict(rates, {q \in DOMAIN rates : TokensAt(rates[q]) < ReviewBurst})
    ELSE rates
TooManyRated(p) == Cardinality(DOMAIN RoomFor(p)) >= RatedPeers /\ p \notin DOMAIN RoomFor(p)
Allowance(p)    == IF p \in DOMAIN rates THEN TokensAt(rates[p]) ELSE ReviewBurst
Charged(p)      == ~TooManyRated(p) /\ Allowance(p) >= 1
Charge(p) ==
    rates' = IF TooManyRated(p) THEN RoomFor(p)
             ELSE [q \in DOMAIN RoomFor(p) \cup {p} |->
                       IF q # p THEN RoomFor(p)[q]
                       ELSE [tokens |-> IF Charged(p) THEN Allowance(p) - 1 ELSE Allowance(p),
                             at     |-> time]]

\* A request that stops waiting leaves the line to the others.
LineWithout(c) ==
    IF \A i \in DOMAIN line : line[i] # c THEN line
    ELSE LET i == CHOOSE i \in DOMAIN line : line[i] = c
         IN  [j \in 1 .. Len(line) - 1 |-> line[IF j < i THEN j ELSE j + 1]]

-----------------------------------------------------------------------------
\* A request ends with one of the refusals, or with its token's instance.

Ended(c, t, out, due) ==
    [call EXCEPT ![c] = [pc |-> "ended", token |-> t, out |-> out, due |-> due]]
Review(c, t, p, kind, due) ==
    [call EXCEPT ![c] = [pc |-> "review", token |-> t, peer |-> p, kind |-> kind,
                         until |-> time + ReviewTimeout, answer |-> "none", due |-> due]]

\* For the properties: a token found good within the TTL and the stale grace
\* is due an answer, unless its own pod had as many others accepted since as
\* are kept, or good tokens alone fill the cache: those a cache that is swept
\* once in a TTL may still have held when it came.
Recent(t) == good[t] # NotYet /\ time - good[t] < CacheTtl + StaleTtl
OwedAnswer(t) ==
    /\ Recent(t)
    /\ Cardinality({u \in Token \ {t} : /\ Claimed[u].pod = Claimed[t].pod
                                        /\ good[u] >= good[t]}) < PerPod
    /\ Cardinality({u \in Token : good[u] # NotYet /\ good[t] - good[u] < 2 * CacheTtl + StaleTtl}) < MaxVerdicts

Asks(c, t) ==
    /\ call[c].pc = "quiet" /\ t \in world.tokens /\ requests < world.asks
    /\ \A d \in Caller : call[d].pc # "ended"
    /\ requests' = requests + 1
    /\ UNCHANGED <<world, time, goneAt, good>>

\* Refused on the claims alone, or as an account that may never sync.
AskJunk(c, t, sa) ==
    /\ Asks(c, t)
    /\ ~Prechecked(t) \/ Claimed[t].sub # sa \/ sa \in Barred
    /\ call' = Ended(c, t, IF Prechecked(t) /\ Claimed[t].sub = sa THEN "forbidden"
                           ELSE "unauthenticated", FALSE)
    /\ UNCHANGED <<byToken, lastSweep, rates, line>>

Entering(c, t, sa) ==
    Asks(c, t) /\ Prechecked(t) /\ Claimed[t].sub = sa /\ sa \notin Barred

AskKnown(c, t, sa) ==
    /\ Entering(c, t, sa)
    /\ Cached(t) \in {"fresh", "rejected"}
    /\ call' = Ended(c, t, IF Cached(t) = "fresh" THEN "accepted" ELSE "unauthenticated",
                     OwedAnswer(t))
    /\ UNCHANGED <<byToken, lastSweep, rates, line>>

\* A verdict past its TTL is renewed from a pool of its own.
AskExpired(c, t, sa, p) ==
    /\ Entering(c, t, sa)
    /\ Cached(t) = "expired"
    /\ IF Cardinality(Reviewing("renewal")) < RenewalPermits /\ line = <<>>
       THEN call' = Review(c, t, p, "renewal", OwedAnswer(t)) /\ line' = line
       ELSE /\ call' = [call EXCEPT ![c] = [pc |-> "wait", token |-> t, peer |-> p,
                                            until |-> time + ReviewTimeout, due |-> OwedAnswer(t)]]
            /\ line' = Append(line, c)
    /\ UNCHANGED <<byToken, lastSweep, rates>>

AskUnknown(c, t, sa, p) ==
    /\ Entering(c, t, sa)
    /\ Cached(t) = "unknown"
    /\ LET free == /\ Cardinality(ReviewsOf(p)) < PerPeer
                   /\ Cardinality(Reviewing("unknown")) < UnknownPermits
       IN /\ IF free THEN Charge(p) ELSE UNCHANGED rates
          /\ call' = IF free /\ Charged(p) THEN Review(c, t, p, "unknown", OwedAnswer(t))
                     ELSE Ended(c, t, "throttled", OwedAnswer(t))
    /\ UNCHANGED <<byToken, lastSweep, line>>

\* A freed renewal permit goes to the first in line,
TakePermit ==
    /\ line # <<>> /\ Cardinality(Reviewing("renewal")) < RenewalPermits
    /\ call' = Review(Head(line), call[Head(line)].token, call[Head(line)].peer, "renewal",
                      call[Head(line)].due)
    /\ line' = Tail(line)
    /\ UNCHANGED <<world, time, goneAt, byToken, lastSweep, rates, good, requests>>

\* or none came in time, and the stale verdict serves.
WaitedInVain(c) ==
    /\ call[c].pc = "wait" /\ time >= call[c].until
    /\ ~(Head(line) = c /\ Cardinality(Reviewing("renewal")) < RenewalPermits)
    /\ call' = Ended(c, call[c].token, "accepted", call[c].due)
    /\ line' = LineWithout(c)
    /\ UNCHANGED <<world, time, goneAt, byToken, lastSweep, rates, good, requests>>

\* The apiserver evaluates the review.
Evaluate(c) ==
    /\ call[c].pc = "review" /\ call[c].answer = "none"
    /\ call' = [call EXCEPT ![c].answer = IF ReviewSays(call[c].token) THEN "yes" ELSE "no"]
    /\ UNCHANGED <<world, time, goneAt, byToken, lastSweep, rates, line, good, requests>>

\* Its answer arrives: remembered, and the request decided.
Answered(c) ==
    /\ call[c].pc = "review" /\ call[c].answer # "none"
    /\ Remember(call[c].token, call[c].answer = "yes")
    /\ good' = IF call[c].answer = "yes" THEN [good EXCEPT ![call[c].token] = time] ELSE good
    /\ call' = Ended(c, call[c].token,
                     IF call[c].answer = "yes" THEN "accepted" ELSE "unauthenticated", call[c].due)
    /\ UNCHANGED <<world, time, goneAt, rates, line, requests>>

\* An error, or no answer in time: nothing is remembered.
Unreviewed(c) ==
    /\ call[c].pc = "review"
    /\ call' = Ended(c, call[c].token,
                     IF call[c].kind = "renewal" THEN "accepted" ELSE "unavailable", call[c].due)
    /\ UNCHANGED <<world, time, goneAt, byToken, lastSweep, rates, line, good, requests>>

\* The caller has its outcome, or went away before it.
HangUp(c) ==
    /\ call[c].pc # "quiet"
    /\ call' = [call EXCEPT ![c] = Quiet]
    /\ line' = LineWithout(c)
    /\ UNCHANGED <<world, time, goneAt, byToken, lastSweep, rates, good, requests>>

PodDeleted(p) ==
    /\ goneAt[p] = NotYet /\ p \in world.mortal
    /\ goneAt' = [goneAt EXCEPT ![p] = time]
    /\ UNCHANGED <<world, time, byToken, lastSweep, rates, call, line, good, requests>>

\* Timers are due on time: none is passed over.
Elapse ==
    /\ time < world.until
    /\ \A c \in Caller :
           /\ call[c].pc # "ended"
           /\ call[c].pc \in {"wait", "review"} => time < call[c].until
    /\ time' = time + 1
    /\ UNCHANGED <<world, goneAt, byToken, lastSweep, rates, call, line, good, requests>>

AuthInit ==
    /\ world \in AuthWorlds
    /\ time = 0
    /\ goneAt = [p \in Pod |-> NotYet]
    /\ byToken = [t \in {} |-> [at |-> 0, ok |-> FALSE]] /\ lastSweep = NotYet
    /\ rates = [p \in {} |-> [tokens |-> 0, at |-> 0]]
    /\ call = [c \in Caller |-> Quiet] /\ line = <<>>
    /\ good = [t \in Token |-> NotYet]
    /\ requests = 0

AuthNext ==
    \/ \E c \in Caller, t \in Token, sa \in world.accounts :
           AskJunk(c, t, sa) \/ AskKnown(c, t, sa)
    \/ \E c \in Caller, t \in Token, p \in world.peers :
           AskExpired(c, t, Claimed[t].sub, p) \/ AskUnknown(c, t, Claimed[t].sub, p)
    \/ TakePermit
    \/ \E c \in Caller :
           WaitedInVain(c) \/ Evaluate(c) \/ Answered(c) \/ Unreviewed(c) \/ HangUp(c)
    \/ \E p \in Pod : PodDeleted(p)
    \/ Elapse

AuthSpec == AuthInit /\ [][AuthNext]_authVars

-----------------------------------------------------------------------------
Outcome(c, out) == call[c].pc = "ended" /\ call[c].out = out

(***************************************************************************)
(* A token stops working in bounded time: a request is accepted only for a *)
(* token bound to a pod that was there within a TTL, the stale grace and   *)
(* three review timeouts (one for the answer under way when the pod went,  *)
(* one to wait for a permit, one for the renewal that fails), whichever    *)
(* answers overtake each other; and never for a token no review accepted.  *)
(***************************************************************************)
RevokedInTime ==
    \A c \in Caller : Outcome(c, "accepted") =>
        LET t == call[c].token IN
        /\ Claimed[t].genuine
        /\ goneAt[Claimed[t].pod] # NotYet =>
               time < goneAt[Claimed[t].pod] + CacheTtl + StaleTtl + 3 * ReviewTimeout

(***************************************************************************)
(* Forgeries do not stop a running data plane: a request whose token was   *)
(* due an answer when it came, and whose pod is still there, is never      *)
(* throttled, refused or left unanswered, whatever fills the pools of      *)
(* reviews, the peers' allowances and the cache.                           *)
(***************************************************************************)
FloodSpares ==
    \A c \in Caller :
        /\ call[c].pc = "ended" /\ call[c].due
        /\ Prechecked(call[c].token) /\ goneAt[Claimed[call[c].token].pod] = NotYet
        => Outcome(c, "accepted")

\* What auth.rs says of the two terms: 63-64, "a deleted pod's token stops
\* working within" the TTL, and 67-68, with the stale grace "one more TTL, so a
\* revoked token works at most two": no request is accepted for a pod gone as
\* long.  It leaves out the time a review is under way (RevokedInTime has it).
RevokedWithinTwoTerms ==
    \A c \in Caller : Outcome(c, "accepted") =>
        LET gone == goneAt[Claimed[call[c].token].pod]
        IN  gone # NotYet => time < gone + CacheTtl + StaleTtl

\* Who is admitted was reviewed in time, and who may be is not kept out by
\* others: through reviews that overtake each other, fail or time out, a full
\* cache and used-up permits (auth.rs, authenticate, review, remember).
AdmissionIsSound == RevokedInTime /\ FloodSpares
=============================================================================
