----------------------------- MODULE RateLimiter -----------------------------
(***************************************************************************)
(* internal/middleware/ratelimit.go: one token bucket per client address,  *)
(* and the goroutine that forgets the buckets nobody used for entryTTL.    *)
(*                                                                         *)
(* Time is counted in ticks and tokens in units: a request costs Cost      *)
(* units and a tick refills Refills of them, so that a fraction of a token *)
(* per second (5 requests a minute) is a whole number of units.  Addresses *)
(* share nothing, so one bucket shows all; rl.mu makes each call atomic.   *)
(***************************************************************************)
EXTENDS Integers, Functions

CONSTANTS Cost, Refills, BurstSize, EntryTTL, NoBucket,
          MaxTicks, MaxHits   \* bounds: the time, and the requests within a tick

\* The two limiters of the router refill an empty bucket within a minute and
\* keep an unused one for five: a forgotten bucket was full.
ASSUME LimiterAssumption ==
    /\ Cost \in Nat \ {0} /\ Refills \in Nat \ {0} /\ BurstSize \in Nat \ {0}
    /\ EntryTTL \in Nat /\ MaxTicks \in Nat /\ MaxHits \in Nat
    /\ BurstSize * Cost <= EntryTTL * Refills
    /\ NoBucket \notin [tokens : Int, lastRefill : Int]

VARIABLES
    now,      \* the time
    bucket,   \* tokens and lastRefill, or NoBucket
    hits,     \* requests made in this tick
    allowed,  \* how many were allowed in each tick (history)
    retryAt   \* when the last refusal said to come back, or -1 (history)

limiterVars == <<now, bucket, hits, allowed, retryAt>>

Capacity == BurstSize * Cost

LimiterInit ==
    /\ now = 0
    /\ bucket = NoBucket
    /\ hits = 0
    /\ allowed = [t \in 0 .. MaxTicks |-> 0]
    /\ retryAt = -1

Least(a, b) == IF a < b THEN a ELSE b

\* tokenBucket.allow: the tokens there are now.
Refilled(k) == Least(Capacity, k.tokens + (now - k.lastRefill) * Refills)

\* The ticks until the missing units are there, rounded up, and at least one.
Wait(missing) == (missing + Refills - 1) \div Refills

\* RateLimiter.Allow creates the bucket, full, on the first request.
Current == IF bucket = NoBucket THEN [tokens |-> Capacity, lastRefill |-> now] ELSE bucket

Allow ==
    LET tokens == Refilled(Current) IN
    /\ hits < MaxHits
    /\ hits' = hits + 1
    /\ IF tokens >= Cost
         THEN /\ bucket' = [tokens |-> tokens - Cost, lastRefill |-> now]
              /\ allowed' = [allowed EXCEPT ![now] = @ + 1]
              /\ retryAt' = -1
         ELSE /\ bucket' = [tokens |-> tokens, lastRefill |-> now]
              /\ retryAt' = now + Wait(Cost - tokens)
              /\ UNCHANGED allowed
    /\ UNCHANGED now

\* Mutant: buckets are dropped at half their age.
CleanupHalfTTL ==
    /\ bucket # NoBucket
    /\ 2 * (now - bucket.lastRefill) > EntryTTL
    /\ bucket' = NoBucket
    /\ UNCHANGED <<now, hits, allowed, retryAt>>

\* cleanupLoop, on some tick of its own.
Cleanup ==
    /\ bucket # NoBucket
    /\ now - bucket.lastRefill > EntryTTL
    /\ bucket' = NoBucket
    /\ UNCHANGED <<now, hits, allowed, retryAt>>

Tick ==
    /\ now < MaxTicks
    /\ now' = now + 1
    /\ hits' = 0
    /\ UNCHANGED <<bucket, allowed, retryAt>>

LimiterNext == Allow \/ Cleanup \/ Tick

LimiterSpec == LimiterInit /\ [][LimiterNext]_limiterVars

-----------------------------------------------------------------------------
AllowedIn(a, b) == FoldFunctionOnSet(+, 0, allowed, a .. b)

\* In every window of time an address is allowed at most the burst and what
\* was refilled meanwhile, although the cleanup forgets buckets and the next
\* request starts with a full one.
WindowBounded == \A a \in 0 .. now : \A b \in a .. now :
    AllowedIn(a, b) * Cost <= Capacity + (b - a) * Refills

\* A client that comes back when the Retry-After of its refusal says is not
\* refused: the wait is rounded up.
RetryAfterSuffices == (retryAt >= 0 /\ now >= retryAt) => Refilled(Current) >= Cost

\* The limiter (Allow, Retry-After) keeps its word both ways: it lets no more pass than configured,
\* and a refused client that waits as long as told is let in.
RateLimitKept == WindowBounded /\ RetryAfterSuffices
=============================================================================
