----------------------------- MODULE RateLimiter -----------------------------
(***************************************************************************)
(* The token bucket rate limiter (src/gateway/rate-limiter.ts), asked once *)
(* per tool call by instrumentServer, with the session's subject as key.   *)
(* A bucket is made by a key's first call, with the rate of THAT call's    *)
(* category, and serves every category until it has been idle for 5        *)
(* minutes and the clean-up timer deletes it.                              *)
(*                                                                         *)
(* Tokens are counted in units of 1/Minute, so that a bucket of rate m     *)
(* gains m units per tick and a call costs Minute units.                   *)
(***************************************************************************)
EXTENDS Integers, FiniteSetsExt

CONSTANTS
  Keys,      \* session.sub
  Category,  \* "read", "write", "deploy"
  PerMinute, \* [Category -> Nat]: config.rateLimits
  Minute,    \* ticks in a minute
  Idle,      \* ticks after which the clean-up deletes a bucket
  MaxTime    \* bound: the clock

RateAssumption ==
  /\ Minute \in Nat \ {0} /\ Idle \in Nat /\ Idle >= Minute /\ MaxTime \in Nat
  /\ IsFiniteSet(Category) /\ Category # {}
  /\ PerMinute \in [Category -> Nat \ {0}]

VARIABLES
  buckets,   \* key -> [tokens, last, max]
  clock,
  allowed    \* history: the calls let through in the last minute, each with
             \* the tokens it left

vars == <<buckets, clock, allowed>>

Init ==
  /\ buckets = [k \in {} |-> 0]
  /\ clock = 0
  /\ allowed = {}

NewBucket(cat) == [tokens |-> PerMinute[cat] * Minute, last |-> clock,
                   max |-> PerMinute[cat]]
Refill(b) == [b EXCEPT !.tokens = Min({b.max * Minute,
                                       b.tokens + (clock - b.last) * b.max}),
                       !.last = clock]
GetOrCreate(k, cat) == IF k \in DOMAIN buckets THEN buckets[k] ELSE NewBucket(cat)

(* check(key, category): refill, then take a token or throw RATE_001. *)
Check(k, cat) ==
  LET b == Refill(GetOrCreate(k, cat))
      ok == b.tokens >= Minute
  IN  /\ buckets' = [x \in DOMAIN buckets \cup {k} |->
                       IF x # k THEN buckets[x]
                       ELSE IF ok THEN [b EXCEPT !.tokens = @ - Minute] ELSE b]
      /\ allowed' = IF ok
                    THEN allowed \cup {[key |-> k, cat |-> cat, at |-> clock,
                                         left |-> b.tokens - Minute]}
                    ELSE allowed
      /\ UNCHANGED clock

\* Mutant: buckets are dropped while they still hold a deficit.
CleanupEager ==
  /\ buckets' = [k \in {x \in DOMAIN buckets :
                          clock - buckets[x].last < 1} |-> buckets[k]]
  /\ UNCHANGED <<clock, allowed>>

(* cleanup(), every minute. *)
Cleanup ==
  /\ buckets' = [k \in {x \in DOMAIN buckets :
                          clock - buckets[x].last <= Idle} |-> buckets[k]]
  /\ UNCHANGED <<clock, allowed>>

Tick ==
  /\ clock < MaxTime
  /\ clock' = clock + 1
  /\ allowed' = {a \in allowed : a.at > clock' - Minute}
  /\ UNCHANGED buckets

Next == \/ \E k \in Keys, cat \in Category : Check(k, cat)
        \/ Cleanup \/ Tick

Spec == Init /\ [][Next]_vars

-----------------------------------------------------------------------------
Top == Max({PerMinute[c] : c \in Category})

(***************************************************************************)
(* In no minute does a key get more than a full bucket and a minute's      *)
(* refill of the largest rate: deleting idle buckets gives nothing away.   *)
(***************************************************************************)
RateBound ==
  \A k \in Keys : Cardinality({a \in allowed : a.key = k}) <= 2 * Top

(***************************************************************************)
(* The tiers of public/llms.txt: each category has its own limit.          *)
(***************************************************************************)
TierRespected ==
  \A k \in Keys, c \in Category :
    Cardinality({a \in allowed : a.key = k /\ a.cat = c}) <= 2 * PerMinute[c]
=============================================================================
