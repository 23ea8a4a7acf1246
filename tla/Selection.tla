------------------------------ MODULE Selection ------------------------------
(***************************************************************************)
(* Least-loaded selection (pool-selection/domain/Selection.ts): which      *)
(* candidates are eligible, which of them is picked, and what a client is  *)
(* told when none is.  A candidate pairs a subscription with its latest    *)
(* snapshot (None when it has none) and its in-flight count.               *)
(***************************************************************************)
EXTENDS RateLimit

CONSTANT Rank   \* where localeCompare sorts each subscription id

ASSUME SelectionAssumption == \A i, j \in DOMAIN Rank :
  Rank[i] \in Nat /\ (Rank[i] = Rank[j] => i = j)

UnknownScore == 50
NearFull == 98
InFlightWeight == 5
DefaultRetry == 30

FiveHourFirst(p) == IF p.util5h = None THEN p.util7d ELSE p.util5h

\* The representative window's utilization; the fuller one if none is claimed.
WindowUtil(p) ==
  CASE p.claim = "7d" -> p.util7d
    [] p.claim = "5h" -> p.util5h
    [] OTHER -> IF p.util5h = None THEN p.util7d
                ELSE IF p.util7d = None \/ p.util7d <= p.util5h THEN p.util5h
                ELSE p.util7d

Clamp(u) == IF u < 0 THEN 0 ELSE IF u > 100 THEN 100 ELSE u

LoadScore(p) ==
  IF p = None THEN UnknownScore
  ELSE IF WindowUtil(p) = None THEN UnknownScore
  ELSE Clamp(WindowUtil(p))

FencesCooldownOnly(p, now) ==
  p # None => ~(p.cooldown # None /\ p.cooldown > now)

\* isEligible: the three fences, in the order the code tries them.
IsEligible(p, now) ==
  p # None =>
    /\ ~(p.cooldown # None /\ p.cooldown > now)
    /\ p.status # "rate_limited"
    /\ LoadScore(p) < NearFull

ScoreWithoutBias(c) == LoadScore(c.snapshot)
BiasedScore(c) == LoadScore(c.snapshot) + InFlightWeight * c.inFlight

\* The comparator of the ranking: c sorts strictly before d.
Before(c, d) ==
  \/ BiasedScore(c) < BiasedScore(d)
  \/ /\ BiasedScore(c) = BiasedScore(d)
     /\ c.inFlight < d.inFlight
  \/ /\ BiasedScore(c) = BiasedScore(d)
     /\ c.inFlight = d.inFlight
     /\ Rank[c.id] < Rank[d.id]

Eligible(cands, now) == {c \in cands : IsEligible(c.snapshot, now)}

\* ranked[0]: what the sort puts first (never two of them: see SelectionProofs).
Picked(cands, now) ==
  {c \in Eligible(cands, now) :
     \A d \in Eligible(cands, now) : ~Before(d, c)}

RepresentativeResetMs(p) ==
  IF p = None THEN None
  ELSE IF p.cooldown # None THEN p.cooldown
  ELSE IF RepresentativeReset(p) # None THEN RepresentativeReset(p) * Second
  ELSE None

Resets(cands) == {RepresentativeResetMs(c.snapshot) : c \in cands} \ {None}

CeilSeconds(t) == -((-t) \div Second)

AtLeastOne(n) == IF n < 1 THEN 1 ELSE n

LatestRetry(cands, now) ==
  IF Resets(cands) = {} THEN DefaultRetry
  ELSE LET t == CHOOSE t \in Resets(cands) : \A u \in Resets(cands) : u <= t
       IN AtLeastOne(CeilSeconds(t - now))

\* soonestRetry: seconds until the soonest reset, which may be past.
SoonestRetry(cands, now) ==
  IF Resets(cands) = {} THEN DefaultRetry
  ELSE LET t == CHOOSE t \in Resets(cands) : \A u \in Resets(cands) : t <= u
       IN AtLeastOne(CeilSeconds(t - now))

\* The Retry-After of select's 503: an empty pool gets the default.
RetryAfter(cands, now) ==
  IF cands = {} THEN DefaultRetry ELSE SoonestRetry(cands, now)
=============================================================================
