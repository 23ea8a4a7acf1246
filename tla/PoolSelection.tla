---------------------------- MODULE PoolSelection ----------------------------
(***************************************************************************)
(* What select looks at and who changes it: the latest load snapshot of    *)
(* every subscription, the in-flight counters of the process and the       *)
(* clock.  Responses are recorded, requests take and give back slots, time *)
(* passes; in every state reached, the selector is asked to choose among   *)
(* every set of candidates.                                                *)
(***************************************************************************)
EXTENDS Selection, FiniteSets

CONSTANTS
  Replies,      \* what upstream responses say
  MaxNow,       \* bound on the clock
  MaxInFlight   \* bound on a counter: requests in the process

Subs == DOMAIN Rank

ASSUME PoolSelectionAssumption ==
  /\ IsFiniteSet(Subs)
  /\ Replies \subseteq Reply
  /\ MaxNow \in Nat
  /\ MaxInFlight \in Nat
  /\ None \notin Snapshot

VARIABLES
  latest,    \* newest row of subscription_load, per subscription
  inFlight,  \* InFlightTracker.counts
  now        \* clock.nowMs

poolVars == <<latest, inFlight, now>>

TypeOK ==
  /\ latest \in [Subs -> Snapshot \cup {None}]
  /\ inFlight \in [Subs -> 0..MaxInFlight]
  /\ now \in 0..MaxNow

Init ==
  /\ latest = [s \in Subs |-> None]
  /\ inFlight = [s \in Subs |-> 0]
  /\ now = 0

\* recordLoad: the row of the response becomes the newest one.
RecordLoad(s, reply) ==
  latest' = [latest EXCEPT ![s] = ParseRateLimitHeaders(reply, now)]

Increment(s) == inFlight' = [inFlight EXCEPT ![s] = @ + 1]

\* A counter that would fall to zero or below leaves the map.
Decrement(s) ==
  inFlight' = [inFlight EXCEPT ![s] = IF @ - 1 <= 0 THEN 0 ELSE @ - 1]

Respond(s, reply) == RecordLoad(s, reply) /\ UNCHANGED <<inFlight, now>>

Take(s) ==
  /\ inFlight[s] < MaxInFlight
  /\ Increment(s)
  /\ UNCHANGED <<latest, now>>

\* A slot is given back by a request that took it.
GiveBack(s) ==
  /\ inFlight[s] > 0
  /\ Decrement(s)
  /\ UNCHANGED <<latest, now>>

Tick == now < MaxNow /\ now' = now + 1 /\ UNCHANGED <<latest, inFlight>>

Next ==
  \/ \E s \in Subs : (\E reply \in Replies : Respond(s, reply)) \/ Take(s) \/ GiveBack(s)
  \/ Tick

Spec == Init /\ [][Next]_poolVars

Candidates(ids) ==
  {[id |-> s, snapshot |-> latest[s], inFlight |-> inFlight[s]] : s \in ids}

-----------------------------------------------------------------------------
(* Properties, each asked of every set of candidates *)

\* INV-002 in its own words: what fences a candidate.
Utilizations(p) ==
  (IF p.claim = "7d" THEN {p.util7d}
   ELSE IF p.claim = "5h" THEN {p.util5h}
   ELSE {p.util5h, p.util7d}) \ {None}

RateLimited(p) == p.status = "rate_limited"
Cooling(p) == p.cooldown # None /\ p.cooldown > now
NearlyFull(p) == \E u \in Utilizations(p) : u >= NearFull
Fenced(s) ==
  latest[s] # None
    /\ (RateLimited(latest[s]) \/ Cooling(latest[s]) \/ NearlyFull(latest[s]))

\* spp-pool-selection:INV-002: a fenced candidate is never picked, and a pool
\* is refused only when every candidate of it is fenced (selectLeastLoaded's
\* filter and its no_capacity answer).
FencedNeverPicked == \A ids \in SUBSET Subs :
  /\ \A c \in Picked(Candidates(ids), now) : ~Fenced(c.id)
  /\ Picked(Candidates(ids), now) = {} <=> \A s \in ids : Fenced(s)

\* The load of an unfenced candidate, as INV-001 words it: its utilization, mid
\* load when nothing is known, and a small bias for what it is serving.
Load(s) ==
  IF latest[s] = None \/ Utilizations(latest[s]) = {}
  THEN 50 + 5 * inFlight[s]
  ELSE LET u == CHOOSE u \in Utilizations(latest[s]) :
                  \A v \in Utilizations(latest[s]) : v <= u
       IN (IF u < 0 THEN 0 ELSE u) + 5 * inFlight[s]

\* spp-pool-selection:INV-001: one candidate is picked, and no other candidate
\* that could have been is less loaded, or as loaded and less busy.
PicksLeastLoaded == \A ids \in SUBSET Subs :
  \A c \in Picked(Candidates(ids), now) :
    \A s \in {t \in ids : ~Fenced(t)} \ {c.id} :
      /\ Load(c.id) <= Load(s)
      /\ Load(c.id) = Load(s) => inFlight[c.id] <= inFlight[s]
      /\ \A d \in Picked(Candidates(ids), now) : d.id # s

\* The in-flight bias spreads concurrent requests (InFlightTracker): however
\* unequal the utilizations, nobody is picked with 20 requests more in flight
\* than another candidate that is free to serve.
SpreadsLoad == \A ids \in SUBSET Subs :
  \A c \in Picked(Candidates(ids), now), s \in ids :
    ~Fenced(s) => inFlight[c.id] - inFlight[s] < 20

\* A refused client is not sent away for longer than it takes the first cooling
\* candidate to be free again (soonestRetry): one second before Retry-After is
\* over, every candidate that only cools down is cooling still.
RetryAfterSound == \A ids \in SUBSET Subs :
  (\A s \in ids : Fenced(s)) =>
    LET n == RetryAfter(Candidates(ids), now) IN
    /\ n >= 1
    /\ n = 1 \/ \A s \in ids :
         Cooling(latest[s]) /\ ~RateLimited(latest[s]) /\ ~NearlyFull(latest[s])
           => now + (n - 1) * Second < latest[s].cooldown

\* pool-selection.md:136 (INV-002): a candidate "becomes eligible again once the
\* cooldown passes".  Refuted: the snapshot of a rate_limited answer fences its
\* subscription until a newer snapshot is recorded, however long ago its
\* cooldown ended.
EligibleAfterCooldown == \A s \in Subs :
  /\ latest[s] # None
  /\ latest[s].cooldown # None /\ latest[s].cooldown <= now
  /\ ~NearlyFull(latest[s])
  => IsEligible(latest[s], now)
=============================================================================
