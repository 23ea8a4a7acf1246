------------------------- MODULE PoolSelectionProofs -------------------------
(***************************************************************************)
(* Proofs about PoolSelection for any set of subscriptions, any replies    *)
(* and any bounds.                                                         *)
(*                                                                         *)
(* The state needs no invariant beyond its types: what is to be shown is   *)
(* that the ranking of selectLeastLoaded does what the properties say in   *)
(* every typed state.  The fence of the code is the fence of INV-002       *)
(* (FenceIsIneligibility), its score the load of INV-001                   *)
(* (LoadIsBiasedScore); the rest is the ranking of SelectionProofs.        *)
(***************************************************************************)
EXTENDS PoolSelection, SelectionProofs, FiniteSetTheorems

-----------------------------------------------------------------------------
(* Types *)

\* Whatever is recorded, taken or given back, the load rows stay snapshots and
\* the counters stay between 0 and the requests of the process.
THEOREM TypeCorrect == Spec => []TypeOK
<1>1. Init => TypeOK
  BY PoolSelectionAssumption DEF Init, TypeOK
<1>2. TypeOK /\ [Next]_poolVars => TypeOK'
  <2> SUFFICES ASSUME TypeOK, [Next]_poolVars PROVE TypeOK'
    OBVIOUS
  <2> USE DEF TypeOK
  <2>1. CASE \E s \in Subs, reply \in Replies : Respond(s, reply)
    <3>1. PICK s \in Subs, reply \in Replies : Respond(s, reply)
      BY <2>1
    <3>2. reply \in Reply /\ now \in Int
      BY PoolSelectionAssumption
    <3>3. ParseRateLimitHeaders(reply, now) \in Snapshot
      BY <3>2, ParsedIsSnapshot
    <3> QED BY <3>1, <3>3 DEF Respond, RecordLoad
  <2>2. CASE \E s \in Subs : Take(s)
    BY <2>2, PoolSelectionAssumption DEF Take, Increment
  <2>3. CASE \E s \in Subs : GiveBack(s)
    BY <2>3, PoolSelectionAssumption DEF GiveBack, Decrement
  <2>4. CASE Tick
    BY <2>4, PoolSelectionAssumption DEF Tick
  <2>5. CASE UNCHANGED poolVars
    BY <2>5 DEF poolVars
  <2> QED BY <2>1, <2>2, <2>3, <2>4, <2>5 DEF Next
<1> QED BY <1>1, <1>2, PTL DEF Spec

-----------------------------------------------------------------------------
(* The fence *)

\* The score reaches NearFull exactly when a representative window does.
LEMMA FullIsNearlyFull ==
  ASSUME NEW p \in Snapshot
  PROVE  LoadScore(p) < NearFull <=> ~NearlyFull(p)
<1>1. p.util5h \in OptInt /\ p.util7d \in OptInt /\ p.claim \in Claim
  BY DEF Snapshot
<1>2. p # None /\ None \notin Int
  BY PoolSelectionAssumption, RateLimitAssumption
<1>3. LoadScore(p) = IF WindowUtil(p) = None THEN 50 ELSE Clamp(WindowUtil(p))
  BY <1>2 DEF LoadScore, UnknownScore
<1>4. CASE p.claim = "7d"
  <2>1. WindowUtil(p) = p.util7d /\ Utilizations(p) = {p.util7d} \ {None}
    BY <1>4 DEF WindowUtil, Utilizations
  <2> QED BY <1>1, <1>2, <1>3, <2>1 DEF OptInt, Clamp, NearFull, NearlyFull
<1>5. CASE p.claim = "5h"
  <2>1. WindowUtil(p) = p.util5h /\ Utilizations(p) = {p.util5h} \ {None}
    BY <1>5 DEF WindowUtil, Utilizations
  <2> QED BY <1>1, <1>2, <1>3, <2>1 DEF OptInt, Clamp, NearFull, NearlyFull
<1>6. CASE p.claim \notin {"5h", "7d"}
  <2>1. /\ Utilizations(p) = {p.util5h, p.util7d} \ {None}
        /\ WindowUtil(p) = IF p.util5h = None THEN p.util7d
                           ELSE IF p.util7d = None \/ p.util7d <= p.util5h THEN p.util5h
                           ELSE p.util7d
    BY <1>6 DEF WindowUtil, Utilizations
  <2>2. CASE p.util5h = None \/ p.util7d = None
    BY <1>1, <1>2, <1>3, <2>1, <2>2 DEF OptInt, Clamp, NearFull, NearlyFull
  <2>3. CASE p.util5h \in Int /\ p.util7d \in Int
    BY <1>2, <1>3, <2>1, <2>3 DEF Clamp, NearFull, NearlyFull
  <2> QED BY <1>1, <2>2, <2>3 DEF OptInt
<1> QED BY <1>4, <1>5, <1>6

LEMMA FenceIsIneligibility ==
  ASSUME TypeOK, NEW s \in Subs
  PROVE  IsEligible(latest[s], now) <=> ~Fenced(s)
<1>1. latest[s] \in Snapshot \cup {None}
  BY DEF TypeOK
<1>2. CASE latest[s] = None
  BY <1>2 DEF IsEligible, Fenced
<1>3. CASE latest[s] # None
  <2>1. LoadScore(latest[s]) < NearFull <=> ~NearlyFull(latest[s])
    BY <1>1, <1>3, FullIsNearlyFull
  <2> QED BY <1>3, <2>1 DEF IsEligible, Fenced, RateLimited, Cooling
<1> QED BY <1>2, <1>3

-----------------------------------------------------------------------------
(* What select sees of the state *)

LEMMA SeenCandidates ==
  ASSUME TypeOK, NEW ids \in SUBSET Subs
  PROVE  /\ Candidates(ids) \subseteq RankedCandidate
         /\ \A c \in Candidates(ids) : /\ c.id \in ids
                                       /\ c.snapshot = latest[c.id]
                                       /\ c.inFlight = inFlight[c.id]
         /\ \A s \in ids : \E c \in Candidates(ids) : c.id = s
<1>1. \A s \in Subs : latest[s] \in Snapshot \cup {None} /\ inFlight[s] \in Nat
  BY PoolSelectionAssumption DEF TypeOK
<1> DEFINE Seen(s) == [id |-> s, snapshot |-> latest[s], inFlight |-> inFlight[s]]
<1>2. Candidates(ids) = {Seen(s) : s \in ids}
  BY DEF Candidates
<1>3. \A s \in ids : /\ Seen(s) \in RankedCandidate /\ Seen(s).id = s
                     /\ Seen(s).snapshot = latest[s] /\ Seen(s).inFlight = inFlight[s]
  BY <1>1 DEF RankedCandidate, Subs
<1> HIDE DEF Seen
<1> QED BY <1>2, <1>3

\* The candidates the ranking keeps are the unfenced ones.
LEMMA SeenEligible ==
  ASSUME TypeOK, NEW ids \in SUBSET Subs
  PROVE  /\ \A c \in Eligible(Candidates(ids), now) : c.id \in ids /\ ~Fenced(c.id)
         /\ \A s \in ids : ~Fenced(s) =>
              \E c \in Eligible(Candidates(ids), now) : c.id = s
  BY SeenCandidates, FenceIsIneligibility DEF Eligible

-----------------------------------------------------------------------------
(* The properties *)

LEMMA FencedNeverPickedHere == TypeOK => FencedNeverPicked
<1> SUFFICES ASSUME TypeOK, NEW ids \in SUBSET Subs
             PROVE  /\ \A c \in Picked(Candidates(ids), now) : ~Fenced(c.id)
                    /\ Picked(Candidates(ids), now) = {} <=> \A s \in ids : Fenced(s)
  BY DEF FencedNeverPicked
<1>1. \A c \in Picked(Candidates(ids), now) : ~Fenced(c.id)
  BY SeenEligible DEF Picked
<1>2. (\A s \in ids : Fenced(s)) => Picked(Candidates(ids), now) = {}
  BY SeenEligible DEF Picked
<1>3. ASSUME NEW s \in ids, ~Fenced(s) PROVE Picked(Candidates(ids), now) # {}
  <2> DEFINE E == Eligible(Candidates(ids), now)
  <2>1. E # {} /\ E \subseteq RankedCandidate
    BY <1>3, SeenEligible, SeenCandidates DEF Eligible
  <2>2. PICK c \in E : \A d \in E : ~Before(d, c)
    <3> HIDE DEF E
    <3> QED BY <2>1, FirstExists
  <2> QED BY <2>2 DEF Picked
<1> QED BY <1>1, <1>2, <1>3

\* The score of an unfenced subscription, in the words of INV-001.
LEMMA LoadIsBiasedScore ==
  ASSUME TypeOK, NEW c \in RankedCandidate, ~Fenced(c.id),
         c.snapshot = latest[c.id], c.inFlight = inFlight[c.id]
  PROVE  Load(c.id) = BiasedScore(c)
<1> DEFINE p == latest[c.id]
<1>1. p \in Snapshot \cup {None} /\ inFlight[c.id] \in Nat /\ None \notin Snapshot
  BY PoolSelectionAssumption DEF RankedCandidate, TypeOK
<1>2. CASE p = None
  BY <1>1, <1>2 DEF Load, BiasedScore, LoadScore, UnknownScore, InFlightWeight
<1>3. CASE p \in Snapshot
  <2>1. p.util5h \in OptInt /\ p.util7d \in OptInt /\ None \notin Int /\ p # None
    BY <1>1, <1>3, RateLimitAssumption DEF Snapshot
  <2>2. \A u \in Utilizations(p) : u < NearFull
    <3>1. Utilizations(p) \subseteq Int
      BY <2>1 DEF Utilizations, OptInt
    <3> QED BY <2>1, <3>1 DEF Fenced, NearlyFull, NearFull
  <2>3. CASE Utilizations(p) = {}
    <3>1. WindowUtil(p) = None
      BY <2>1, <2>3 DEF Utilizations, WindowUtil
    <3> QED BY <1>1, <2>1, <2>3, <3>1
            DEF Load, BiasedScore, LoadScore, UnknownScore, InFlightWeight
  <2>4. CASE Utilizations(p) # {}
    <3> DEFINE w == WindowUtil(p)
               Top(u) == u \in Utilizations(p) /\ \A v \in Utilizations(p) : v <= u
    <3>1. Top(w) /\ w \in Int /\ w # None
      <4>1. CASE p.claim = "7d"
        BY <2>1, <2>4, <4>1 DEF WindowUtil, Utilizations, OptInt
      <4>2. CASE p.claim = "5h"
        BY <2>1, <2>4, <4>2 DEF WindowUtil, Utilizations, OptInt
      <4>3. CASE p.claim \notin {"5h", "7d"}
        BY <2>1, <2>4, <4>3 DEF WindowUtil, Utilizations, OptInt
      <4> QED BY <4>1, <4>2, <4>3
    <3>2. Utilizations(p) \subseteq Int
      BY <2>1 DEF Utilizations, OptInt
    <3>3. \A u : Top(u) => u = w
      BY <3>1, <3>2
    <3>4. (CHOOSE u \in Utilizations(p) : \A v \in Utilizations(p) : v <= u) = w
      BY <3>1, <3>3
    <3>5. w < 98
      BY <2>2, <3>1 DEF NearFull
    <3>6. LoadScore(p) = IF w < 0 THEN 0 ELSE w
      BY <2>1, <3>1, <3>5 DEF LoadScore, Clamp
    <3>7. Load(c.id) = (IF w < 0 THEN 0 ELSE w) + 5 * inFlight[c.id]
      BY <2>1, <2>4, <3>4 DEF Load
    <3> QED BY <3>6, <3>7 DEF BiasedScore, InFlightWeight
  <2> QED BY <2>3, <2>4
<1> QED BY <1>1, <1>2, <1>3

LEMMA PicksLeastLoadedHere == TypeOK => PicksLeastLoaded
<1> SUFFICES ASSUME TypeOK, NEW ids \in SUBSET Subs,
                    NEW c \in Picked(Candidates(ids), now),
                    NEW s \in {t \in ids : ~Fenced(t)} \ {c.id}
             PROVE  /\ Load(c.id) <= Load(s)
                    /\ Load(c.id) = Load(s) => inFlight[c.id] <= inFlight[s]
                    /\ \A d \in Picked(Candidates(ids), now) : d.id # s
  BY DEF PicksLeastLoaded
<1>1. PICK e \in Eligible(Candidates(ids), now) : e.id = s
  BY SeenEligible
<1>2. /\ c \in Eligible(Candidates(ids), now)
      /\ \A d \in Eligible(Candidates(ids), now) : ~Before(d, c)
  BY DEF Picked
<1>3. /\ c \in RankedCandidate /\ c.snapshot = latest[c.id] /\ c.inFlight = inFlight[c.id]
      /\ e \in RankedCandidate /\ e.snapshot = latest[s] /\ e.inFlight = inFlight[s]
  BY <1>1, <1>2, SeenCandidates DEF Eligible
<1>4. Load(c.id) = BiasedScore(c) /\ Load(s) = BiasedScore(e)
  BY <1>1, <1>2, <1>3, SeenEligible, LoadIsBiasedScore
<1>5. Before(c, e) /\ ~Before(e, c)
  BY <1>1, <1>2, <1>3, NoTies
<1>6. ASSUME NEW d \in Picked(Candidates(ids), now), d.id = s PROVE FALSE
  <2>1. d \in Candidates(ids) /\ ~Before(c, d)
    BY <1>2, <1>6 DEF Picked, Eligible
  <2>2. d.snapshot = e.snapshot /\ d.inFlight = e.inFlight /\ d.id = e.id
    BY <1>1, <1>3, <1>6, <2>1, SeenCandidates
  <2> QED BY <1>5, <2>1, <2>2 DEF Before, BiasedScore
<1>7. Load(c.id) <= Load(s) /\ (Load(c.id) = Load(s) => inFlight[c.id] <= inFlight[s])
  BY <1>3, <1>4, <1>5, BiasedIsNat DEF Before
<1> QED BY <1>6, <1>7

LEMMA SpreadsLoadHere == TypeOK => SpreadsLoad
<1> SUFFICES ASSUME TypeOK, NEW ids \in SUBSET Subs,
                    NEW c \in Picked(Candidates(ids), now), NEW s \in ids, ~Fenced(s)
             PROVE  inFlight[c.id] - inFlight[s] < 20
  BY DEF SpreadsLoad
<1>1. PICK e \in Eligible(Candidates(ids), now) : e.id = s
  BY SeenEligible
<1>2. c \in RankedCandidate /\ c.inFlight = inFlight[c.id] /\ ~Before(e, c)
  BY <1>1, SeenCandidates DEF Picked, Eligible
<1>3. e \in RankedCandidate /\ e.inFlight = inFlight[s] /\ e.snapshot = latest[s]
  BY <1>1, SeenCandidates DEF Eligible
<1>4. LoadScore(e.snapshot) < 98
  <2>1. IsEligible(latest[s], now)
    BY FenceIsIneligibility
  <2>2. e.snapshot # None => LoadScore(e.snapshot) < 98
    BY <1>3, <2>1 DEF IsEligible, NearFull
  <2>3. LoadScore(None) = 50
    BY DEF LoadScore, UnknownScore
  <2> QED BY <2>2, <2>3
<1>5. BiasedScore(c) <= BiasedScore(e)
  BY <1>2, <1>3, BiasedIsNat DEF Before
<1>6. /\ LoadScore(c.snapshot) \in 0..100 /\ LoadScore(e.snapshot) \in 0..100
      /\ c.inFlight \in Nat /\ e.inFlight \in Nat
  BY <1>2, <1>3, BiasedIsNat
<1>7. /\ BiasedScore(c) = LoadScore(c.snapshot) + 5 * c.inFlight
      /\ BiasedScore(e) = LoadScore(e.snapshot) + 5 * e.inFlight
  BY DEF BiasedScore, InFlightWeight
<1>8. LoadScore(c.snapshot) + 5 * c.inFlight <= LoadScore(e.snapshot) + 5 * e.inFlight
  BY <1>5, <1>7
<1>9. ASSUME NEW a \in 0..100, NEW b \in 0..100, NEW m \in Nat, NEW n \in Nat,
             b < 98, a + 5 * m <= b + 5 * n
      PROVE  m - n < 20
  <2>1. 5 * m < 5 * n + 100 /\ 5 * m \in Int /\ 5 * n \in Int
    BY <1>9
  <2>2. 5 * (n + 20) = 5 * n + 100
    OBVIOUS
  <2>3. m >= n + 20 => 5 * m >= 5 * (n + 20)
    OBVIOUS
  <2> QED BY <2>1, <2>2, <2>3
<1>10. c.inFlight - e.inFlight < 20
  BY <1>4, <1>6, <1>8, <1>9
<1> QED BY <1>2, <1>3, <1>10

-----------------------------------------------------------------------------
(* Retry-After *)

\* What is below the least element is fewest: no induction is needed.
LEMMA LeastOfFinite ==
  ASSUME NEW S, S \subseteq Int, IsFiniteSet(S), S # {}
  PROVE  \E x \in S : \A y \in S : x <= y
<1> DEFINE Below(x) == {y \in S : y < x}
           Sizes == {Cardinality(Below(x)) : x \in S}
<1>1. \A x : IsFiniteSet(Below(x)) /\ Cardinality(Below(x)) \in Nat
  BY FS_Subset, FS_CardinalityType
<1>2. PICK n \in Sizes : \A m \in Sizes : n <= m
  <2>1. Sizes \subseteq Nat /\ Sizes # {}
    BY <1>1
  <2> HIDE DEF Sizes
  <2> QED BY <2>1, LeastNat
<1>3. PICK x \in S : n = Cardinality(Below(x))
  OBVIOUS
<1>4. ASSUME NEW y \in S, y < x PROVE FALSE
  <2>1. Below(y) \subseteq Below(x) /\ y \in Below(x) /\ y \notin Below(y)
    <3>1. \A z \in S : z < y => z < x
      BY <1>4
    <3>2. ~(y < y)
      BY <1>4
    <3> QED BY <1>4, <3>1, <3>2
  <2>2. Cardinality(Below(x)) <= Cardinality(Below(y))
    BY <1>2, <1>3
  <2> HIDE DEF Below
  <2>3. /\ Cardinality(Below(y)) <= Cardinality(Below(x))
        /\ Cardinality(Below(x)) = Cardinality(Below(y)) => Below(x) = Below(y)
    BY <1>1, <2>1, FS_Subset
  <2> QED BY <1>1, <2>1, <2>2, <2>3
<1> QED BY <1>3, <1>4

LEMMA ResetIsOptInt ==
  ASSUME NEW p \in Snapshot \cup {None}
  PROVE  RepresentativeResetMs(p) \in OptInt
<1>1. CASE p = None
  BY <1>1 DEF RepresentativeResetMs, OptInt
<1>2. CASE p # None
  <2>1. p.cooldown \in OptInt /\ p.reset5h \in OptInt /\ p.reset7d \in OptInt
    BY <1>2 DEF Snapshot
  <2>2. RepresentativeReset(p) \in OptInt /\ Second \in Int
    BY <2>1, RateLimitAssumption DEF RepresentativeReset
  <2> QED BY <1>2, <2>1, <2>2 DEF RepresentativeResetMs, OptInt
<1> QED BY <1>1, <1>2

LEMMA ResetsFinite ==
  ASSUME TypeOK, NEW ids \in SUBSET Subs
  PROVE  Resets(Candidates(ids)) \subseteq Int /\ IsFiniteSet(Resets(Candidates(ids)))
<1> DEFINE f == [s \in ids |-> RepresentativeResetMs(latest[s])]
           T == {RepresentativeResetMs(latest[s]) : s \in ids}
<1>1. IsFiniteSet(ids)
  BY PoolSelectionAssumption, FS_Subset
<1>2. f \in Surjection(ids, T)
  BY DEF Surjection
<1>3. IsFiniteSet(T)
  <2> HIDE DEF f, T
  <2> QED BY <1>1, <1>2, FS_Surjection
<1>4. Resets(Candidates(ids)) \subseteq T
  BY SeenCandidates DEF Resets
<1>5. T \ {None} \subseteq Int
  BY ResetIsOptInt DEF TypeOK, OptInt
<1>6. None \notin Resets(Candidates(ids))
  BY DEF Resets
<1> HIDE DEF T
<1> QED BY <1>3, <1>4, <1>5, <1>6, FS_Subset

\* Rounding up to seconds never adds a whole one.
LEMMA SecondsAreTight ==
  ASSUME NEW t \in Int
  PROVE  LET n == AtLeastOne(CeilSeconds(t)) IN
         n \in Int /\ n >= 1 /\ (n = 1 \/ (n - 1) * Second < t)
<1> DEFINE q == (-t) \div Second
<1>1. Second \in Nat \ {0} /\ -t \in Int
  BY RateLimitAssumption
<1>2. q \in Int /\ Second * q <= -t /\ -t < Second * q + Second
  BY <1>1
<1>3. CeilSeconds(t) = -q
  BY DEF CeilSeconds
<1> HIDE DEF q
<1>4. (-q - 1) * Second = -(Second * q + Second)
  BY <1>1, <1>2
<1>5. Second * q \in Int
  BY <1>1, <1>2
<1>6. (-q - 1) * Second < t
  BY <1>1, <1>2, <1>4, <1>5
<1> QED BY <1>2, <1>3, <1>6 DEF AtLeastOne

LEMMA RetryAfterSoundHere == TypeOK => RetryAfterSound
<1> SUFFICES ASSUME TypeOK, NEW ids \in SUBSET Subs
             PROVE  LET n == RetryAfter(Candidates(ids), now) IN
                    /\ n >= 1
                    /\ n = 1 \/ \A s \in ids :
                         Cooling(latest[s]) /\ ~RateLimited(latest[s])
                             /\ ~NearlyFull(latest[s])
                             /\ (\A u \in ids : Fenced(u))
                           => now + (n - 1) * Second < latest[s].cooldown
  BY DEF RetryAfterSound
<1> DEFINE R == Resets(Candidates(ids))
           n == RetryAfter(Candidates(ids), now)
<1>1. now \in Int
  BY DEF TypeOK
<1>2. ASSUME NEW s \in ids, Cooling(latest[s]), Fenced(s)
      PROVE  latest[s].cooldown \in R
  <2>1. PICK c \in Candidates(ids) : c.id = s /\ c.snapshot = latest[s]
    BY SeenCandidates
  <2>2. RepresentativeResetMs(c.snapshot) = latest[s].cooldown
    BY <1>2, <2>1 DEF RepresentativeResetMs, Cooling, Fenced
  <2>3. latest[s].cooldown # None
    BY <1>2 DEF Cooling
  <2> QED BY <2>2, <2>3 DEF Resets
<1>3. CASE R = {}
  <2>1. n = 30
    BY <1>3 DEF RetryAfter, SoonestRetry, DefaultRetry
  <2> QED BY <1>2, <1>3, <2>1
<1>4. CASE R # {}
  <2>1. Candidates(ids) # {}
    BY <1>4 DEF Resets
  <2> DEFINE t == CHOOSE x \in R : \A u \in R : x <= u
  <2>2. t \in R /\ (\A u \in R : t <= u) /\ R \subseteq Int
    <3>1. R \subseteq Int /\ IsFiniteSet(R)
      BY ResetsFinite
    <3> HIDE DEF R
    <3> QED BY <1>4, <3>1, LeastOfFinite
  <2>3. n = AtLeastOne(CeilSeconds(t - now))
    BY <1>4, <2>1 DEF RetryAfter, SoonestRetry
  <2> HIDE DEF t, n, R
  <2>4. n \in Int /\ n >= 1 /\ (n = 1 \/ (n - 1) * Second < t - now)
    BY <1>1, <2>2, <2>3, SecondsAreTight
  <2>5. ASSUME NEW s \in ids, Cooling(latest[s]), Fenced(s), n # 1
        PROVE  now + (n - 1) * Second < latest[s].cooldown
    <3>1. t <= latest[s].cooldown /\ latest[s].cooldown \in Int /\ t \in Int
      BY <1>2, <2>2, <2>5
    <3>2. (n - 1) * Second \in Int
      BY <2>4, RateLimitAssumption
    <3> QED BY <1>1, <2>4, <2>5, <3>1, <3>2
  <2> USE DEF n
  <2> QED BY <2>4, <2>5
<1> QED BY <1>3, <1>4

-----------------------------------------------------------------------------
\* The fence is sharp for pools of any size: no fenced subscription is picked,
\* and no_capacity is answered only when all are fenced.
THEOREM FenceIsSharp == Spec => []FencedNeverPicked
  BY TypeCorrect, FencedNeverPickedHere, PTL

\* The pick is the one least loaded unfenced candidate, for pools of any size.
THEOREM LeastLoadedIsPicked == Spec => []PicksLeastLoaded
  BY TypeCorrect, PicksLeastLoadedHere, PTL

\* For pools of any size and any utilizations the bias keeps concurrent
\* requests spread: never 20 more on the pick than on a free candidate.
THEOREM LoadIsSpread == Spec => []SpreadsLoad
  BY TypeCorrect, SpreadsLoadHere, PTL

\* For pools of any size and any replies: Retry-After is at least a second and
\* less than a second more than the first cooldown of the pool (soonestRetry).
THEOREM RetryAfterIsSound == Spec => []RetryAfterSound
  BY TypeCorrect, RetryAfterSoundHere, PTL
=============================================================================
