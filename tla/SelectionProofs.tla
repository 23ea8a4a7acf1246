--------------------------- MODULE SelectionProofs ---------------------------
(***************************************************************************)
(* What is true of the operators of Selection and RateLimit whatever they  *)
(* are applied to: the types of what they return, and the ranking.  Scores *)
(* are numbers from 0 to 100 (ScoreBound); a nonempty set of candidates,   *)
(* however large, has a first one (FirstExists), found by minimizing       *)
(* score, in-flight count and rank in turn; no two of them tie (NoTies).   *)
(***************************************************************************)
EXTENDS Selection, TLAPS, WellFoundedInduction

RankedCandidate == [id : DOMAIN Rank, snapshot : Snapshot \cup {None}, inFlight : Nat]

-----------------------------------------------------------------------------
(* Snapshots *)

\* parseRateLimitHeaders builds a snapshot out of whatever a reply says.
LEMMA ParsedIsSnapshot ==
  ASSUME NEW reply \in Reply, NEW t \in Int
  PROVE  ParseRateLimitHeaders(reply, t) \in Snapshot
<1>1. Cooldown(reply, t) \in OptInt
  <2>1. reply.retryAfter \in OptInt /\ reply.reset5h \in OptInt /\ reply.reset7d \in OptInt
    BY DEF Reply
  <2>2. RepresentativeReset(reply) \in OptInt
    BY <2>1 DEF RepresentativeReset
  <2>3. Second \in Int /\ DefaultCooldown \in Int
    BY RateLimitAssumption
  <2> QED BY <2>1, <2>2, <2>3 DEF Cooldown, OptInt
<1>2. KnownStatus(reply.status) \in UnifiedStatus
  BY DEF KnownStatus, UnifiedStatus
<1> QED BY <1>1, <1>2 DEF ParseRateLimitHeaders, Reply, Snapshot

\* Once eligible, a snapshot stays so: its deadlines only come nearer.
LEMMA EligibleStays ==
  ASSUME NEW p \in Snapshot \cup {None}, NEW t \in Int, NEW u \in Int, t <= u,
         IsEligible(p, t)
  PROVE  IsEligible(p, u)
<1>1. CASE p = None
  BY <1>1 DEF IsEligible
<1>2. CASE p # None
  <2>1. p.cooldown \in OptInt
    BY <1>2 DEF Snapshot
  <2> QED BY <1>2, <2>1 DEF IsEligible, OptInt
<1> QED BY <1>1, <1>2

-----------------------------------------------------------------------------
(* Scores *)

LEMMA WindowIsOptInt ==
  ASSUME NEW p \in Snapshot
  PROVE  WindowUtil(p) \in OptInt
<1>1. p.util5h \in OptInt /\ p.util7d \in OptInt
  BY DEF Snapshot
<1> QED BY <1>1 DEF WindowUtil

LEMMA ScoreBound ==
  ASSUME NEW p \in Snapshot \cup {None}
  PROVE  LoadScore(p) \in 0..100
<1>1. CASE p = None
  BY <1>1 DEF LoadScore, UnknownScore
<1>2. CASE p # None
  <2>1. WindowUtil(p) \in OptInt
    BY <1>2, WindowIsOptInt
  <2> QED BY <1>2, <2>1 DEF LoadScore, OptInt, Clamp, UnknownScore
<1> QED BY <1>1, <1>2

LEMMA BiasedIsNat ==
  ASSUME NEW c \in RankedCandidate
  PROVE  /\ LoadScore(c.snapshot) \in 0..100
         /\ c.inFlight \in Nat
         /\ BiasedScore(c) \in Nat
         /\ Rank[c.id] \in Nat
<1>1. c.snapshot \in Snapshot \cup {None} /\ c.inFlight \in Nat /\ c.id \in DOMAIN Rank
  BY DEF RankedCandidate
<1>2. LoadScore(c.snapshot) \in 0..100
  BY <1>1, ScoreBound
<1>3. Rank[c.id] \in Nat
  BY <1>1, SelectionAssumption
<1> QED BY <1>1, <1>2, <1>3 DEF BiasedScore, InFlightWeight

-----------------------------------------------------------------------------
(* The ranking *)

LEMMA LeastNat ==
  ASSUME NEW T, T \subseteq Nat, T # {}
  PROVE  \E x \in T : \A y \in T : x <= y
<1> DEFINE Less == OpToRel(<, Nat)
<1>1. PICK x \in T : \A y \in T : <<y, x>> \notin Less
  <2>1. IsWellFoundedOn(Less, Nat)
    BY NatLessThanWellFounded
  <2> HIDE DEF Less
  <2> QED BY <2>1, WFMin
<1>2. ASSUME NEW y \in T PROVE x <= y
  <2>1. x \in Nat /\ y \in Nat /\ <<y, x>> \in Nat \X Nat
    OBVIOUS
  <2>2. ~(y < x)
    BY <1>1, <2>1 DEF OpToRel
  <2> QED BY <2>1, <2>2
<1> QED BY <1>2

\* Among any candidates there is one that no other sorts before.
LEMMA FirstExists ==
  ASSUME NEW S, S \subseteq RankedCandidate, S # {}
  PROVE  \E c \in S : \A d \in S : ~Before(d, c)
<1>0. ASSUME NEW c \in S
      PROVE  BiasedScore(c) \in Nat /\ c.inFlight \in Nat /\ Rank[c.id] \in Nat
  BY BiasedIsNat
<1> DEFINE Scores == {BiasedScore(c) : c \in S}
<1>1. PICK x \in Scores : \A y \in Scores : x <= y
  <2>1. Scores \subseteq Nat /\ Scores # {}
    BY <1>0
  <2> HIDE DEF Scores
  <2> QED BY <2>1, LeastNat
<1> DEFINE A == {c \in S : BiasedScore(c) = x}
           Counts == {c.inFlight : c \in A}
<1>2. PICK n \in Counts : \A m \in Counts : n <= m
  <2>1. Counts \subseteq Nat /\ Counts # {}
    BY <1>0
  <2> HIDE DEF Counts
  <2> QED BY <2>1, LeastNat
<1> DEFINE B == {c \in A : c.inFlight = n}
           Ranks == {Rank[c.id] : c \in B}
<1>3. PICK r \in Ranks : \A q \in Ranks : r <= q
  <2>1. Ranks \subseteq Nat /\ Ranks # {}
    BY <1>0
  <2> HIDE DEF Ranks
  <2> QED BY <2>1, LeastNat
<1>4. PICK c \in S : BiasedScore(c) = x /\ c.inFlight = n /\ Rank[c.id] = r
  BY <1>3
<1>5. ASSUME NEW d \in S PROVE ~Before(d, c)
  <2>1. x <= BiasedScore(d)
    BY <1>1
  <2>2. BiasedScore(d) = x => n <= d.inFlight
    BY <1>2
  <2>3. BiasedScore(d) = x /\ d.inFlight = n => r <= Rank[d.id]
    BY <1>3
  <2>4. x \in Nat /\ n \in Nat /\ r \in Nat
    BY <1>0, <1>4
  <2> HIDE DEF Scores, A, Counts, B, Ranks
  <2> QED BY <1>0, <1>4, <2>1, <2>2, <2>3, <2>4 DEF Before
<1> QED BY <1>5

\* Two candidates of different subscriptions never tie.
LEMMA NoTies ==
  ASSUME NEW c \in RankedCandidate, NEW d \in RankedCandidate, c.id # d.id
  PROVE  Before(c, d) \/ Before(d, c)
<1>1. Rank[c.id] # Rank[d.id]
  BY SelectionAssumption DEF RankedCandidate
<1> QED BY <1>1, BiasedIsNat DEF Before
=============================================================================
