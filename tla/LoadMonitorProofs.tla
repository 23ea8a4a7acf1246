-------------------------- MODULE LoadMonitorProofs --------------------------
(***************************************************************************)
(* Proofs about LoadMonitor for any set of subscriptions, any number of    *)
(* sweeps that could overlap, and any thresholds.  The overlap guard is a  *)
(* flag, so what it stands for is the invariant: it is set as long as a    *)
(* sweep is at work, and one at most is.  SweepLeft counts its steps.      *)
(***************************************************************************)
EXTENDS LoadMonitor, SelectionProofs, FiniteSetTheorems

\* The flag covers the sweep at work.
Guarded == \A w \in Sweeps : phase[w] # "idle" => running

\* Why a probe is asked for: shouldSkip found the subscription idle, and it stays
\* so until the probe leaves unless a proxied response comes in.
Renewing == \A w \in Sweeps :
  phase[w] = "renewing" => probed[w] \in Subs /\ (w \in overtaken \/ IdleBeyond(probed[w]))

SweepInv == TypeOK /\ Guarded /\ AtMostOneSweep /\ Renewing

-----------------------------------------------------------------------------
(* Types *)

LEMMA StoreTyped ==
  ASSUME TypeOK, NEW s \in Subs, NEW reply \in Replies, Store(s, reply)
  PROVE  load' \in [Subs -> Sample \cup {None}]
<1>1. reply \in Reply
  BY LoadMonitorAssumption
<1>2. [snapshot |-> ParseRateLimitHeaders(reply, 0), age |-> 0] \in Sample
  BY <1>1, ParsedIsSnapshot, LoadMonitorAssumption DEF Sample
<1> QED BY <1>2 DEF Store, TypeOK

LEMMA TickTyped == TypeOK /\ Tick => TypeOK'
<1> SUFFICES ASSUME TypeOK, Tick PROVE TypeOK'
  OBVIOUS
<1> USE LoadMonitorAssumption DEF TypeOK
<1>1. load' \in [Subs -> Sample \cup {None}]
  <2>1. ASSUME NEW s \in Subs, load[s] # None
        PROVE  [load[s] EXCEPT !.age = Older(@)] \in Sample
    <3>1. load[s] \in Sample
      BY <2>1
    <3>2. Older(load[s].age) \in 0..AgeCap
      BY <3>1 DEF Sample, Older
    <3> QED BY <3>1, <3>2 DEF Sample
  <2> QED BY <2>1 DEF Tick
<1>2. since' \in [Sweeps -> 0..MaxSweep]
  BY DEF Tick
<1> QED BY <1>1, <1>2 DEF Tick

LEMMA TypeStep == TypeOK /\ [Next]_vars => TypeOK'
<1> SUFFICES ASSUME TypeOK, [Next]_vars PROVE TypeOK'
  OBVIOUS
<1> USE LoadMonitorAssumption DEF TypeOK, Phase, sweepVars
<1>1. ASSUME NEW s \in Subs, Serve(s) \/ Disable(s) PROVE TypeOK'
  BY <1>1 DEF Serve, Disable
<1>2. ASSUME NEW s \in Subs, NEW reply \in Replies, Harvest(s, reply) PROVE TypeOK'
  BY <1>2, StoreTyped DEF Harvest
<1>3. ASSUME NEW w \in Sweeps, TimerFires(w) PROVE TypeOK'
  <2>1. running' \in BOOLEAN
    BY <1>3 DEF TimerFires
  <2> QED BY <1>3, <2>1 DEF TimerFires
<1>4. ASSUME NEW w \in Sweeps, List(w) PROVE TypeOK'
  BY <1>4 DEF List
<1>5. ASSUME NEW w \in Sweeps, Over(w) PROVE TypeOK'
  <2>1. running' \in BOOLEAN
    BY <1>5 DEF Over
  <2> QED BY <1>5, <2>1 DEF Over
<1>6. ASSUME NEW w \in Sweeps, NEW s \in Subs, Visit(w, s) PROVE TypeOK'
  BY <1>6 DEF Visit
<1>7. ASSUME NEW w \in Sweeps, NEW s \in Subs, VisitFails(w, s) PROVE TypeOK'
  BY <1>7 DEF VisitFails
<1>8. ASSUME NEW w \in Sweeps, NEW s \in Subs, NEW reply \in Replies, Answer(w, s, reply)
      PROVE  TypeOK'
  BY <1>8, StoreTyped DEF Answer
<1>9. ASSUME NEW w \in Sweeps, NEW s \in Subs, TokenFails(w, s) \/ ProbeFails(w, s)
      PROVE  TypeOK'
  <2>1. active' \in SUBSET Subs
    BY <1>9 DEF TokenFails, ProbeFails
  <2> QED BY <1>9, <2>1 DEF TokenFails, ProbeFails, GoesOn, LeftAfterFailure
<1>10. ASSUME NEW w \in Sweeps, NEW s \in Subs, Launch(w, s) PROVE TypeOK'
  BY <1>10 DEF Launch
<1>11. CASE Stop
  <2>1. started' \in BOOLEAN
    BY <1>11 DEF Stop
  <2> QED BY <1>11, <2>1 DEF Stop
<1>12. CASE UNCHANGED vars
  BY <1>12 DEF vars
<1> QED
  BY <1>1, <1>2, <1>3, <1>4, <1>5, <1>6, <1>7, <1>8, <1>9, <1>10, <1>11, <1>12, TickTyped
  DEF Next, Sweeping

-----------------------------------------------------------------------------
(* The overlap guard *)

\* Steps within a sweep leave the guard and no other sweep starts.
LEMMA SweepStep ==
  ASSUME SweepInv, [Next]_vars
  PROVE  Guarded' /\ AtMostOneSweep'
<1> USE DEF SweepInv, TypeOK, Guarded, AtMostOneSweep, sweepVars
<1>1. ASSUME NEW w \in Sweeps, TimerFires(w) PROVE Guarded' /\ AtMostOneSweep'
  BY <1>1 DEF TimerFires, MayStart
<1>2. ASSUME NEW w \in Sweeps, Over(w) PROVE Guarded' /\ AtMostOneSweep'
  BY <1>2 DEF Over
<1>3. ASSUME NEW w \in Sweeps, phase[w] # "idle",
             \E p \in Phase : phase' = [phase EXCEPT ![w] = p], running' = running
      PROVE  Guarded' /\ AtMostOneSweep'
  BY <1>3
<1>4. ASSUME NEW w \in Sweeps, NEW s \in Subs,
             \/ List(w) \/ Visit(w, s) \/ Launch(w, s)
             \/ TokenFails(w, s) \/ ProbeFails(w, s)
             \/ \E reply \in Replies : Answer(w, s, reply)
      PROVE  Guarded' /\ AtMostOneSweep'
  <2>1. phase[w] # "idle" /\ running' = running
    BY <1>4 DEF List, Visit, Launch, TokenFails, ProbeFails, GoesOn, Answer
  <2>2. \E p \in Phase : phase' = [phase EXCEPT ![w] = p]
    BY <1>4 DEF List, Visit, Launch, TokenFails, ProbeFails, GoesOn, Answer, Phase
  <2> QED BY <1>3, <2>1, <2>2
<1>5. ASSUME NEW w \in Sweeps, List(w) PROVE Guarded' /\ AtMostOneSweep'
  BY <1>5 DEF List
<1>6. CASE UNCHANGED <<phase, running>>
  BY <1>6
<1>7. ASSUME \/ \E s \in Subs : Serve(s) \/ Disable(s) \/ \E reply \in Replies : Harvest(s, reply)
             \/ \E w \in Sweeps, s \in Subs : VisitFails(w, s)
             \/ Stop \/ Tick \/ UNCHANGED vars
      PROVE  UNCHANGED <<phase, running>>
  BY <1>7 DEF Serve, Disable, Harvest, VisitFails, Stop, Tick, vars
<1> QED BY <1>1, <1>2, <1>4, <1>5, <1>6, <1>7 DEF Next, Sweeping

-----------------------------------------------------------------------------
(* What stands behind a probe that is about to leave *)

\* The sample is compared with the clock of the sweep's start, which can only make
\* it look younger than it is.
LEMMA NotSkippedIdle ==
  ASSUME TypeOK, NEW w \in Sweeps, NEW s \in Subs, ~ShouldSkip(w, s)
  PROVE  IdleBeyond(s)
<1> SUFFICES ASSUME load[s] # None
             PROVE  /\ load[s].age >= IdleThreshold
                    /\ \/ load[s].snapshot.cooldown = None
                       \/ load[s].snapshot.cooldown <= load[s].age
  BY DEF IdleBeyond
<1>1. load[s] \in Sample /\ since[w] \in Nat
  BY LoadMonitorAssumption DEF TypeOK
<1>2. load[s].age \in Nat /\ load[s].snapshot.cooldown \in OptInt
  BY <1>1, LoadMonitorAssumption DEF Sample, Snapshot
<1>3. /\ ~(AgeAtStart(w, s) < IdleThreshold)
      /\ \/ load[s].snapshot.cooldown = None
         \/ ~(load[s].snapshot.cooldown > AgeAtStart(w, s))
  BY DEF ShouldSkip
<1>4. load[s].age >= IdleThreshold
  BY <1>1, <1>2, <1>3, LoadMonitorAssumption DEF AgeAtStart
<1>5. load[s].snapshot.cooldown = None \/ load[s].snapshot.cooldown <= load[s].age
  BY <1>1, <1>2, <1>3 DEF AgeAtStart, OptInt
<1> QED BY <1>4, <1>5

\* Time makes nobody less idle.
LEMMA TickKeepsIdle ==
  ASSUME TypeOK, Tick, NEW s \in Subs, IdleBeyond(s)
  PROVE  IdleBeyond(s)'
<1> SUFFICES ASSUME load'[s] # None
             PROVE  /\ load'[s].age >= IdleThreshold
                    /\ \/ load'[s].snapshot.cooldown = None
                       \/ load'[s].snapshot.cooldown <= load'[s].age
  BY DEF IdleBeyond
<1>1. load[s] # None /\ load'[s] = [load[s] EXCEPT !.age = Older(@)]
  BY DEF Tick
<1>2. load[s] \in Sample
  BY <1>1 DEF TypeOK
<1>3. load[s].age \in Nat /\ load[s].snapshot.cooldown \in OptInt
  BY <1>2, LoadMonitorAssumption DEF Sample, Snapshot
<1>4. load'[s].snapshot = load[s].snapshot /\ load'[s].age = Older(load[s].age)
  BY <1>1, <1>2 DEF Sample
<1>5. Older(load[s].age) \in Nat /\ Older(load[s].age) >= load[s].age
  BY <1>3 DEF Older
<1>6. /\ load[s].age >= IdleThreshold
      /\ load[s].snapshot.cooldown = None \/ load[s].snapshot.cooldown <= load[s].age
  BY <1>1 DEF IdleBeyond
<1> QED BY <1>3, <1>4, <1>5, <1>6, LoadMonitorAssumption DEF OptInt

\* A sweep that awaits a token keeps its ground through everything but a response,
\* which is noted in overtaken; no other sweep is there to store a sample.
LEMMA RenewingStep ==
  ASSUME SweepInv, [Next]_vars
  PROVE  Renewing'
<1> SUFFICES ASSUME NEW w \in Sweeps, phase'[w] = "renewing"
             PROVE  probed'[w] \in Subs /\ (w \in overtaken' \/ IdleBeyond(probed[w])')
  BY DEF Renewing
<1> USE DEF SweepInv
<1> DEFINE Waits == /\ phase[w] = "renewing" /\ probed'[w] = probed[w]
                    /\ (w \in overtaken => w \in overtaken')
<1>1. ASSUME Waits, load' = load PROVE probed'[w] \in Subs /\ (w \in overtaken' \/ IdleBeyond(probed[w])')
  BY <1>1 DEF Renewing, IdleBeyond
<1>2. ASSUME NEW s \in Subs, Serve(s) \/ Disable(s) PROVE Waits /\ load' = load
  BY <1>2 DEF Serve, Disable, sweepVars
<1>3. ASSUME NEW s \in Subs, NEW reply \in Replies, Harvest(s, reply)
      PROVE  probed'[w] \in Subs /\ (w \in overtaken' \/ IdleBeyond(probed[w])')
  <2>1. Waits
    BY <1>3 DEF Harvest
  <2>2. CASE probed[w] = s
    BY <1>3, <2>1, <2>2 DEF Harvest
  <2>3. CASE probed[w] # s
    <3>1. probed[w] \in Subs /\ load'[probed[w]] = load[probed[w]]
      BY <1>3, <2>1, <2>3 DEF Harvest, Store, Renewing, TypeOK
    <3> QED BY <2>1, <3>1 DEF Renewing, IdleBeyond
  <2> QED BY <2>2, <2>3
<1>4. ASSUME NEW v \in Sweeps, TimerFires(v) \/ List(v) \/ Over(v) PROVE Waits /\ load' = load
  BY <1>4 DEF TimerFires, List, Over, TypeOK
<1>5. ASSUME NEW v \in Sweeps, NEW s \in Subs, VisitFails(v, s) PROVE Waits /\ load' = load
  BY <1>5 DEF VisitFails
<1>6. ASSUME NEW v \in Sweeps, NEW s \in Subs, Visit(v, s)
      PROVE  probed'[w] \in Subs /\ (w \in overtaken' \/ IdleBeyond(probed[w])')
  <2>1. CASE v = w /\ ~ShouldSkip(v, s)
    <3>1. IdleBeyond(s)
      BY <2>1, NotSkippedIdle
    <3> QED BY <1>6, <2>1, <3>1 DEF Visit, IdleBeyond, TypeOK
  <2>2. CASE ~(v = w /\ ~ShouldSkip(v, s))
    BY <1>1, <1>6, <2>2 DEF Visit, TypeOK
  <2> QED BY <2>1, <2>2
<1>7. ASSUME NEW v \in Sweeps, NEW s \in Subs,
             Launch(v, s) \/ TokenFails(v, s) \/ ProbeFails(v, s)
      PROVE  Waits /\ load' = load
  BY <1>7 DEF Launch, TokenFails, ProbeFails, GoesOn, TypeOK
<1>8. ASSUME NEW v \in Sweeps, NEW s \in Subs, NEW reply \in Replies, Answer(v, s, reply)
      PROVE  FALSE
  <2>1. v # w /\ phase[w] = "renewing" /\ phase[v] = "probing"
    BY <1>8 DEF Answer, TypeOK
  <2> QED BY <2>1 DEF AtMostOneSweep
<1>9. CASE Stop
  BY <1>1, <1>9 DEF Stop, sweepVars
<1>10. CASE Tick
  <2>1. Waits
    BY <1>10 DEF Tick
  <2> QED BY <1>10, <2>1, TickKeepsIdle DEF Renewing, Tick, IdleBeyond
<1>11. CASE UNCHANGED vars
  BY <1>1, <1>11 DEF vars, sweepVars
<1> QED
  BY <1>1, <1>2, <1>3, <1>4, <1>5, <1>6, <1>7, <1>8, <1>9, <1>10, <1>11 DEF Next, Sweeping

LEMMA SweepInit == Init => SweepInv
<1> SUFFICES ASSUME Init PROVE SweepInv
  OBVIOUS
<1>1. started \in BOOLEAN /\ running \in BOOLEAN
  BY DEF Init
<1>2. TypeOK
  BY <1>1, LoadMonitorAssumption DEF Init, TypeOK, Phase
<1> QED BY <1>2 DEF Init, SweepInv, Guarded, AtMostOneSweep, Renewing

LEMMA SweepAlways == Spec => []SweepInv
<1>1. SweepInv /\ [Next]_vars => SweepInv'
  BY TypeStep, SweepStep, RenewingStep DEF SweepInv
<1> QED BY SweepInit, <1>1, PTL DEF Spec

-----------------------------------------------------------------------------
\* Harvests, probes and time keep the types of the state.
THEOREM TypeCorrect == Spec => []TypeOK
  BY SweepAlways, PTL DEF SweepInv

\* However many calls the timer could make and however slow a sweep is, one
\* sweep is at work at a time (the running flag of LoadProbeWorker).
THEOREM SweepsNeverStack == Spec => []AtMostOneSweep
  BY SweepAlways, PTL DEF SweepInv

\* A probe is launched only for a subscription whose newest sample is beyond the
\* idle threshold and past its cooldown at that moment, or for which a response
\* came in while its token was awaited: for sweeps of any duration, whatever is
\* served, disabled or marked around them (probeIdle, shouldSkip, tick).
THEOREM ProbesAreForIdle == Spec => ProbesOnlyIdle
<1> DEFINE Idle == \A w \in Sweeps :
      phase[w] # "probing" /\ phase'[w] = "probing" =>
        w \in overtaken \/ IdleBeyond(probed[w])
<1>1. SweepInv /\ [Next]_vars => Idle
  <2> SUFFICES ASSUME SweepInv, [Next]_vars, NEW w \in Sweeps,
                      phase[w] # "probing", phase'[w] = "probing"
               PROVE  phase[w] = "renewing"
    BY DEF SweepInv, Renewing
  <2> USE DEF SweepInv, TypeOK
  <2>1. ASSUME NEW v \in Sweeps, NEW s \in Subs, Launch(v, s) PROVE phase[w] = "renewing"
    BY <2>1 DEF Launch
  <2>2. ASSUME NEW v \in Sweeps,
               \/ TimerFires(v) \/ List(v) \/ Over(v)
               \/ \E s \in Subs : \/ Visit(v, s) \/ VisitFails(v, s)
                                 \/ TokenFails(v, s) \/ ProbeFails(v, s)
               \/ \E s \in Subs, reply \in Replies : Answer(v, s, reply)
        PROVE  FALSE
    BY <2>2 DEF TimerFires, List, Over, Visit, VisitFails, TokenFails, ProbeFails, GoesOn,
                Answer
  <2>3. ASSUME \/ \E s \in Subs : Serve(s) \/ Disable(s)
                                   \/ \E reply \in Replies : Harvest(s, reply)
               \/ Stop \/ Tick \/ UNCHANGED vars
        PROVE  FALSE
    BY <2>3 DEF Serve, Disable, Harvest, Stop, Tick, vars, sweepVars
  <2> QED BY <2>1, <2>2, <2>3 DEF Next, Sweeping
<1>2. SweepInv /\ [Next]_vars => [Idle]_vars
  BY <1>1
<1> HIDE DEF Idle
<1>3. [][Idle]_vars => ProbesOnlyIdle
  BY PTL DEF Idle, ProbesOnlyIdle
<1> QED BY SweepAlways, <1>2, <1>3, PTL DEF Spec

-----------------------------------------------------------------------------
(* Why a sweep ends, and what it costs *)

\* Steps a sweep still has to take: the listing, for each id it has yet to visit
\* the read and perhaps its token and a probe, and the end.
SweepLeft(w) ==
  IF phase[w] = "listing" THEN 3 * Cardinality(Subs) + 2
  ELSE IF phase[w] = "visiting" THEN 3 * Cardinality(left[w]) + 1
  ELSE IF phase[w] = "renewing" THEN 3 * Cardinality(left[w]) + 3
  ELSE IF phase[w] = "probing" THEN 3 * Cardinality(left[w]) + 2
  ELSE 0

\* Each step of a sweep brings it nearer to its end and no other step sets it
\* back: while tokens and probes fail, rows are disabled and samples arrive, the loop of
\* probeIdle goes on to the next subscription, until the running flag is put down
\* again and the timer may start another sweep.
SweepAdvances(w) ==
  phase[w] # "idle" =>
    /\ SweepLeft(w)' <= SweepLeft(w)
    /\ Sweeping(w) \/ (\E s \in Subs : VisitFails(w, s)) => SweepLeft(w)' < SweepLeft(w)

SweepsAdvance == [][\A w \in Sweeps : SweepAdvances(w)]_vars

SweepsBounded ==
  \A w \in Sweeps : SweepLeft(w) \in 0..(3 * Cardinality(Subs) + 3)

\* What a sweep probes it takes off its list, to which nothing is added: it bills
\* no subscription twice (the for loop of probeIdle).
Spends(w) ==
  /\ phase[w] \in {"visiting", "renewing", "probing"} => left'[w] \subseteq left[w]
  /\ probed'[w] \notin {probed[w], None} => probed'[w] \in left[w] \ left'[w]

ProbedOncePerSweep == [][\A w \in Sweeps : Spends(w)]_vars

LEMMA LeftFinite ==
  ASSUME TypeOK, NEW w \in Sweeps
  PROVE  /\ IsFiniteSet(left[w])
         /\ Cardinality(left[w]) \in 0..Cardinality(Subs)
         /\ Cardinality(Subs) \in Nat
<1>1. left[w] \subseteq Subs /\ IsFiniteSet(Subs)
  BY LoadMonitorAssumption DEF TypeOK
<1> QED BY <1>1, FS_Subset, FS_CardinalityType

\* The steps of a sweep by what they do to what it has ahead of it.
Ahead(v, l, p) ==
  /\ left' = [left EXCEPT ![v] = l]
  /\ phase' = [phase EXCEPT ![v] = p]

LEMMA OwnStep ==
  ASSUME TypeOK, NEW v \in Sweeps, Sweeping(v) \/ \E s \in Subs : VisitFails(v, s)
  PROVE  \/ phase[v] = "listing" /\ Ahead(v, active, "visiting")
         \/ phase[v] \in {"listing", "visiting"} /\ Ahead(v, left[v], "idle")
         \/ /\ phase[v] = "visiting"
            /\ \E s \in left[v], p \in {"visiting", "renewing"} : Ahead(v, left[v] \ {s}, p)
         \/ phase[v] = "renewing" /\ Ahead(v, left[v], "probing")
         \/ phase[v] \in {"renewing", "probing"} /\ Ahead(v, left[v], "visiting")
<1> USE DEF TypeOK, Ahead
<1>1. CASE List(v)
  BY <1>1 DEF List
<1>2. CASE Over(v)
  BY <1>2 DEF Over
<1>3. ASSUME NEW s \in Subs, Visit(v, s) \/ VisitFails(v, s)
      PROVE  /\ phase[v] = "visiting" /\ s \in left[v]
             /\ \E p \in {"visiting", "renewing"} : Ahead(v, left[v] \ {s}, p)
  BY <1>3 DEF Visit, VisitFails
<1>4. ASSUME NEW s \in Subs,
             \/ TokenFails(v, s) \/ ProbeFails(v, s)
             \/ \E reply \in Replies : Answer(v, s, reply)
      PROVE  phase[v] \in {"renewing", "probing"} /\ Ahead(v, left[v], "visiting")
  BY <1>4 DEF TokenFails, ProbeFails, GoesOn, LeftAfterFailure, Answer
<1>5. ASSUME NEW s \in Subs, Launch(v, s)
      PROVE  phase[v] = "renewing" /\ Ahead(v, left[v], "probing")
  BY <1>5 DEF Launch
<1> QED BY <1>1, <1>2, <1>3, <1>4, <1>5 DEF Sweeping

LEMMA OwnShrinks ==
  ASSUME TypeOK, NEW v \in Sweeps, Sweeping(v) \/ \E s \in Subs : VisitFails(v, s)
  PROVE  /\ SweepLeft(v)' < SweepLeft(v)
         /\ \A w \in Sweeps \ {v} : SweepLeft(w)' = SweepLeft(w)
<1>1. ASSUME NEW l, NEW p, Ahead(v, l, p)
      PROVE  /\ left'[v] = l /\ phase'[v] = p
             /\ \A w \in Sweeps \ {v} : SweepLeft(w)' = SweepLeft(w)
  BY <1>1 DEF Ahead, TypeOK, SweepLeft
<1>2. Cardinality(active) \in 0..Cardinality(Subs)
  BY LoadMonitorAssumption, FS_Subset, FS_CardinalityType DEF TypeOK
<1>3. CASE phase[v] = "listing" /\ Ahead(v, active, "visiting")
  BY <1>1, <1>2, <1>3, LeftFinite DEF SweepLeft
<1>4. CASE phase[v] \in {"listing", "visiting"} /\ Ahead(v, left[v], "idle")
  BY <1>1, <1>4, LeftFinite DEF SweepLeft
<1>5. ASSUME NEW s \in left[v], NEW p \in {"visiting", "renewing"},
             phase[v] = "visiting", Ahead(v, left[v] \ {s}, p)
      PROVE  SweepLeft(v)' < SweepLeft(v)
  <2>1. Cardinality(left[v] \ {s}) = Cardinality(left[v]) - 1
    BY LeftFinite, FS_RemoveElement
  <2> QED BY <1>1, <1>5, <2>1, LeftFinite DEF SweepLeft
<1>6. CASE phase[v] \in {"renewing", "probing"} /\ Ahead(v, left[v], "visiting")
  BY <1>1, <1>6, LeftFinite DEF SweepLeft
<1>7. CASE phase[v] = "renewing" /\ Ahead(v, left[v], "probing")
  BY <1>1, <1>7, LeftFinite DEF SweepLeft
<1> QED BY <1>1, <1>3, <1>4, <1>5, <1>6, <1>7, OwnStep

\* What is not a step of any sweep, but the start of one.
LEMMA OthersLeave ==
  ASSUME TypeOK, [Next]_vars,
         ~ \E v \in Sweeps : Sweeping(v) \/ \E s \in Subs : VisitFails(v, s)
  PROVE  /\ UNCHANGED <<left, probed>>
         /\ \A w \in Sweeps : phase[w] # "idle" => phase'[w] = phase[w]
<1>1. ASSUME \/ \E s \in Subs : Serve(s) \/ Disable(s) \/ \E reply \in Replies : Harvest(s, reply)
             \/ Stop \/ Tick \/ UNCHANGED vars
      PROVE  UNCHANGED <<left, probed, phase>>
  BY <1>1 DEF Serve, Disable, Harvest, Stop, Tick, vars, sweepVars
<1>2. ASSUME NEW v \in Sweeps, TimerFires(v)
      PROVE  /\ UNCHANGED <<left, probed>>
             /\ \A w \in Sweeps : phase[w] # "idle" => phase'[w] = phase[w]
  BY <1>2 DEF TimerFires, TypeOK
<1> QED BY <1>1, <1>2 DEF Next

LEMMA AdvancesStep ==
  ASSUME TypeOK, [Next]_vars, NEW w \in Sweeps
  PROVE  SweepAdvances(w)
<1>1. SweepLeft(w) \in Nat
  BY LeftFinite DEF SweepLeft
<1>2. CASE \E v \in Sweeps : Sweeping(v) \/ \E s \in Subs : VisitFails(v, s)
  <2>1. PICK v \in Sweeps : Sweeping(v) \/ \E s \in Subs : VisitFails(v, s)
    BY <1>2
  <2>2. SweepLeft(w)' < SweepLeft(w) \/ SweepLeft(w)' = SweepLeft(w)
    BY <2>1, OwnShrinks
  <2>3. Sweeping(w) \/ (\E s \in Subs : VisitFails(w, s)) => SweepLeft(w)' < SweepLeft(w)
    BY OwnShrinks
  <2>4. SweepLeft(w)' \in Int
    <3>1. TypeOK'
      BY TypeStep
    <3>2. \A l : l \subseteq Subs => Cardinality(l) \in Int
      BY LoadMonitorAssumption, FS_Subset, FS_CardinalityType
    <3>3. Cardinality(left'[w]) \in Int /\ Cardinality(Subs) \in Int
      BY <3>1, <3>2 DEF TypeOK
    <3> QED BY <3>3 DEF SweepLeft
  <2> QED BY <1>1, <2>2, <2>3, <2>4 DEF SweepAdvances
<1>3. CASE ~ \E v \in Sweeps : Sweeping(v) \/ \E s \in Subs : VisitFails(v, s)
  BY <1>1, <1>3, OthersLeave DEF SweepAdvances, SweepLeft
<1> QED BY <1>2, <1>3

LEMMA SpendsStep ==
  ASSUME TypeOK, [Next]_vars, NEW w \in Sweeps
  PROVE  Spends(w)
<1>1. ASSUME NEW v \in Sweeps, Sweeping(v) \/ \E s \in Subs : VisitFails(v, s)
      PROVE  phase[w] \in {"visiting", "renewing", "probing"} => left'[w] \subseteq left[w]
  BY <1>1, OwnStep DEF Ahead, TypeOK
<1>2. ASSUME NEW v \in Sweeps, NEW s \in Subs, Visit(v, s)
      PROVE  probed'[w] \notin {probed[w], None} => probed'[w] \in left[w] \ left'[w]
  BY <1>2 DEF Visit, TypeOK
<1>3. ASSUME NEW v \in Sweeps,
             \/ List(v) \/ Over(v)
             \/ \E s \in Subs : \/ VisitFails(v, s) \/ Launch(v, s)
                               \/ TokenFails(v, s) \/ ProbeFails(v, s)
             \/ \E s \in Subs, reply \in Replies : Answer(v, s, reply)
      PROVE  probed'[w] \in {probed[w], None}
  BY <1>3 DEF List, Over, VisitFails, Launch, TokenFails, ProbeFails, GoesOn, Answer, TypeOK
<1>4. ASSUME NEW v \in Sweeps, Sweeping(v) \/ \E s \in Subs : VisitFails(v, s)
      PROVE  Spends(w)
  BY <1>1, <1>2, <1>3, <1>4 DEF Spends, Sweeping
<1> QED BY <1>4, OthersLeave DEF Spends

\* However slow the upstream is and whatever fails, a sweep over any number of
\* subscriptions is over after SweepLeft steps of its own: the variant behind
\* FenceLifted (probeIdle, the finally of tick).
THEOREM SweepsFinish == Spec => []SweepsBounded /\ SweepsAdvance
<1>1. TypeOK /\ [Next]_vars => [\A w \in Sweeps : SweepAdvances(w)]_vars
  BY AdvancesStep
<1>2. TypeOK => SweepsBounded
  <2> SUFFICES ASSUME TypeOK, NEW w \in Sweeps
               PROVE  SweepLeft(w) \in 0..(3 * Cardinality(Subs) + 3)
    BY DEF SweepsBounded
  <2> QED BY LeftFinite DEF SweepLeft
<1> QED BY TypeCorrect, <1>1, <1>2, PTL DEF Spec, SweepsAdvance

\* No subscription is probed twice in a sweep, however the others' probes fail
\* and whatever becomes of its row meanwhile: a probe is billed (probeIdle).
THEOREM NoneProbedTwice == Spec => ProbedOncePerSweep
<1>1. TypeOK /\ [Next]_vars => [\A w \in Sweeps : Spends(w)]_vars
  BY SpendsStep
<1> QED BY TypeCorrect, <1>1, PTL DEF Spec, ProbedOncePerSweep
=============================================================================
