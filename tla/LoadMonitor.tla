----------------------------- MODULE LoadMonitor -----------------------------
(***************************************************************************)
(* The load of the Anthropic subscriptions over time: responses to proxied *)
(* requests are harvested, and the background prober sweeps through the    *)
(* subscriptions that were idle, at most one sweep at a time.              *)
(*                                                                         *)
(* Time is relative, so that it may pass for ever: a sample's fields count *)
(* from the moment it was taken, and its age stops at AgeCap, beyond every *)
(* deadline it could still be compared with.                               *)
(***************************************************************************)
EXTENDS Selection, FiniteSets

CONSTANTS
  Sweeps,         \* calls of probeIdle that could overlap
  Healthy,        \* subscriptions whose reads succeed, and whose tokens are got and
                  \* whose probes are answered again and again
  Replies,        \* what upstream responses say
  Good,           \* those after which a subscription is eligible
  IdleThreshold,  \* idleThresholdMs
  MaxSweep,       \* bound on the duration of a sweep
  AgeCap          \* bound on the ages told apart

Subs == DOMAIN Rank

ASSUME LoadMonitorAssumption ==
  /\ None \notin Subs /\ IsFiniteSet(Subs)
  /\ Healthy \subseteq Subs
  /\ Good \subseteq Replies /\ Replies \subseteq Reply
  /\ IdleThreshold \in Nat /\ MaxSweep \in Nat
  /\ AgeCap \in Nat /\ AgeCap >= IdleThreshold + MaxSweep
  /\ \A r \in Replies :
       Cooldown(r, 0) # None => AgeCap >= Cooldown(r, 0) + MaxSweep

VARIABLES
  load,     \* the newest sample of each subscription
  active,   \* subscriptions whose row is active
  serving,  \* subscriptions a proxied request is being served by
  started,  \* LoadProbeWorker.timer is set
  running,  \* LoadProbeWorker.running
  phase,    \* what each sweep awaits
  left,     \* ids it has yet to visit
  probed,   \* the id whose token or probe it awaits
  since,    \* how long ago it read the clock
  overtaken \* history: sweeps that await the token of a subscription for which a
            \* proxied response has come in since shouldSkip read its sample

sweepVars == <<phase, left, probed, since, overtaken>>
vars == <<load, active, serving, started, running, sweepVars>>

Sample == [snapshot : Snapshot, age : 0..AgeCap]
Phase == {"idle",
          "listing",   \* listActiveSubscriptionIds
          "visiting",  \* the next shouldSkip
          "renewing",  \* ensureFreshToken
          "probing"}   \* the upstream, and the insert of its sample

TypeOK ==
  /\ load \in [Subs -> Sample \cup {None}]
  /\ active \in SUBSET Subs
  /\ serving \in SUBSET Subs
  /\ started \in BOOLEAN
  /\ running \in BOOLEAN
  /\ phase \in [Sweeps -> Phase]
  /\ left \in [Sweeps -> SUBSET Subs]
  /\ probed \in [Sweeps -> Subs \cup {None}]
  /\ since \in [Sweeps -> 0..MaxSweep]
  /\ overtaken \in SUBSET Sweeps

Init ==
  /\ load = [s \in Subs |-> None]
  /\ active = Subs
  /\ serving = {}
  /\ started = TRUE
  /\ running = FALSE
  /\ phase = [w \in Sweeps |-> "idle"]
  /\ left = [w \in Sweeps |-> {}]
  /\ probed = [w \in Sweeps |-> None]
  /\ since = [w \in Sweeps |-> 0]
  /\ overtaken = {}

EligibleNow(s) ==
  load[s] # None => IsEligible(load[s].snapshot, load[s].age)

-----------------------------------------------------------------------------
(* Proxied requests *)

\* insertSnapshot, at the moment the sample is taken.
Store(s, reply) ==
  load' = [load EXCEPT
    ![s] = [snapshot |-> ParseRateLimitHeaders(reply, 0), age |-> 0]]

Serve(s) ==
  /\ s \in active \ serving
  /\ EligibleNow(s)
  /\ serving' = serving \cup {s}
  /\ UNCHANGED <<load, active, started, running, sweepVars>>

\* recordLoad
Harvest(s, reply) ==
  /\ s \in serving
  /\ serving' = serving \ {s}
  /\ Store(s, reply)
  /\ overtaken' = overtaken \cup
       {w \in Sweeps : phase[w] = "renewing" /\ probed[w] = s}
  /\ UNCHANGED <<active, started, running, phase, left, probed, since>>

-----------------------------------------------------------------------------
(* The prober *)

NoOverlapGuard == TRUE
MayStart == ~running

\* tick: the timer fires, and probeIdle reads the clock.
TimerFires(w) ==
  /\ started /\ MayStart
  /\ phase[w] = "idle"
  /\ running' = TRUE
  /\ phase' = [phase EXCEPT ![w] = "listing"]
  /\ since' = [since EXCEPT ![w] = 0]
  /\ UNCHANGED <<load, active, serving, started, left, probed, overtaken>>

List(w) ==
  /\ phase[w] = "listing"
  /\ phase' = [phase EXCEPT ![w] = "visiting"]
  /\ left' = [left EXCEPT ![w] = active]
  /\ UNCHANGED <<load, active, serving, started, running, probed, since, overtaken>>

\* The sweep is over, or its listing failed: the finally of tick.
Over(w) ==
  /\ phase[w] = "listing" \/ (phase[w] = "visiting" /\ left[w] = {})
  /\ running' = FALSE
  /\ phase' = [phase EXCEPT ![w] = "idle"]
  /\ since' = [since EXCEPT ![w] = 0]
  /\ UNCHANGED <<load, active, serving, started, left, probed, overtaken>>

\* How old the sample was when the sweep read the clock; below 0 if it is newer.
AgeAtStart(w, s) == load[s].age - since[w]

SkipsRecentOnly(w, s) ==
  load[s] # None /\ AgeAtStart(w, s) < IdleThreshold

\* shouldSkip compares with the clock as it was when the sweep began.
ShouldSkip(w, s) ==
  /\ load[s] # None
  /\ \/ load[s].snapshot.cooldown # None
        /\ load[s].snapshot.cooldown > AgeAtStart(w, s)
     \/ AgeAtStart(w, s) < IdleThreshold

\* shouldSkip reads the newest sample of s and decides; unless it skips s, its
\* token is asked for.
Visit(w, s) ==
  /\ phase[w] = "visiting" /\ s \in left[w]
  /\ left' = [left EXCEPT ![w] = @ \ {s}]
  /\ IF ShouldSkip(w, s) THEN UNCHANGED <<phase, probed>>
     ELSE /\ phase' = [phase EXCEPT ![w] = "renewing"]
          /\ probed' = [probed EXCEPT ![w] = s]
  /\ UNCHANGED <<load, active, serving, started, running, since, overtaken>>

\* latestBySubscription throws: the next subscription.
VisitFails(w, s) ==
  /\ phase[w] = "visiting" /\ s \in left[w] \ Healthy
  /\ left' = [left EXCEPT ![w] = @ \ {s}]
  /\ UNCHANGED <<load, active, serving, started, running, phase, probed, since,
                 overtaken>>

\* ensureFreshToken resolves and the probe leaves: nothing is read again, whatever
\* has been stored for s meanwhile.
Launch(w, s) ==
  /\ phase[w] = "renewing" /\ probed[w] = s
  /\ phase' = [phase EXCEPT ![w] = "probing"]
  /\ overtaken' = overtaken \ {w}
  /\ UNCHANGED <<load, active, serving, started, running, left, probed, since>>

Answer(w, s, reply) ==
  /\ phase[w] = "probing" /\ probed[w] = s
  /\ Store(s, reply)
  /\ phase' = [phase EXCEPT ![w] = "visiting"]
  /\ probed' = [probed EXCEPT ![w] = None]
  /\ UNCHANGED <<active, serving, started, running, left, since, overtaken>>

AbandonsSweep(w) == {}
LeftAfterFailure(w) == left[w]

\* The catch of probeIdle: the sweep goes on with the next subscription.
GoesOn(w) ==
  /\ left' = [left EXCEPT ![w] = LeftAfterFailure(w)]
  /\ phase' = [phase EXCEPT ![w] = "visiting"]
  /\ probed' = [probed EXCEPT ![w] = None]
  /\ overtaken' = overtaken \ {w}

\* ensureFreshToken throws; a refresh that failed has marked the row unusable.
TokenFails(w, s) ==
  /\ phase[w] = "renewing" /\ probed[w] = s
  /\ active' \in {active} \cup (IF s \in Healthy THEN {} ELSE {active \ {s}})
  /\ GoesOn(w)
  /\ UNCHANGED <<load, serving, started, running, since>>

\* The probe or the insert of its sample fails.
ProbeFails(w, s) ==
  /\ phase[w] = "probing" /\ probed[w] = s
  /\ GoesOn(w)
  /\ UNCHANGED <<load, active, serving, started, running, since>>

\* stop clears the timer; a sweep that runs is not told.
Stop ==
  /\ started
  /\ started' = FALSE
  /\ UNCHANGED <<load, active, serving, running, sweepVars>>

Disable(s) ==
  /\ s \in active
  /\ active' = active \ {s}
  /\ UNCHANGED <<load, serving, started, running, sweepVars>>

Older(a) == IF a < AgeCap THEN a + 1 ELSE a

Tick ==
  /\ \A w \in Sweeps : phase[w] # "idle" => since[w] < MaxSweep
  /\ load' = [s \in Subs |->
       IF load[s] = None THEN None ELSE [load[s] EXCEPT !.age = Older(@)]]
  /\ since' = [w \in Sweeps |->
       IF phase[w] = "idle" THEN since[w] ELSE since[w] + 1]
  /\ UNCHANGED <<active, serving, started, running, phase, left, probed, overtaken>>

-----------------------------------------------------------------------------
Sweeping(w) ==
  \/ List(w) \/ Over(w)
  \/ \E s \in Subs : Visit(w, s) \/ Launch(w, s) \/ TokenFails(w, s) \/ ProbeFails(w, s)
  \/ \E s \in Subs, reply \in Replies : Answer(w, s, reply)

Next ==
  \/ \E s \in Subs : Serve(s) \/ Disable(s) \/ \E reply \in Replies : Harvest(s, reply)
  \/ \E w \in Sweeps : TimerFires(w) \/ Sweeping(w) \/ \E s \in Subs : VisitFails(w, s)
  \/ Stop \/ Tick

Spec == Init /\ [][Next]_vars

\* Every await of a sweep ends and the interval keeps firing.  The token of a healthy
\* subscription is got and the upstream answers its probes well, again and again,
\* and the engine does not fail the listing for ever.
FairSpec ==
  /\ Spec
  /\ WF_vars(Tick)
  /\ WF_vars(\E w \in Sweeps : TimerFires(w))
  /\ \A w \in Sweeps : WF_vars(Sweeping(w)) /\ SF_vars(List(w))
  /\ \A s \in Healthy :
       /\ WF_vars(\E reply \in Replies : Harvest(s, reply))
       /\ SF_vars(\E w \in Sweeps : Launch(w, s))
       /\ SF_vars(\E w \in Sweeps, reply \in Good : Answer(w, s, reply))

-----------------------------------------------------------------------------
(* Properties *)

\* Sweeps never stack, however slow one is (the overlap guard of tick).
AtMostOneSweep == \A w, v \in Sweeps :
  phase[w] # "idle" /\ phase[v] # "idle" => w = v

\* The newest sample of s is beyond the threshold and not of a cooldown that lasts.
IdleBeyond(s) ==
  load[s] # None =>
    /\ load[s].age >= IdleThreshold
    /\ \/ load[s].snapshot.cooldown = None
       \/ load[s].snapshot.cooldown <= load[s].age

\* A billed probe is launched for a subscription that is idle beyond the threshold
\* and not cooling down, or one for which the response to a proxied request came in
\* while the sweep awaited its token.  Nothing else makes a probe needless: not the
\* clock of the sweep's start that shouldSkip reckons with, and no other probe of
\* the prober's own (load-monitor.md:109; shouldSkip, probeIdle, tick).
ProbesOnlyIdle ==
  [][\A w \in Sweeps : phase[w] # "probing" /\ phase'[w] = "probing" =>
       w \in overtaken \/ IdleBeyond(probed[w])]_vars

\* While the prober runs, no fence is for ever: a healthy subscription that is
\* fenced becomes eligible again, even if a sweep meets another one whose probes
\* always fail (probeIdle's catch, LoadProbeWorker).
FenceLifted == \A s \in Healthy :
  started /\ s \in active /\ ~EligibleNow(s)
    ~> ~started \/ s \notin active \/ EligibleNow(s)
=============================================================================
