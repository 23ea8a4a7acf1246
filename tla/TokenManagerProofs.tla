-------------------------- MODULE TokenManagerProofs --------------------------
(***************************************************************************)
(* Proofs about TokenManager for any number of subscriptions, requests and *)
(* sweeps and any bound on generations and faults.                         *)
(*                                                                         *)
(* The argument has three layers.  CallerInv types the state and says that *)
(* the starter of a doRefresh waits for it.  RegistryInv, on top of it,    *)
(* ties the inflight map to the running promises and every waiter to one.  *)
(* GrantInv, on top of both, follows the generations: a row never claims   *)
(* more than the provider issued, and a granted promise holds exactly what *)
(* the provider honours.                                                   *)
(***************************************************************************)
EXTENDS TokenManager, TLAPS

CallerInv ==
  /\ TypeOK
  /\ \A s \in Subs : aged[s] < MaxGen
  /\ \A c \in Callers : pc[c] # "idle" => sub[c] \in Subs
  /\ \A c \in Callers : stage[c] # "none" => pc[c] = "waiting" /\ on[c] = c
  /\ \A c \in Callers : stage[c] = "calling" => snap[c] < MaxGen

\* A caller that waits shares a promise for its own subscription.
WaitersServed == \A c \in Callers :
  pc[c] = "waiting" => /\ on[c] \in Callers
                       /\ stage[on[c]] # "none"
                       /\ sub[on[c]] = sub[c]

RegistryInv == CallerInv /\ NoWedgedEntry /\ WaitersServed

\* What follows the registry: the provider, the rows, and the tokens in use.
GrantFacts ==
  /\ \A s \in Subs : stored[s] <= live[s]
  /\ \A c \in Callers :
       pc[c] \in {"held", "waiting", "using"} => snap[c] <= stored[sub[c]]
  /\ \A c \in Callers : stage[c] = "granted" =>
       grant[c] = live[sub[c]] /\ stored[sub[c]] < live[sub[c]]
  /\ \A c \in Callers : stage[c] = "stored" => grant[c] = stored[sub[c]]
  /\ PersistedBeforeUse
  /\ DeadGrantFenced

GrantInv == RegistryInv /\ GrantFacts

-----------------------------------------------------------------------------
LEMMA NoneApart == \A c \in Callers : c # None
  BY TokenManagerAssumption DEF Callers

\* The system starts in CallerInv.
LEMMA CallerInit == Init => CallerInv
  BY TokenManagerAssumption, NoneApart
  DEF Init, CallerInv, TypeOK, Status, Stage, Pc, Gens

\* Refresh, which EnsureFresh and RefreshNow share, keeps the caller's state.
LEMMA RefreshCaller ==
  ASSUME CallerInv, NEW c \in Callers, pc[c] \in {"held", "using"},
         snap[c] < MaxGen, Refresh(c)
  PROVE  /\ inflight' \in [Subs -> Callers \cup {None}]
         /\ stage' \in [Callers -> Stage]
         /\ grant' = grant
         /\ pc' = [pc EXCEPT ![c] = "waiting"]
         /\ on' \in [Callers -> Callers \cup {None}]
         /\ \A d \in Callers : stage'[d] # "none" => pc'[d] = "waiting" /\ on'[d] = d
         /\ \A d \in Callers : stage'[d] = "calling" => snap[d] < MaxGen
  <1>1. sub[c] \in Subs /\ stage[c] = "none"
    BY DEF CallerInv, TypeOK
  <1>2. CASE Existing(sub[c]) # None
    BY <1>1, <1>2 DEF Refresh, Existing, CallerInv, TypeOK, runVars, Stage, Pc
  <1>3. CASE Existing(sub[c]) = None
    BY <1>1, <1>3 DEF Refresh, Existing, CallerInv, TypeOK, runVars, Stage, Pc
  <1>4. QED
    BY <1>2, <1>3

\* Every step keeps CallerInv.
LEMMA CallerStep == CallerInv /\ [Next]_vars => CallerInv'
  <1> SUFFICES ASSUME CallerInv, [Next]_vars
               PROVE  CallerInv'
    OBVIOUS
  <1> USE TokenManagerAssumption
  <1> USE DEF CallerInv, TypeOK, Status, Stage, Pc, Gens
  <1>1. ASSUME NEW c \in Callers, NEW s \in Subs, Select(c, s)
        PROVE  CallerInv'
    BY <1>1 DEF Select, rowVars, envVars, runVars, histVars
  <1>2. ASSUME NEW c \in Callers, NEW s \in Subs, ListActive(c, s)
        PROVE  CallerInv'
    BY <1>2 DEF ListActive, rowVars, envVars, runVars, histVars
  <1>3. ASSUME NEW c \in Callers, FindById(c)
        PROVE  CallerInv'
    BY <1>3 DEF FindById, rowVars, envVars, runVars, histVars
  <1>4. ASSUME NEW c \in Callers, EnsureFresh(c)
        PROVE  CallerInv'
    <2>1. CASE snap[c] > aged[sub[c]]
      BY <1>4, <2>1 DEF EnsureFresh, rowVars, envVars, runVars, histVars
    <2>2. CASE ~ (snap[c] > aged[sub[c]])
      <3>1. sub[c] \in Subs /\ pc[c] = "held" /\ Refresh(c) /\ snap[c] < MaxGen
        BY <1>4, <2>2 DEF EnsureFresh
      <3>2. QED
        BY <1>4, <2>2, <3>1, RefreshCaller
        DEF EnsureFresh, rowVars, envVars, histVars
    <2>3. QED
      BY <2>1, <2>2
  <1>5. ASSUME NEW c \in Callers, RefreshNow(c)
        PROVE  CallerInv'
    <2>1. pc[c] = "using" /\ Refresh(c) /\ snap[c] < MaxGen
      BY <1>5 DEF RefreshNow
    <2>2. QED
      BY <1>5, <2>1, RefreshCaller DEF RefreshNow, rowVars, envVars, histVars
  <1>6. ASSUME NEW c \in Callers, Release(c)
        PROVE  CallerInv'
    BY <1>6 DEF Release, rowVars, envVars, runVars, histVars
  <1>7. ASSUME NEW c \in Callers, Rotate(c)
        PROVE  CallerInv'
    BY <1>7 DEF Rotate, rowVars, callVars, histVars
  <1>8. ASSUME NEW c \in Callers, RefuseSpent(c) \/ RefuseLive(c) \/ UpdateTokensFails(c)
        PROVE  CallerInv'
    BY <1>8 DEF RefuseSpent, RefuseLive, UpdateTokensFails, Fault,
                rowVars, envVars, callVars, histVars
  <1>9. ASSUME NEW c \in Callers, LoseReply(c)
        PROVE  CallerInv'
    BY <1>9 DEF LoseReply, Fault, rowVars, callVars
  <1>10. ASSUME NEW c \in Callers, UpdateTokens(c)
         PROVE  CallerInv'
    BY <1>10 DEF UpdateTokens, PersistedGrant, StatusAfterUpdate,
                 envVars, callVars, histVars
  <1>11. ASSUME NEW c \in Callers, MarkUnusable(c)
         PROVE  CallerInv'
    BY <1>11 DEF MarkUnusable, MarkedUnusable, envVars, callVars, histVars
  <1>12. ASSUME NEW c \in Callers, MarkUnusableFails(c)
         PROVE  CallerInv'
    BY <1>12 DEF MarkUnusableFails, Fault, rowVars, envVars, callVars
  <1>13. ASSUME NEW c \in Callers, Settle(c)
         PROVE  CallerInv'
    <2>1. \A w \in Callers : w \in Waiters(c) <=> pc[w] = "waiting" /\ on[w] = c
      BY DEF Waiters
    <2>2. pc' \in [Callers -> Pc] /\ token' \in [Callers -> Gens]
      BY <1>13 DEF Settle
    <2>3. \A w \in Callers : w \notin Waiters(c) => pc'[w] = pc[w] /\ on'[w] = on[w]
      BY <1>13 DEF Settle
    <2>4. \A w \in Waiters(c) : w \in Callers /\ pc[w] # "idle"
      BY <2>1 DEF Waiters
    <2>5. \A d \in Callers : d # c /\ stage[d] # "none" => d \notin Waiters(c)
      BY <2>1
    <2>6. /\ inflight' \in [Subs -> Callers \cup {None}]
          /\ stage' = [stage EXCEPT ![c] = "none"]
          /\ grant' \in [Callers -> Gens]
          /\ on' \in [Callers -> Callers \cup {None}]
      <3>1. inflight' \in [Subs -> Callers \cup {None}]
        BY <1>13 DEF Settle, AfterFinally
      <3>2. stage' = [stage EXCEPT ![c] = "none"]
        BY <1>13 DEF Settle
      <3>3. grant' \in [Callers -> Gens]
        BY <1>13 DEF Settle
      <3>4. on' = [w \in Callers |-> IF w \in Waiters(c) THEN None ELSE on[w]]
        BY <1>13 DEF Settle
      <3>5. on' \in [Callers -> Callers \cup {None}]
        BY <3>4
      <3>6. QED
        BY <3>1, <3>2, <3>3, <3>5
    <2>7. \A d \in Callers : stage'[d] # "none" => d # c /\ stage[d] # "none"
      BY <2>6
    <2>8. \A d \in Callers : stage'[d] # "none" => pc'[d] = "waiting" /\ on'[d] = d
      BY <2>3, <2>5, <2>7
    <2>9. \A d \in Callers : pc'[d] # "idle" => pc[d] # "idle"
      BY <2>3, <2>4
    <2>10. /\ UNCHANGED <<status, stored, live, aged, sub, snap, retried, faults, orphaned>>
           /\ \A d \in Callers : stage'[d] = "calling" => stage[d] = "calling"
      BY <1>13, <2>6 DEF Settle, rowVars, envVars, histVars
    <2>11. QED
      BY <2>2, <2>6, <2>8, <2>9, <2>10
  <1>14. ASSUME NEW s \in Subs, NEW g \in Gens, Age(s, g)
         PROVE  CallerInv'
    BY <1>14 DEF Age, rowVars, runVars, callVars, histVars
  <1>15. ASSUME NEW s \in Subs, Disable(s)
         PROVE  CallerInv'
    BY <1>15 DEF Disable, envVars, runVars, callVars, histVars
  <1>16. ASSUME NEW late \in SUBSET {s \in Subs : Redeemable(s)}, Crash(late)
         PROVE  CallerInv'
    <2>1. \A s \in late : live[s] + 1 \in Gens
      BY DEF Redeemable
    <2>2. live' \in [Subs -> Gens]
      BY <1>16, <2>1 DEF Crash
    <2>3. QED
      BY <1>16, <2>2, NoneApart DEF Crash, Fault, rowVars
  <1>17. CASE UNCHANGED vars
    BY <1>17 DEF vars, rowVars, envVars, runVars, callVars, histVars
  <1>18. QED
    BY <1>1, <1>2, <1>3, <1>4, <1>5, <1>6, <1>7, <1>8, <1>9, <1>10, <1>11,
       <1>12, <1>13, <1>14, <1>15, <1>16, <1>17 DEF Next, Progress

\* Type correctness, for every behaviour of the token lifecycle.
THEOREM TypeCorrect == Spec => []TypeOK
  <1>1. CallerInv => TypeOK
    BY DEF CallerInv
  <1>2. QED
    BY CallerInit, CallerStep, <1>1, PTL DEF Spec

-----------------------------------------------------------------------------
LEMMA RegistryInit == Init => RegistryInv
  BY CallerInit, TokenManagerAssumption DEF Init, RegistryInv, NoWedgedEntry, WaitersServed

\* Refresh registers what it starts, and joins what is registered.
LEMMA RefreshRegistry ==
  ASSUME RegistryInv, NEW c \in Callers, pc[c] \in {"held", "using"}, Refresh(c),
         sub' = sub
  PROVE  NoWedgedEntry' /\ WaitersServed'
  <1> USE DEF RegistryInv, CallerInv, TypeOK, NoWedgedEntry, WaitersServed, Stage, Pc
  <1>1. sub[c] \in Subs /\ stage[c] = "none" /\ pc' = [pc EXCEPT ![c] = "waiting"]
    BY DEF Refresh
  <1>2. CASE inflight[sub[c]] # None
    <2>1. UNCHANGED <<inflight, stage>> /\ on' = [on EXCEPT ![c] = inflight[sub[c]]]
      BY <1>2 DEF Refresh, Existing, runVars
    <2>2. inflight[sub[c]] \in Callers /\ stage[inflight[sub[c]]] # "none"
          /\ sub[inflight[sub[c]]] = sub[c]
      BY <1>1, <1>2
    <2>3. QED
      BY <1>1, <2>1, <2>2
  <1>3. CASE inflight[sub[c]] = None
    <2>1. /\ inflight' = [inflight EXCEPT ![sub[c]] = c]
          /\ stage' = [stage EXCEPT ![c] = "calling"]
          /\ on' = [on EXCEPT ![c] = c]
      BY <1>3 DEF Refresh, Existing, runVars
    <2>2. \A d \in Callers : stage[d] # "none" => sub[d] # sub[c] /\ sub[d] \in Subs
      BY <1>3, NoneApart
    <2>3. NoWedgedEntry'
      BY <1>1, <2>1, <2>2, NoneApart
    <2>4. WaitersServed'
      BY <1>1, <2>1
    <2>5. QED
      BY <2>3, <2>4
  <1>4. QED
    BY <1>2, <1>3

\* A step that moves one promise along without ending it keeps the registry.
LEMMA StageRegistry ==
  ASSUME RegistryInv, NEW c \in Callers, NEW t \in Stage \ {"none"},
         stage[c] # "none", stage' = [stage EXCEPT ![c] = t],
         UNCHANGED <<inflight, callVars>>
  PROVE  NoWedgedEntry' /\ WaitersServed'
  BY DEF RegistryInv, CallerInv, TypeOK, NoWedgedEntry, WaitersServed, callVars

LEMMA RegistryStep == RegistryInv /\ [Next]_vars => RegistryInv'
  <1> SUFFICES ASSUME RegistryInv, [Next]_vars
               PROVE  NoWedgedEntry' /\ WaitersServed'
    BY CallerStep DEF RegistryInv
  <1> USE DEF RegistryInv, CallerInv, TypeOK, Stage, Pc
  <1>1. ASSUME NEW c \in Callers, NEW s \in Subs, Select(c, s) \/ ListActive(c, s)
        PROVE  NoWedgedEntry' /\ WaitersServed'
    <2>1. /\ pc[c] = "idle" /\ stage[c] = "none"
          /\ sub' = [sub EXCEPT ![c] = s]
          /\ pc' = [pc EXCEPT ![c] = "held"] \/ pc' = [pc EXCEPT ![c] = "listed"]
          /\ UNCHANGED <<inflight, stage, on>>
      BY <1>1 DEF Select, ListActive, runVars
    <2>2. QED
      BY <2>1 DEF NoWedgedEntry, WaitersServed
  <1>2. ASSUME NEW c \in Callers, FindById(c)
        PROVE  NoWedgedEntry' /\ WaitersServed'
    BY <1>2 DEF FindById, runVars, NoWedgedEntry, WaitersServed
  <1>3. ASSUME NEW c \in Callers, EnsureFresh(c) \/ RefreshNow(c)
        PROVE  NoWedgedEntry' /\ WaitersServed'
    <2>1. pc[c] \in {"held", "using"} /\ sub' = sub
      BY <1>3 DEF EnsureFresh, RefreshNow
    <2>2. CASE Refresh(c)
      BY <2>1, <2>2, RefreshRegistry
    <2>3. CASE ~ Refresh(c)
      <3>1. pc' = [pc EXCEPT ![c] = "using"] /\ UNCHANGED <<runVars, on>>
        BY <1>3, <2>3 DEF EnsureFresh, RefreshNow
      <3>2. QED
        BY <2>1, <3>1 DEF runVars, NoWedgedEntry, WaitersServed
    <2>4. QED
      BY <2>2, <2>3
  <1>4. ASSUME NEW c \in Callers, Release(c)
        PROVE  NoWedgedEntry' /\ WaitersServed'
    <2>1. /\ stage[c] = "none" /\ pc[c] # "waiting"
          /\ sub' = [sub EXCEPT ![c] = None]
          /\ pc' = [pc EXCEPT ![c] = "idle"]
          /\ UNCHANGED <<inflight, stage, on>>
      BY <1>4 DEF Release, runVars
    <2>2. QED
      BY <2>1 DEF NoWedgedEntry, WaitersServed
  <1>5. ASSUME NEW c \in Callers, Rotate(c) \/ LoseReply(c)
        PROVE  NoWedgedEntry' /\ WaitersServed'
    BY <1>5, StageRegistry DEF Rotate, LoseReply
  <1>6. ASSUME NEW c \in Callers, RefuseSpent(c) \/ RefuseLive(c) \/ UpdateTokensFails(c)
        PROVE  NoWedgedEntry' /\ WaitersServed'
    BY <1>6, StageRegistry DEF RefuseSpent, RefuseLive, UpdateTokensFails
  <1>7. ASSUME NEW c \in Callers, UpdateTokens(c) \/ MarkUnusable(c) \/ MarkUnusableFails(c)
        PROVE  NoWedgedEntry' /\ WaitersServed'
    BY <1>7, StageRegistry DEF UpdateTokens, MarkUnusable, MarkUnusableFails
  <1>8. ASSUME NEW c \in Callers, Settle(c)
        PROVE  NoWedgedEntry' /\ WaitersServed'
    <2>1. stage[c] # "none" /\ sub[c] \in Subs /\ inflight[sub[c]] = c
      BY <1>8 DEF Settle, CanSettle, Settled, NoWedgedEntry
    <2>2. /\ inflight' = [inflight EXCEPT ![sub[c]] = None]
          /\ stage' = [stage EXCEPT ![c] = "none"]
          /\ sub' = sub
      BY <1>8 DEF Settle, AfterFinally
    <2>3. NoWedgedEntry'
      BY <2>1, <2>2, NoneApart DEF NoWedgedEntry
    <2>4. \A w \in Callers : pc'[w] = "waiting" =>
            pc[w] = "waiting" /\ on[w] # c /\ on'[w] = on[w]
      <3>1. pc' = [w \in Callers |->
                     IF w \notin Waiters(c) THEN pc[w]
                     ELSE CASE stage[c] = "failed" -> "failed"
                            [] stage[c] = "broken" -> "broken"
                            [] OTHER -> "using"]
        BY <1>8 DEF Settle
      <3>2. on' = [w \in Callers |-> IF w \in Waiters(c) THEN None ELSE on[w]]
        BY <1>8 DEF Settle
      <3>3. \A w \in Callers : w \in Waiters(c) <=> pc[w] = "waiting" /\ on[w] = c
        BY DEF Waiters
      <3>4. \A w \in Callers : pc'[w] = "waiting" => w \notin Waiters(c)
        BY <3>1
      <3>5. QED
        BY <3>1, <3>2, <3>3, <3>4
    <2>5. WaitersServed'
      BY <2>2, <2>4 DEF WaitersServed
    <2>6. QED
      BY <2>3, <2>5
  <1>9. ASSUME NEW s \in Subs, Disable(s) \/ \E g \in Gens : Age(s, g)
        PROVE  NoWedgedEntry' /\ WaitersServed'
    BY <1>9 DEF Disable, Age, runVars, callVars, NoWedgedEntry, WaitersServed
  <1>10. ASSUME NEW late \in SUBSET {s \in Subs : Redeemable(s)}, Crash(late)
         PROVE  NoWedgedEntry' /\ WaitersServed'
    BY <1>10 DEF Crash, NoWedgedEntry, WaitersServed
  <1>11. CASE UNCHANGED vars
    BY <1>11 DEF vars, runVars, callVars, NoWedgedEntry, WaitersServed
  <1>12. QED
    BY <1>1, <1>2, <1>3, <1>4, <1>5, <1>6, <1>7, <1>8, <1>9, <1>10, <1>11
    DEF Next, Progress

\* The inflight map holds the running promises and nothing else, so no failed
\* refresh leaves an entry behind for later refreshers to wait on.
THEOREM NoEntryOutlivesItsPromise == Spec => []NoWedgedEntry
  <1>1. RegistryInv => NoWedgedEntry
    BY DEF RegistryInv
  <1>2. QED
    BY RegistryInit, RegistryStep, <1>1, PTL DEF Spec

\* However refreshers and failures interleave, two refreshes of one
\* subscription never overlap.
THEOREM OneRefreshAtATime == Spec => []SingleFlight
  <1>1. RegistryInv => SingleFlight
    BY DEF RegistryInv, CallerInv, NoWedgedEntry, SingleFlight
  <1>2. QED
    BY RegistryInit, RegistryStep, <1>1, PTL DEF Spec

-----------------------------------------------------------------------------
LEMMA GrantInit == Init => GrantInv
  BY RegistryInit, TokenManagerAssumption
  DEF Init, GrantInv, GrantFacts, PersistedBeforeUse, DeadGrantFenced

\* Starting or joining a promise touches no row, no grant and no token.
LEMMA RefreshGrant ==
  ASSUME GrantInv, NEW c \in Callers, pc[c] \in {"held", "using"}, Refresh(c),
         UNCHANGED <<rowVars, envVars, sub, snap, token, histVars>>
  PROVE  GrantFacts'
  <1> USE DEF GrantInv, GrantFacts, RegistryInv, CallerInv, TypeOK, Stage, Pc
  <1>1. /\ stage[c] = "none"
        /\ pc' = [pc EXCEPT ![c] = "waiting"]
        /\ stage' = stage \/ stage' = [stage EXCEPT ![c] = "calling"]
        /\ grant' = grant
    BY DEF Refresh, runVars
  <1>2. QED
    BY <1>1 DEF GrantFacts, PersistedBeforeUse, DeadGrantFenced, rowVars, envVars, histVars

LEMMA GrantStep == GrantInv /\ [Next]_vars => GrantInv'
  <1> SUFFICES ASSUME GrantInv, [Next]_vars
               PROVE  GrantFacts'
    BY RegistryStep DEF GrantInv
  <1>0. RegistryInv' /\ SingleFlight
    BY RegistryStep DEF GrantInv, RegistryInv, CallerInv, NoWedgedEntry, SingleFlight
  <1> USE TokenManagerAssumption
  <1> USE DEF GrantInv, GrantFacts, RegistryInv, CallerInv, TypeOK, Stage, Pc, Gens, Status
  <1>1. ASSUME NEW c \in Callers, NEW s \in Subs, Select(c, s) \/ ListActive(c, s)
        PROVE  GrantFacts'
    BY <1>1 DEF Select, ListActive, rowVars, envVars, runVars, histVars,
                GrantFacts, PersistedBeforeUse, DeadGrantFenced
  <1>2. ASSUME NEW c \in Callers, FindById(c)
        PROVE  GrantFacts'
    BY <1>2 DEF FindById, rowVars, envVars, runVars, histVars,
                GrantFacts, PersistedBeforeUse, DeadGrantFenced
  <1>3. ASSUME NEW c \in Callers, EnsureFresh(c) \/ RefreshNow(c)
        PROVE  GrantFacts'
    <2>1. pc[c] \in {"held", "using"} /\ UNCHANGED <<rowVars, envVars, sub, snap, histVars>>
      BY <1>3 DEF EnsureFresh, RefreshNow
    <2>2. CASE Refresh(c) /\ token' = token
      BY <2>1, <2>2, RefreshGrant
    <2>3. CASE ~ (Refresh(c) /\ token' = token)
      <3>1. /\ pc[c] = "held" /\ pc' = [pc EXCEPT ![c] = "using"]
            /\ token' = [token EXCEPT ![c] = snap[c]]
            /\ UNCHANGED runVars
        BY <1>3, <2>3 DEF EnsureFresh, RefreshNow
      <3>2. QED
        BY <2>1, <3>1 DEF rowVars, envVars, runVars, histVars,
                          GrantFacts, PersistedBeforeUse, DeadGrantFenced
    <2>4. QED
      BY <2>2, <2>3
  <1>4. ASSUME NEW c \in Callers, Release(c)
        PROVE  GrantFacts'
    BY <1>4 DEF Release, rowVars, envVars, runVars, histVars,
                GrantFacts, PersistedBeforeUse, DeadGrantFenced
  <1>5. ASSUME NEW c \in Callers, Rotate(c) \/ LoseReply(c)
        PROVE  GrantFacts'
    <2>1. /\ stage[c] = "calling" /\ sub[c] \in Subs
          /\ snap[c] = live[sub[c]]
          /\ live' = [live EXCEPT ![sub[c]] = @ + 1]
          /\ UNCHANGED <<status, stored, pc, sub, snap, token, orphaned>>
          /\ \/ /\ stage' = [stage EXCEPT ![c] = "granted"]
                /\ grant' = [grant EXCEPT ![c] = live[sub[c]] + 1]
             \/ stage' = [stage EXCEPT ![c] = "refused"] /\ grant' = grant
      BY <1>5 DEF Rotate, LoseReply, rowVars, callVars, histVars
    <2>2. \A d \in Callers : d # c /\ stage[d] # "none" => sub[d] # sub[c]
      BY <1>0, <2>1 DEF SingleFlight
    <2>3. \A d \in Callers : stage'[d] = "granted" =>
            grant'[d] = live'[sub'[d]] /\ stored'[sub'[d]] < live'[sub'[d]]
      BY <2>1, <2>2
    <2>4. DeadGrantFenced'
      BY <2>1, <2>2 DEF DeadGrantFenced
    <2>5. QED
      BY <2>1, <2>3, <2>4 DEF GrantFacts, PersistedBeforeUse
  <1>6. ASSUME NEW c \in Callers, RefuseSpent(c) \/ RefuseLive(c) \/ UpdateTokensFails(c)
        PROVE  GrantFacts'
    BY <1>6 DEF RefuseSpent, RefuseLive, UpdateTokensFails, rowVars, envVars,
                callVars, histVars, GrantFacts, PersistedBeforeUse, DeadGrantFenced
  <1>7. ASSUME NEW c \in Callers, UpdateTokens(c)
        PROVE  GrantFacts'
    <2>1. /\ stage[c] = "granted" /\ sub[c] \in Subs
          /\ stored' = [stored EXCEPT ![sub[c]] = grant[c]]
          /\ stage' = [stage EXCEPT ![c] = "stored"]
          /\ UNCHANGED <<status, live, grant, pc, sub, snap, token, orphaned>>
      BY <1>7 DEF UpdateTokens, PersistedGrant, StatusAfterUpdate, envVars,
                  callVars, histVars
    <2>2. grant[c] = live[sub[c]] /\ stored[sub[c]] <= live[sub[c]]
      BY <2>1
    <2>3. \A d \in Callers : d # c /\ stage[d] # "none" => sub[d] # sub[c]
      BY <1>0, <2>1 DEF SingleFlight
    <2>4. \A s \in Subs : stored[s] <= stored'[s] /\ stored'[s] <= live'[s]
      BY <2>1, <2>2
    <2>5. \A d \in Callers :
            pc'[d] \in {"held", "waiting", "using"} => snap'[d] <= stored'[sub'[d]]
      BY <2>1, <2>4
    <2>6. PersistedBeforeUse'
      BY <2>1, <2>4 DEF PersistedBeforeUse
    <2>7. DeadGrantFenced'
      BY <2>1, <2>2 DEF DeadGrantFenced
    <2>8. QED
      BY <2>1, <2>3, <2>4, <2>5, <2>6, <2>7 DEF GrantFacts
  <1>8. ASSUME NEW c \in Callers, MarkUnusable(c) \/ MarkUnusableFails(c)
        PROVE  GrantFacts'
    BY <1>8 DEF MarkUnusable, MarkedUnusable, MarkUnusableFails, rowVars, envVars,
                callVars, histVars, GrantFacts, PersistedBeforeUse, DeadGrantFenced
  <1>9. ASSUME NEW c \in Callers, Settle(c)
        PROVE  GrantFacts'
    <2>1. /\ stage[c] \in Settled
          /\ stage' = [stage EXCEPT ![c] = "none"]
          /\ grant' = [grant EXCEPT ![c] = 0]
          /\ UNCHANGED <<status, stored, live, sub, snap, orphaned>>
      BY <1>9 DEF Settle, CanSettle, rowVars, envVars, histVars
    <2>2. \A w \in Callers : w \in Waiters(c) <=> pc[w] = "waiting" /\ on[w] = c
      BY DEF Waiters
    <2>3. \A w \in Callers : w \in Waiters(c) => sub[w] = sub[c]
      BY <2>2 DEF WaitersServed
    <2>4. pc' = [w \in Callers |->
                   IF w \notin Waiters(c) THEN pc[w]
                   ELSE CASE stage[c] = "failed" -> "failed"
                          [] stage[c] = "broken" -> "broken"
                          [] OTHER -> "using"]
      BY <1>9 DEF Settle
    <2>5. token' = [w \in Callers |->
                     IF w \in Waiters(c) /\ stage[c] \notin {"failed", "broken"}
                     THEN grant[c] ELSE token[w]]
      BY <1>9 DEF Settle
    <2>6. \A w \in Callers : pc'[w] = "using" =>
            \/ w \notin Waiters(c) /\ pc[w] = "using" /\ token'[w] = token[w]
            \/ w \in Waiters(c) /\ stage[c] = "stored" /\ token'[w] = grant[c]
      BY <2>1, <2>4, <2>5 DEF Settled
    <2>7. PersistedBeforeUse'
      BY <2>1, <2>3, <2>6 DEF PersistedBeforeUse
    <2>8. \A w \in Callers : pc'[w] \in {"held", "waiting", "using"} =>
            pc[w] \in {"held", "waiting", "using"}
      BY <2>2, <2>4
    <2>9. DeadGrantFenced'
      BY <2>1 DEF DeadGrantFenced, Settled
    <2>10. QED
      BY <2>1, <2>7, <2>8, <2>9 DEF GrantFacts
  <1>10. ASSUME NEW s \in Subs, Disable(s) \/ \E g \in Gens : Age(s, g)
         PROVE  GrantFacts'
    BY <1>10 DEF Disable, Age, rowVars, envVars, runVars, callVars, histVars,
                 GrantFacts, PersistedBeforeUse, DeadGrantFenced
  <1>11. ASSUME NEW late \in SUBSET {s \in Subs : Redeemable(s)}, Crash(late)
         PROVE  GrantFacts'
    BY <1>11 DEF Crash, rowVars, GrantFacts, PersistedBeforeUse, DeadGrantFenced
  <1>12. CASE UNCHANGED vars
    BY <1>12 DEF vars, rowVars, envVars, runVars, callVars, histVars,
                 GrantFacts, PersistedBeforeUse, DeadGrantFenced
  <1>13. QED
    BY <1>1, <1>2, <1>3, <1>4, <1>5, <1>6, <1>7, <1>8, <1>9, <1>10, <1>11, <1>12
    DEF Next, Progress

\* A caller only ever works with a token whose grant the row already holds.
THEOREM TokensPersistedBeforeUse == Spec => []PersistedBeforeUse
  <1>1. GrantInv => PersistedBeforeUse
    BY DEF GrantInv, GrantFacts
  <1>2. QED
    BY GrantInit, GrantStep, <1>1, PTL DEF Spec

\* A dead refresh token stays in an active row only while its promise is still
\* running, or after a crash or the failure of markUnusable.
THEOREM DeadGrantsAreFenced == Spec => []DeadGrantFenced
  <1>1. GrantInv => DeadGrantFenced
    BY DEF GrantInv, GrantFacts
  <1>2. QED
    BY GrantInit, GrantStep, <1>1, PTL DEF Spec

\* No refresh, in flight or not, puts a subscription back into service.
THEOREM OutOfServiceStaysOut == Spec => NeverRevived
  <1>1. CallerInv /\ [Next]_vars =>
          [\A s \in Subs : status[s] # "active" => status'[s] # "active"]_vars
    <2> SUFFICES ASSUME CallerInv, Next
                 PROVE  \A s \in Subs : status[s] # "active" => status'[s] # "active"
      OBVIOUS
    <2>1. \/ status' = status
          \/ \E s \in Subs, t \in {"disabled", "unusable"} :
               status' = [status EXCEPT ![s] = t]
      BY DEF Next, Progress, Select, ListActive, FindById, EnsureFresh, RefreshNow,
             Release, Rotate, RefuseSpent, RefuseLive, LoseReply, UpdateTokens,
             StatusAfterUpdate, UpdateTokensFails, MarkUnusable, MarkedUnusable,
             MarkUnusableFails, Settle, Age, Disable, Crash, rowVars,
             CallerInv, TypeOK
    <2>2. QED
      BY <2>1 DEF CallerInv, TypeOK
  <1>2. QED
    BY CallerInit, CallerStep, <1>1, PTL DEF Spec, NeverRevived

-----------------------------------------------------------------------------
(* The lifecycle implements GrantCustody *)

places == [s \in Subs |-> Place(s)]
active == {s \in Subs : status[s] = "active"}

LEMMA CustodyInit == Init => Custody!Init
  BY DEF Init, Custody!Init, Place

\* A step that moves no generation and no grant leaves every token in its place.
LEMMA PlaceKept ==
  ASSUME GrantInv, UNCHANGED <<stored, live>>,
         \A c \in Callers : stage[c] = "granted" \/ stage'[c] = "granted" =>
           stage'[c] = stage[c] /\ grant'[c] = grant[c] /\ sub'[c] = sub[c]
  PROVE  places' = places
  BY DEF places, Place

\* The custody steps, read off the mapped state.
Moves(s, p) ==
  /\ \A t \in Subs : Place(t)' = IF t = s THEN p ELSE Place(t)
  /\ UNCHANGED <<status, faults>>

LEMMA RedeemMapped ==
  ASSUME NEW s \in Subs, Place(s) = "row", Moves(s, "hand")
  PROVE  Custody!Next
  <1>1. Custody!Redeem(s)
    BY DEF Moves, Custody!Redeem
  <1>2. QED
    BY <1>1 DEF Custody!Next

LEMMA PersistMapped ==
  ASSUME NEW s \in Subs, Place(s) = "hand", Moves(s, "row")
  PROVE  Custody!Next
  <1>1. Custody!Persist(s)
    BY DEF Moves, Custody!Persist
  <1>2. QED
    BY <1>1 DEF Custody!Next

LEMMA MishapMapped ==
  ASSUME NEW hit \in SUBSET Subs, faults' = faults + 1, status' = status,
         \A t \in Subs : Place(t)' = IF t \in hit THEN "lost" ELSE Place(t)
  PROVE  Custody!Next
  <1>1. Custody!Mishap(hit)
    BY DEF Custody!Mishap
  <1>2. QED
    BY <1>1 DEF Custody!Next

LEMMA RetireMapped ==
  ASSUME TypeOK, NEW s \in Subs, NEW t \in {"disabled", "unusable"},
         status' = [status EXCEPT ![s] = t],
         faults' = faults, places' = places
  PROVE  [Custody!Next]_(Custody!custodyVars)
  <1>1. CASE status[s] = "active"
    <2>1. active' = active \ {s}
      BY <1>1 DEF active, TypeOK
    <2>2. Custody!Retire(s)
      BY <1>1, <2>1 DEF Custody!Retire, active, places
    <2>3. QED
      BY <2>2 DEF Custody!Next
  <1>2. CASE status[s] # "active"
    <2>1. active' = active
      BY <1>2 DEF active, TypeOK
    <2>2. QED
      BY <2>1 DEF Custody!custodyVars, active, places
  <1>3. QED
    BY <1>1, <1>2

LEMMA CustodyStep == GrantInv /\ [Next]_vars => [Custody!Next]_(Custody!custodyVars)
  <1> SUFFICES ASSUME GrantInv, [Next]_vars
               PROVE  [Custody!Next]_(Custody!custodyVars)
    OBVIOUS
  <1>0. SingleFlight /\ TypeOK
    BY DEF GrantInv, RegistryInv, CallerInv, NoWedgedEntry, SingleFlight
  <1>1. ASSUME NEW c \in Callers, Rotate(c)
        PROVE  Custody!Next
    <2>1. /\ stage[c] = "calling" /\ sub[c] \in Subs
          /\ snap[c] = live[sub[c]]
          /\ live' = [live EXCEPT ![sub[c]] = @ + 1]
          /\ stage' = [stage EXCEPT ![c] = "granted"]
          /\ grant' = [grant EXCEPT ![c] = live[sub[c]] + 1]
          /\ UNCHANGED <<status, stored, sub, faults>>
      BY <1>1 DEF Rotate, rowVars, callVars, histVars, GrantInv, RegistryInv, CallerInv, TypeOK
    <2>2. stored[sub[c]] = live[sub[c]] /\ stored[sub[c]] # live'[sub[c]]
      BY <2>1 DEF GrantInv, GrantFacts, RegistryInv, CallerInv, TypeOK, Gens
    <2>3. \A d \in Callers : d # c /\ stage[d] # "none" => sub[d] # sub[c]
      BY <1>0, <2>1 DEF SingleFlight
    <2>4. Place(sub[c]) = "row" /\ Place(sub[c])' = "hand"
      BY <2>1, <2>2 DEF Place, GrantInv, RegistryInv, CallerInv, TypeOK
    <2>5. \A t \in Subs : t # sub[c] => Place(t)' = Place(t)
      BY <2>1 DEF Place, GrantInv, RegistryInv, CallerInv, TypeOK
    <2>6. QED
      BY <2>1, <2>4, <2>5, RedeemMapped DEF Moves
  <1>2. ASSUME NEW c \in Callers, UpdateTokens(c)
        PROVE  Custody!Next
    <2>1. /\ stage[c] = "granted" /\ sub[c] \in Subs
          /\ stored' = [stored EXCEPT ![sub[c]] = grant[c]]
          /\ stage' = [stage EXCEPT ![c] = "stored"]
          /\ UNCHANGED <<status, live, grant, sub, faults>>
      BY <1>2 DEF UpdateTokens, PersistedGrant, StatusAfterUpdate, envVars, callVars,
                  histVars, GrantInv, RegistryInv, CallerInv, TypeOK
    <2>2. grant[c] = live[sub[c]] /\ stored[sub[c]] # live[sub[c]]
      BY <2>1 DEF GrantInv, GrantFacts, RegistryInv, CallerInv, TypeOK, Gens
    <2>3. Place(sub[c]) = "hand" /\ Place(sub[c])' = "row"
      BY <2>1, <2>2, <1>0 DEF Place, TypeOK
    <2>4. \A t \in Subs : t # sub[c] => Place(t)' = Place(t)
      BY <2>1, <1>0 DEF Place, TypeOK
    <2>5. QED
      BY <2>1, <2>3, <2>4, PersistMapped DEF Moves
  <1>3. ASSUME NEW c \in Callers, LoseReply(c)
        PROVE  Custody!Next
    <2>1. /\ stage[c] = "calling" /\ sub[c] \in Subs
          /\ live' = [live EXCEPT ![sub[c]] = @ + 1]
          /\ stage' = [stage EXCEPT ![c] = "refused"]
          /\ UNCHANGED <<status, stored, grant, sub>>
          /\ faults' = faults + 1
      BY <1>3 DEF LoseReply, Fault, rowVars, callVars, GrantInv, RegistryInv, CallerInv, TypeOK
    <2>2. stored[sub[c]] # live'[sub[c]]
      BY <2>1 DEF GrantInv, GrantFacts, RegistryInv, CallerInv, TypeOK, Gens
    <2>3. \A d \in Callers : d # c /\ stage[d] # "none" => sub[d] # sub[c]
      BY <1>0, <2>1 DEF SingleFlight
    <2>4. \A t \in Subs : Place(t)' = IF t \in {sub[c]} THEN "lost" ELSE Place(t)
      BY <1>0, <2>1, <2>2, <2>3 DEF Place, TypeOK
    <2>5. QED
      BY <2>1, <2>4, MishapMapped
  <1>4. ASSUME NEW c \in Callers, UpdateTokensFails(c)
        PROVE  Custody!Next
    <2>1. /\ stage[c] = "granted" /\ sub[c] \in Subs
          /\ stage' = [stage EXCEPT ![c] = "refused"]
          /\ UNCHANGED <<status, stored, live, grant, sub>>
          /\ faults' = faults + 1
      BY <1>4 DEF UpdateTokensFails, Fault, rowVars, envVars, callVars,
                  GrantInv, RegistryInv, CallerInv, TypeOK
    <2>2. stored[sub[c]] # live[sub[c]]
      BY <2>1 DEF GrantInv, GrantFacts, RegistryInv, CallerInv, TypeOK, Gens
    <2>3. \A d \in Callers : d # c /\ stage[d] # "none" => sub[d] # sub[c]
      BY <1>0, <2>1 DEF SingleFlight
    <2>4. \A t \in Subs : Place(t)' = IF t \in {sub[c]} THEN "lost" ELSE Place(t)
      BY <1>0, <2>1, <2>2, <2>3 DEF Place, TypeOK
    <2>5. QED
      BY <2>1, <2>4, MishapMapped
  <1>5. ASSUME NEW c \in Callers, RefuseLive(c) \/ MarkUnusableFails(c)
        PROVE  Custody!Next
    <2>1. /\ stage[c] \in {"calling", "refused"}
          /\ stage' = [stage EXCEPT ![c] = "refused"] \/ stage' = [stage EXCEPT ![c] = "broken"]
          /\ UNCHANGED <<status, stored, live, grant, sub>>
          /\ faults' = faults + 1
      BY <1>5 DEF RefuseLive, MarkUnusableFails, Fault, rowVars, envVars, callVars
    <2>2. PICK hit \in SUBSET Subs : hit = {}
      OBVIOUS
    <2>3. \A t \in Subs : Place(t)' = Place(t)
      BY <1>0, <2>1 DEF Place, TypeOK
    <2>4. \A t \in Subs : Place(t)' = IF t \in hit THEN "lost" ELSE Place(t)
      BY <2>2, <2>3
    <2>5. QED
      BY <2>1, <2>4, MishapMapped
  <1>6. ASSUME NEW late \in SUBSET {s \in Subs : Redeemable(s)}, Crash(late)
        PROVE  Custody!Next
    <2> DEFINE hit == {s \in Subs : stored[s] # live'[s]}
    <2>1. /\ live' = [s \in Subs |-> IF s \in late THEN live[s] + 1 ELSE live[s]]
          /\ \A c \in Callers : stage'[c] = "none"
          /\ UNCHANGED <<status, stored>>
          /\ faults' = faults + 1
      BY <1>6 DEF Crash, Fault, rowVars
    <2>2. \A t \in Subs : stored[t] <= live[t] /\ stored[t] \in Nat /\ live[t] \in Nat
      BY TokenManagerAssumption DEF GrantInv, GrantFacts, RegistryInv, CallerInv, TypeOK, Gens
    <2>3. \A t \in Subs : t \notin hit => Place(t) = "row" /\ Place(t)' = "row"
      BY <2>1, <2>2 DEF Place
    <2>4. \A t \in Subs : t \in hit => Place(t)' = "lost"
      BY <2>1 DEF Place
    <2>5. \A t \in Subs : Place(t)' = IF t \in hit THEN "lost" ELSE Place(t)
      BY <2>3, <2>4
    <2>6. QED
      BY <2>1, <2>5, MishapMapped
  <1>7. ASSUME NEW c \in Callers, MarkUnusable(c)
        PROVE  [Custody!Next]_(Custody!custodyVars)
    <2>1. /\ sub[c] \in Subs /\ stage[c] = "refused"
          /\ status' = [status EXCEPT ![sub[c]] = "unusable"]
          /\ stage' = [stage EXCEPT ![c] = "failed"]
          /\ UNCHANGED <<stored, live, grant, sub, faults>>
      BY <1>7 DEF MarkUnusable, MarkedUnusable, envVars, callVars, histVars,
                  GrantInv, RegistryInv, CallerInv, TypeOK
    <2>2. places' = places
      BY <1>0, <2>1, PlaceKept DEF TypeOK
    <2>3. QED
      BY <1>0, <2>1, <2>2, RetireMapped
  <1>8. ASSUME NEW s \in Subs, Disable(s)
        PROVE  [Custody!Next]_(Custody!custodyVars)
    <2>1. /\ status' = [status EXCEPT ![s] = "disabled"]
          /\ UNCHANGED <<stored, live, grant, stage, sub, faults>>
      BY <1>8 DEF Disable, envVars, runVars, callVars, histVars
    <2>2. places' = places
      BY <2>1, PlaceKept
    <2>3. QED
      BY <1>0, <2>1, <2>2, RetireMapped
  <1>9. ASSUME \/ \E c \in Callers :
                    \/ \E s \in Subs : Select(c, s) \/ ListActive(c, s)
                    \/ FindById(c) \/ EnsureFresh(c) \/ RefreshNow(c)
                    \/ Release(c) \/ RefuseSpent(c) \/ Settle(c)
               \/ \E s \in Subs, g \in Gens : Age(s, g)
               \/ UNCHANGED vars
        PROVE  UNCHANGED Custody!custodyVars
    <2>1. UNCHANGED <<status, stored, live, faults>>
      BY <1>9 DEF Select, ListActive, FindById, EnsureFresh, RefreshNow, Release,
                  RefuseSpent, Settle, Age, vars, rowVars, envVars, histVars
    <2>2. \A c \in Callers : stage[c] = "granted" \/ stage'[c] = "granted" =>
            stage'[c] = stage[c] /\ grant'[c] = grant[c] /\ sub'[c] = sub[c]
      BY <1>0, <1>9
      DEF Select, ListActive, FindById, EnsureFresh, RefreshNow, Refresh, Release,
          RefuseSpent, Settle, CanSettle, Settled, Age, vars, runVars, callVars,
          GrantInv, RegistryInv, CallerInv, TypeOK
    <2>3. QED
      BY <2>1, <2>2, PlaceKept DEF Custody!custodyVars, places
  <1>10. QED
    BY <1>1, <1>2, <1>3, <1>4, <1>5, <1>6, <1>7, <1>8, <1>9 DEF Next, Progress

\* The token lifecycle implements the custody of grants: a rotated refresh token
\* goes through one promise into the row, and only a fault loses it.
THEOREM ImplementsCustody == Spec => KeepsCustody
  BY GrantInit, GrantStep, CustodyInit, CustodyStep, PTL
  DEF Spec, KeepsCustody, Custody!Spec

-----------------------------------------------------------------------------
(* What follows from the refinement, and what the components around this    *)
(* one take for granted of it                                               *)

\* Of the abstract promise alone: nothing is lost before the first mishap.
NoneLost == faults = 0 => \A s \in Subs : Place(s) # "lost"

LEMMA CustodyLosesNothing ==
  /\ faults \in Nat
  /\ NoneLost
  /\ [Custody!Next]_(Custody!custodyVars)
  => NoneLost'
  <1> SUFFICES ASSUME faults \in Nat, NoneLost, [Custody!Next]_(Custody!custodyVars)
               PROVE  NoneLost'
    OBVIOUS
  <1>1. ASSUME NEW s \in Subs, Custody!Redeem(s) \/ Custody!Persist(s)
        PROVE  NoneLost'
    <2>1. faults' = faults
      BY <1>1 DEF Custody!Redeem, Custody!Persist
    <2>2. \/ places' = [places EXCEPT ![s] = "hand"]
          \/ places' = [places EXCEPT ![s] = "row"]
      BY <1>1 DEF Custody!Redeem, Custody!Persist, places
    <2>3. \A t \in Subs : places[t] = Place(t) /\ places'[t] = Place(t)'
      BY DEF places
    <2>4. QED
      BY <2>1, <2>2, <2>3 DEF NoneLost, places
  <1>2. ASSUME NEW s \in Subs, Custody!Retire(s)
        PROVE  NoneLost'
    <2>1. faults' = faults /\ places' = places
      BY <1>2 DEF Custody!Retire, places
    <2>2. \A t \in Subs : places[t] = Place(t) /\ places'[t] = Place(t)'
      BY DEF places
    <2>3. QED
      BY <2>1, <2>2 DEF NoneLost
  <1>3. ASSUME NEW hit \in SUBSET Subs, Custody!Mishap(hit)
        PROVE  NoneLost'
    BY <1>3 DEF Custody!Mishap, NoneLost
  <1>4. CASE UNCHANGED Custody!custodyVars
    <2>1. faults' = faults /\ places' = places
      BY <1>4 DEF Custody!custodyVars, places
    <2>2. \A t \in Subs : places[t] = Place(t) /\ places'[t] = Place(t)'
      BY DEF places
    <2>3. QED
      BY <2>1, <2>2 DEF NoneLost
  <1>5. QED
    BY <1>1, <1>2, <1>3, <1>4 DEF Custody!Next

\* No interleaving of refreshes, joins, disables and expiries loses a redeemable
\* refresh token: that takes a crash, a lost reply or a failed write.
THEOREM NothingLostWithoutFault == Spec => []NoneLost
  <1>1. Init => NoneLost
    BY DEF Init, NoneLost, Place
  <1>2. GrantInv => faults \in Nat
    BY TokenManagerAssumption DEF GrantInv, RegistryInv, CallerInv, TypeOK
  <1>3. QED
    BY GrantInit, GrantStep, CustodyStep, CustodyLosesNothing, <1>1, <1>2, PTL DEF Spec

\* A caller that was thrown RefreshFailed, and a promise about to throw it, find
\* their subscription out of service already: markUnusable comes before the throw.
\* It is what the failover loop relies on when it selects again.
FailedMeansFenced == \A c \in Callers :
  pc[c] = "failed" \/ stage[c] = "failed" => status[sub[c]] # "active"

LEMMA FencedStep == RegistryInv /\ FailedMeansFenced /\ [Next]_vars => FailedMeansFenced'
  <1> SUFFICES ASSUME RegistryInv, FailedMeansFenced, [Next]_vars
               PROVE  FailedMeansFenced'
    OBVIOUS
  <1> USE DEF RegistryInv, CallerInv, TypeOK, FailedMeansFenced
  <1>1. ASSUME NEW c \in Callers, NEW s \in Subs, Select(c, s) \/ ListActive(c, s)
        PROVE  FailedMeansFenced'
    BY <1>1 DEF Select, ListActive, rowVars, runVars
  <1>2. ASSUME NEW c \in Callers, FindById(c) \/ Release(c)
        PROVE  FailedMeansFenced'
    BY <1>2 DEF FindById, Release, rowVars, runVars
  <1>3. ASSUME NEW c \in Callers, EnsureFresh(c) \/ RefreshNow(c)
        PROVE  FailedMeansFenced'
    <2>1. UNCHANGED <<status, sub>>
      BY <1>3 DEF EnsureFresh, RefreshNow, rowVars
    <2>2. \A d \in Callers : pc'[d] = "failed" => pc[d] = "failed"
      BY <1>3 DEF EnsureFresh, RefreshNow, Refresh
    <2>3. \A d \in Callers : stage'[d] = "failed" => stage[d] = "failed"
      BY <1>3 DEF EnsureFresh, RefreshNow, Refresh, runVars
    <2>4. QED
      BY <2>1, <2>2, <2>3
  <1>4. ASSUME NEW c \in Callers, Rotate(c) \/ RefuseSpent(c) \/ RefuseLive(c) \/ LoseReply(c)
        PROVE  FailedMeansFenced'
    BY <1>4 DEF Rotate, RefuseSpent, RefuseLive, LoseReply, rowVars, callVars
  <1>5. ASSUME NEW c \in Callers,
               UpdateTokens(c) \/ UpdateTokensFails(c) \/ MarkUnusableFails(c)
        PROVE  FailedMeansFenced'
    BY <1>5 DEF UpdateTokens, StatusAfterUpdate, UpdateTokensFails, MarkUnusableFails,
                rowVars, callVars
  <1>6. ASSUME NEW c \in Callers, MarkUnusable(c)
        PROVE  FailedMeansFenced'
    <2>1. sub[c] \in Subs /\ status' = [status EXCEPT ![sub[c]] = "unusable"]
      BY <1>6 DEF MarkUnusable, MarkedUnusable
    <2>2. /\ stage' = [stage EXCEPT ![c] = "failed"]
          /\ UNCHANGED <<pc, sub>>
      BY <1>6 DEF MarkUnusable, callVars
    <2>3. \A d \in Callers : pc[d] = "failed" \/ stage[d] = "failed" => sub[d] \in Subs
      BY DEF Pc
    <2>4. QED
      BY <2>1, <2>2, <2>3
  <1>7. ASSUME NEW c \in Callers, Settle(c)
        PROVE  FailedMeansFenced'
    <2>1. pc' = [w \in Callers |->
                   IF w \notin Waiters(c) THEN pc[w]
                   ELSE CASE stage[c] = "failed" -> "failed"
                          [] stage[c] = "broken" -> "broken"
                          [] OTHER -> "using"]
      BY <1>7 DEF Settle
    <2>2. stage' = [stage EXCEPT ![c] = "none"] /\ UNCHANGED <<status, sub>>
      BY <1>7 DEF Settle, rowVars
    <2>3. \A w \in Waiters(c) : w \in Callers /\ sub[w] = sub[c]
      BY DEF Waiters, WaitersServed
    <2>4. \A w \in Callers : pc'[w] = "failed" =>
            pc[w] = "failed" \/ (w \in Waiters(c) /\ stage[c] = "failed")
      BY <2>1
    <2>5. QED
      BY <2>2, <2>3, <2>4
  <1>8. ASSUME NEW s \in Subs, Disable(s) \/ \E g \in Gens : Age(s, g)
        PROVE  FailedMeansFenced'
    BY <1>8 DEF Disable, Age, rowVars, runVars, callVars, Pc
  <1>9. ASSUME NEW late \in SUBSET {s \in Subs : Redeemable(s)}, Crash(late)
        PROVE  FailedMeansFenced'
    BY <1>9 DEF Crash
  <1>10. CASE UNCHANGED vars
    BY <1>10 DEF vars, rowVars, runVars, callVars
  <1>11. QED
    BY <1>1, <1>2, <1>3, <1>4, <1>5, <1>6, <1>7, <1>8, <1>9, <1>10 DEF Next, Progress

\* Whoever fails over after RefreshFailed cannot be handed the same row again:
\* no later selection finds it active.
THEOREM FailureIsFenced == Spec => []FailedMeansFenced
  <1>1. Init => FailedMeansFenced
    BY DEF Init, FailedMeansFenced
  <1>2. QED
    BY RegistryInit, RegistryStep, FencedStep, <1>1, PTL DEF Spec

\* A row's token pair is only ever replaced by a newer one: a slow doRefresh never
\* overwrites what a later one has persisted.
NeverRolledBack == [][\A s \in Subs : stored[s] <= stored'[s]]_vars

THEOREM NewerPairStays == Spec => NeverRolledBack
  <1>1. GrantInv /\ [Next]_vars => [\A s \in Subs : stored[s] <= stored'[s]]_vars
    <2> SUFFICES ASSUME GrantInv, Next
                 PROVE  \A s \in Subs : stored[s] <= stored'[s]
      OBVIOUS
    <2>1. \A s \in Subs : stored[s] \in Nat
      <3>1. stored \in [Subs -> 0..MaxGen]
        BY DEF GrantInv, RegistryInv, CallerInv, TypeOK, Gens
      <3>2. QED
        BY <3>1
    <2>2. \/ stored' = stored
          \/ \E c \in Callers : /\ stage[c] = "granted"
                                /\ stored' = [stored EXCEPT ![sub[c]] = grant[c]]
      BY DEF Next, Progress, Select, ListActive, FindById, EnsureFresh, RefreshNow,
             Release, Rotate, RefuseSpent, RefuseLive, LoseReply, UpdateTokens,
             PersistedGrant, UpdateTokensFails, MarkUnusable, MarkUnusableFails,
             Settle, Age, Disable, Crash, rowVars
    <2>3. \A c \in Callers : stage[c] = "granted" =>
            sub[c] \in Subs /\ stored[sub[c]] < grant[c]
      BY DEF GrantInv, GrantFacts, RegistryInv, CallerInv
    <2>4. \A c \in Callers : grant[c] \in Nat /\ stored \in [Subs -> Gens]
      BY TokenManagerAssumption DEF GrantInv, RegistryInv, CallerInv, TypeOK, Gens
    <2>5. QED
      BY <2>1, <2>2, <2>3, <2>4
  <1>2. QED
    BY GrantInit, GrantStep, <1>1, PTL DEF Spec, NeverRolledBack

-----------------------------------------------------------------------------
(* Why a refresher is answered: the variant behind RefresherAnswered        *)

\* Awaits a promise still has before it settles.
StepsLeft == [t \in Stage |->
  CASE t = "calling" -> 4
    [] t = "granted" -> 3
    [] t = "refused" -> 2
    [] t \in Settled -> 1
    [] OTHER -> 0]
AwaitsLeft(w) == IF pc[w] = "waiting" THEN StepsLeft[stage[on[w]]] ELSE 0

\* A caller that waits stays with its promise; no step of anybody, faults
\* included, sends that promise back, and each step of its own brings it nearer
\* to its end: no refresh is started over while somebody waits for it.
WaitsShrink ==
  [][\A w \in Callers : pc[w] = "waiting" =>
       /\ AwaitsLeft(w)' <= AwaitsLeft(w)
       /\ pc'[w] = "waiting" => on'[w] = on[w]
       /\ Progress(on[w]) => AwaitsLeft(w)' < AwaitsLeft(w)]_vars

LEMMA StepsLeftRange ==
  /\ StepsLeft["calling"] = 4 /\ StepsLeft["granted"] = 3 /\ StepsLeft["refused"] = 2
  /\ StepsLeft["stored"] = 1 /\ StepsLeft["failed"] = 1 /\ StepsLeft["broken"] = 1
  /\ StepsLeft["none"] = 0
  /\ \A t \in Stage : StepsLeft[t] \in 0..4 /\ (t # "none" => StepsLeft[t] > 0)
  BY DEF Stage, StepsLeft, Settled

\* A promise that goes on to a later stage.
Onward(c) ==
  /\ stage[c] # "none"
  /\ \E t \in Stage \ {"none"} :
       StepsLeft[t] < StepsLeft[stage[c]] /\ stage' = [stage EXCEPT ![c] = t]
  /\ UNCHANGED <<pc, on>>

LEMMA OnwardStep ==
  ASSUME NEW c \in Callers,
         \/ Rotate(c) \/ RefuseSpent(c) \/ RefuseLive(c) \/ LoseReply(c)
         \/ UpdateTokens(c) \/ UpdateTokensFails(c)
         \/ MarkUnusable(c) \/ MarkUnusableFails(c)
  PROVE  Onward(c)
  <1>1. \E t \in {"granted", "refused", "stored", "failed", "broken"} :
          /\ stage' = [stage EXCEPT ![c] = t]
          /\ \/ stage[c] = "calling" /\ t \in {"granted", "refused"}
             \/ stage[c] = "granted" /\ t \in {"stored", "refused"}
             \/ stage[c] = "refused" /\ t \in {"failed", "broken"}
    BY DEF Rotate, RefuseSpent, RefuseLive, LoseReply, UpdateTokens,
           UpdateTokensFails, MarkUnusable, MarkUnusableFails
  <1>2. UNCHANGED <<pc, on>>
    BY DEF Rotate, RefuseSpent, RefuseLive, LoseReply, UpdateTokens,
           UpdateTokensFails, MarkUnusable, MarkUnusableFails, callVars
  <1>3. PICK t \in {"granted", "refused", "stored", "failed", "broken"} :
          /\ stage' = [stage EXCEPT ![c] = t]
          /\ stage[c] \in Stage \ {"none"} /\ t \in Stage \ {"none"}
          /\ StepsLeft[t] < StepsLeft[stage[c]]
    <2>1. {"granted", "refused", "stored", "failed", "broken", "calling"} \subseteq
            Stage \ {"none"}
      BY DEF Stage
    <2>2. PICK t \in {"granted", "refused", "stored", "failed", "broken"} :
            /\ stage' = [stage EXCEPT ![c] = t]
            /\ \/ stage[c] = "calling" /\ t \in {"granted", "refused"}
               \/ stage[c] = "granted" /\ t \in {"stored", "refused"}
               \/ stage[c] = "refused" /\ t \in {"failed", "broken"}
      BY <1>1
    <2>3. /\ stage[c] = "calling" => StepsLeft[stage[c]] = 4 /\ StepsLeft[t] \in {2, 3}
          /\ stage[c] = "granted" => StepsLeft[stage[c]] = 3 /\ StepsLeft[t] \in {1, 2}
          /\ stage[c] = "refused" => StepsLeft[stage[c]] = 2 /\ StepsLeft[t] = 1
      BY <2>2, StepsLeftRange
    <2>4. StepsLeft[t] < StepsLeft[stage[c]]
      BY <2>2, <2>3
    <2>5. QED
      BY <2>1, <2>2, <2>4
  <1>4. QED
    BY <1>2, <1>3 DEF Onward

LEMMA OnwardShrinks ==
  ASSUME RegistryInv, NEW c \in Callers, Onward(c),
         NEW w \in Callers, pc[w] = "waiting"
  PROVE  /\ AwaitsLeft(w)' <= AwaitsLeft(w)
         /\ pc'[w] = "waiting" => on'[w] = on[w]
         /\ c = on[w] => AwaitsLeft(w)' < AwaitsLeft(w)
  <1>1. PICK t \in Stage \ {"none"} :
          StepsLeft[t] < StepsLeft[stage[c]] /\ stage' = [stage EXCEPT ![c] = t]
    BY DEF Onward
  <1>2. on[w] \in Callers /\ stage \in [Callers -> Stage]
    BY DEF RegistryInv, CallerInv, TypeOK, WaitersServed
  <1>3. pc'[w] = "waiting" /\ on'[w] = on[w]
    BY DEF Onward
  <1>4. /\ AwaitsLeft(w) = StepsLeft[stage[on[w]]]
        /\ AwaitsLeft(w)' = StepsLeft[stage'[on[w]]]
    BY <1>3 DEF AwaitsLeft
  <1>5. \A d \in Callers : StepsLeft[stage[d]] \in 0..4
    <2>1. \A d \in Callers : stage[d] \in Stage
      BY <1>2
    <2>2. QED
      BY <2>1, StepsLeftRange
  <1>6. CASE on[w] = c
    <2>1. stage'[on[w]] = t /\ StepsLeft[t] \in 0..4
      BY <1>1, <1>2, <1>6, StepsLeftRange
    <2>2. AwaitsLeft(w)' < AwaitsLeft(w)
      BY <1>1, <1>4, <1>6, <2>1
    <2>3. AwaitsLeft(w) \in 0..4 /\ AwaitsLeft(w)' \in 0..4
      BY <1>2, <1>4, <1>5, <2>1
    <2>4. QED
      BY <1>3, <2>2, <2>3
  <1>7. CASE on[w] # c
    <2>1. stage'[on[w]] = stage[on[w]]
      BY <1>1, <1>2, <1>7
    <2>2. AwaitsLeft(w)' = AwaitsLeft(w)
      BY <1>4, <2>1
    <2>3. AwaitsLeft(w) \in 0..4
      BY <1>2, <1>4, <1>5
    <2>4. QED
      BY <1>3, <1>7, <2>2, <2>3
  <1>8. QED
    BY <1>6, <1>7

LEMMA SettleShrinks ==
  ASSUME RegistryInv, NEW c \in Callers, Settle(c),
         NEW w \in Callers, pc[w] = "waiting"
  PROVE  /\ AwaitsLeft(w)' <= AwaitsLeft(w)
         /\ pc'[w] = "waiting" => on'[w] = on[w]
         /\ c = on[w] => AwaitsLeft(w)' < AwaitsLeft(w)
  <1>1. /\ stage' = [stage EXCEPT ![c] = "none"]
        /\ pc' = [d \in Callers |->
                    IF d \notin Waiters(c) THEN pc[d]
                    ELSE CASE stage[c] = "failed" -> "failed"
                           [] stage[c] = "broken" -> "broken"
                           [] OTHER -> "using"]
        /\ on' = [d \in Callers |-> IF d \in Waiters(c) THEN None ELSE on[d]]
    BY DEF Settle
  <1>2. on[w] \in Callers /\ stage \in [Callers -> Stage] /\ stage[on[w]] # "none"
    BY DEF RegistryInv, CallerInv, TypeOK, WaitersServed
  <1>3. AwaitsLeft(w) = StepsLeft[stage[on[w]]] /\ AwaitsLeft(w) \in 1..4
    <2>1. AwaitsLeft(w) = StepsLeft[stage[on[w]]]
      BY DEF AwaitsLeft
    <2>2. QED
      BY <1>2, <2>1, StepsLeftRange
  <1>4. CASE on[w] = c
    <2>1. w \in Waiters(c)
      BY <1>4 DEF Waiters
    <2>2. pc'[w] # "waiting"
      BY <1>1, <2>1
    <2>3. AwaitsLeft(w)' = 0
      BY <2>2 DEF AwaitsLeft
    <2>4. QED
      BY <1>3, <2>2, <2>3
  <1>5. CASE on[w] # c
    <2>1. w \notin Waiters(c)
      BY <1>5 DEF Waiters
    <2>2. pc'[w] = "waiting" /\ on'[w] = on[w] /\ stage'[on[w]] = stage[on[w]]
      BY <1>1, <1>2, <1>5, <2>1
    <2>3. AwaitsLeft(w)' = AwaitsLeft(w)
      BY <2>2 DEF AwaitsLeft
    <2>4. QED
      BY <1>3, <1>5, <2>2, <2>3
  <1>6. QED
    BY <1>4, <1>5

LEMMA ShrinkStep == RegistryInv /\ [Next]_vars =>
  [\A w \in Callers : pc[w] = "waiting" =>
     /\ AwaitsLeft(w)' <= AwaitsLeft(w)
     /\ pc'[w] = "waiting" => on'[w] = on[w]
     /\ Progress(on[w]) => AwaitsLeft(w)' < AwaitsLeft(w)]_vars
  <1> SUFFICES ASSUME RegistryInv, Next, NEW w \in Callers, pc[w] = "waiting"
               PROVE  /\ AwaitsLeft(w)' <= AwaitsLeft(w)
                      /\ pc'[w] = "waiting" => on'[w] = on[w]
                      /\ Progress(on[w]) => AwaitsLeft(w)' < AwaitsLeft(w)
    OBVIOUS
  <1>1. /\ on[w] \in Callers /\ stage[on[w]] # "none" /\ pc[on[w]] = "waiting"
        /\ on \in [Callers -> Callers \cup {None}]
        /\ pc \in [Callers -> Pc]
        /\ stage \in [Callers -> Stage]
    BY DEF RegistryInv, CallerInv, TypeOK, WaitersServed
  <1>2. AwaitsLeft(w) = StepsLeft[stage[on[w]]] /\ AwaitsLeft(w) \in 1..4
    <2>1. AwaitsLeft(w) = StepsLeft[stage[on[w]]]
      BY DEF AwaitsLeft
    <2>2. QED
      BY <1>1, <2>1, StepsLeftRange
  <1>3. Progress(on[w]) => AwaitsLeft(w)' < AwaitsLeft(w)
    <2>1. ~ FindById(on[w]) /\ ~ EnsureFresh(on[w])
      BY <1>1 DEF FindById, EnsureFresh
    <2>2. QED
      BY <1>1, <2>1, OnwardStep, OnwardShrinks, SettleShrinks DEF Progress
  <1>4. ASSUME \/ \E c \in Callers :
                    \/ \E s \in Subs : Select(c, s) \/ ListActive(c, s)
                    \/ FindById(c) \/ EnsureFresh(c) \/ RefreshNow(c) \/ Release(c)
               \/ \E s \in Subs : Disable(s) \/ \E g \in Gens : Age(s, g)
        PROVE  AwaitsLeft(w)' <= AwaitsLeft(w) /\ (pc'[w] = "waiting" => on'[w] = on[w])
    <2>1. \A d \in Callers : pc[d] = "waiting" =>
            pc'[d] = "waiting" /\ on'[d] = on[d] /\ stage'[d] = stage[d]
      BY <1>1, <1>4
      DEF Select, ListActive, FindById, EnsureFresh, RefreshNow, Refresh, Release,
          Disable, Age, runVars, callVars
    <2>2. AwaitsLeft(w)' = AwaitsLeft(w)
      BY <1>1, <2>1 DEF AwaitsLeft
    <2>3. QED
      BY <1>2, <2>1, <2>2
  <1>5. ASSUME NEW late \in SUBSET {s \in Subs : Redeemable(s)}, Crash(late)
        PROVE  AwaitsLeft(w)' <= AwaitsLeft(w) /\ (pc'[w] = "waiting" => on'[w] = on[w])
    <2>1. pc'[w] = "idle"
      BY <1>5 DEF Crash
    <2>2. AwaitsLeft(w)' = 0
      BY <2>1 DEF AwaitsLeft
    <2>3. QED
      BY <1>2, <2>1, <2>2
  <1>6. AwaitsLeft(w)' <= AwaitsLeft(w) /\ (pc'[w] = "waiting" => on'[w] = on[w])
    BY <1>4, <1>5, OnwardStep, OnwardShrinks, SettleShrinks DEF Next, Progress
  <1>7. QED
    BY <1>3, <1>6

\* Every wait for a refresh gets shorter: with the fairness of FairSpec it ends,
\* which is RefresherAnswered.
THEOREM WaitsGetShorter == Spec => WaitsShrink
  BY RegistryInit, RegistryStep, ShrinkStep, PTL DEF Spec, WaitsShrink
=============================================================================
