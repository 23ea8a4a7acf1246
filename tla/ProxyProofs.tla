----------------------------- MODULE ProxyProofs -----------------------------
(***************************************************************************)
(* Proofs about Proxy, and about KeyedProxy in front of it, for any number *)
(* of requests and keys, any pools and any bound on attempts.              *)
(*                                                                         *)
(* RequestInv ties what a request holds, has gathered and has tried to     *)
(* where it is in handle.  On top of it, and independent of each other:    *)
(* InFlightAccurate itself (a step moves the holders of one subscription   *)
(* by one), WorkInv (the calls an attempt may still make fit the bound)    *)
(* and FitInv (what was eligible throughout a selection is unread yet or   *)
(* was seen eligible).  The refinement of the slot lease needs the first   *)
(* three.  Steps groups the actions by what they do to a request.  Last,   *)
(* StepsAhead counts the steps from a request to its answer, which no      *)
(* other step adds to.                                                     *)
(***************************************************************************)
EXTENDS KeyedProxy, SelectionProofs, FiniteSetTheorems

Working == {"fresh", "forwarding", "renewing", "relaying"}

\* s is of the pool and provider that w names.
Serves(s, w) == PoolOf[s] = w[1] /\ ProviderOf[s] = w[2]

\* What a request is in the midst of, and what it has gathered or tried.
RequestFacts(r) ==
  /\ held[r] # None <=> pc[r] \in Working
  /\ pc[r] # "idle" => want[r] \in Pools \X Providers
  /\ pc[r] = "idle" => tried[r] = {} /\ sends[r] = 0
  /\ pc[r] # "gathering" => unread[r] = {} /\ seen[r] = {}
  /\ \A s \in unread[r] : Serves(s, want[r]) /\ s \notin tried[r]
  /\ \A c \in seen[r] : Serves(c.id, want[r]) /\ c.id \notin tried[r]
  /\ held[r] # None => held[r] \in tried[r] /\ Serves(held[r], want[r])
  /\ r \in retried => pc[r] \in {"forwarding", "renewing", "relaying"}
  /\ pc[r] = "renewing" => r \in retried

RequestInv == TypeOK /\ \A r \in Requests : RequestFacts(r)

-----------------------------------------------------------------------------
(* The steps of a request, told by what they do to it *)

\* The attempt of r is given up and r goes on to l.
Quits(r, l) ==
  /\ pc[r] \in {"fresh", "forwarding", "renewing"}
  /\ l \in {"listing", "exhausted", "error"}
  /\ l = "listing" => Cardinality(tried[r]) < MaxAttempts
  /\ Release(r)
  /\ Goto(r, l)
  /\ UNCHANGED <<now, want, selVars, tried, sends>>

\* A first 401 and a response that is relayed.
Renews(r) ==
  /\ pc[r] = "forwarding" /\ r \notin retried
  /\ retried' = retried \cup {r}
  /\ Goto(r, "renewing")
  /\ UNCHANGED <<inFlight, now, want, selVars, tried, held, sends>>

Relays(r) ==
  /\ pc[r] = "forwarding"
  /\ Goto(r, "relaying")
  /\ UNCHANGED <<inFlight, now, want, selVars, runVars>>

\* Nothing of any request changes.
Aside == UNCHANGED <<inFlight, pc, want, selVars, runVars>>

LEMMA Attempts ==
  ASSUME NEW r \in Requests, Attempting(r)
  PROVE  Forward(r) \/ Renews(r) \/ Relays(r) \/ \E l \in Pc : Quits(r, l)
<1>1. ASSUME FailOver(r), pc[r] \in {"fresh", "forwarding", "renewing"}
      PROVE  \E l \in Pc : Quits(r, l)
  BY <1>1 DEF FailOver, Quits, Pc
<1>2. ASSUME Break(r), pc[r] \in {"fresh", "forwarding", "renewing"}
      PROVE  \E l \in Pc : Quits(r, l)
  BY <1>2 DEF Break, Quits, Pc
<1>3. CASE Forward(r)
  BY <1>3
<1>4. CASE NoCredential(r) \/ AttemptBreaks(r)
  BY <1>1, <1>2, <1>4 DEF NoCredential, AttemptBreaks
<1>5. CASE \E reply \in Replies : Respond(r, reply)
  BY <1>1, <1>5 DEF Respond, RetriesOnce, Renews, Relays
<1>6. CASE \E reply \in Replies : CancelFails(r, reply)
  BY <1>2, <1>6 DEF CancelFails
<1> QED BY <1>3, <1>4, <1>5, <1>6 DEF Attempting

LEMMA OthersStep ==
  ASSUME \/ \E s \in Subs : Disable(s) \/ \E reply \in Replies : Probe(s, reply)
         \/ Tick \/ UNCHANGED vars
  PROVE  Aside
<1>1. ASSUME NEW s \in Subs, NEW reply \in Replies, Probe(s, reply) PROVE Aside
  BY <1>1 DEF Probe, Pool!Respond, Aside
<1>2. ASSUME NEW s \in Subs, Disable(s) PROVE Aside
  BY <1>2 DEF Disable, Aside, poolVars
<1>3. Tick => Aside
  BY DEF Tick, Pool!Tick, Aside
<1>4. UNCHANGED vars => Aside
  BY DEF vars, poolVars, Aside, selVars, runVars
<1> QED BY <1>1, <1>2, <1>3, <1>4

\* A step of some request, or none of any.
LEMMA Steps ==
  ASSUME [Next]_vars
  PROVE  \/ \E r \in Requests, w \in Pools \X Providers : Arrive(r, w)
         \/ \E r \in Requests : List(r)
         \/ \E r \in Requests, s \in Subs : Gather(r, s)
         \/ \E r \in Requests, s \in Subs : Pick(r, s)
         \/ \E r \in Requests : Refuse(r)
         \/ \E r \in Requests : Forward(r)
         \/ \E r \in Requests, l \in Pc : Quits(r, l)
         \/ \E r \in Requests : Renews(r)
         \/ \E r \in Requests : Relays(r)
         \/ \E r \in Requests : EndRelay(r)
         \/ \E r \in Requests : EndError(r)
         \/ Aside
  BY Attempts, OthersStep DEF Next, Selecting

-----------------------------------------------------------------------------
(* Types *)

LEMMA NoneIsNoSub == None \notin Subs
  BY ProxyAssumption

\* The instance of PoolSelection parses as this module does.
LEMMA PoolParses ==
  ASSUME NEW reply, NEW t
  PROVE  Pool!ParseRateLimitHeaders(reply, t) = ParseRateLimitHeaders(reply, t)
  BY DEF Pool!ParseRateLimitHeaders, ParseRateLimitHeaders, Pool!KnownStatus, KnownStatus,
         Pool!Cooldown, Cooldown, Pool!RepresentativeReset, RepresentativeReset

\* What a step may do to the rows, the clock, the pool and the history.
LEMMA PoolMoves ==
  ASSUME RequestInv, [Next]_vars
  PROVE  /\ latest' \in [Subs -> Snapshot \cup {None}]
         /\ now' \in 0..MaxNow /\ now <= now'
         /\ active' \subseteq active
         /\ fit' \in [Requests -> SUBSET Subs]
<1> USE DEF RequestInv, TypeOK
<1>1. ASSUME NEW s \in Subs, NEW reply \in Replies, Pool!RecordLoad(s, reply)
      PROVE  latest' \in [Subs -> Snapshot \cup {None}]
  <2>1. reply \in Reply /\ now \in Int
    BY ProxyAssumption
  <2>2. latest' = [latest EXCEPT ![s] = ParseRateLimitHeaders(reply, now)]
    BY <1>1, PoolParses DEF Pool!RecordLoad
  <2> QED BY <2>1, <2>2, ParsedIsSnapshot
<1>2. ASSUME NEW r \in Requests, pc[r] = "forwarding" PROVE held[r] \in Subs
  BY <1>2 DEF RequestFacts, Working
<1>3. Watch => fit' \in [Requests -> SUBSET Subs]
  BY DEF Watch
<1>4. Fit \subseteq Subs
  BY DEF Fit
<1>5. ASSUME NEW r \in Requests, Selecting(r)
      PROVE  /\ UNCHANGED <<latest, now, active>>
             /\ fit' \in [Requests -> SUBSET Subs]
  BY <1>4, <1>5 DEF Selecting, List, Gather, Pick, Refuse, poolVars
<1>6. ASSUME NEW r \in Requests, Attempting(r)
      PROVE  /\ latest' \in [Subs -> Snapshot \cup {None}]
             /\ now' = now
             /\ active' \subseteq active
             /\ fit' \in [Requests -> SUBSET Subs]
  <2>1. CASE Forward(r)
    BY <2>1 DEF Forward, poolVars
  <2>2. CASE NoCredential(r) \/ AttemptBreaks(r)
    BY <1>3, <2>2 DEF NoCredential, AttemptBreaks, FailOver, Break
  <2>3. CASE \E reply \in Replies : Respond(r, reply)
    BY <1>1, <1>2, <1>3, <2>3 DEF Respond, FailOver
  <2>4. CASE \E reply \in Replies : CancelFails(r, reply)
    BY <1>1, <1>2, <1>3, <2>4 DEF CancelFails, Break
  <2> QED BY <1>6, <2>1, <2>2, <2>3, <2>4 DEF Attempting
<1>7. ASSUME NEW r \in Requests, \/ \E w \in Pools \X Providers : Arrive(r, w)
                                 \/ EndRelay(r) \/ EndError(r)
      PROVE  UNCHANGED <<latest, now, active>> /\ fit' \in [Requests -> SUBSET Subs]
  BY <1>7 DEF Arrive, EndRelay, EndError, poolVars
<1>8. CASE \E s \in Subs : Disable(s) \/ \E reply \in Replies : Probe(s, reply)
  BY <1>1, <1>3, <1>8 DEF Disable, Probe, Pool!Respond, poolVars
<1>9. CASE Tick
  BY <1>3, <1>9, ProxyAssumption DEF Tick, Pool!Tick
<1>10. CASE UNCHANGED vars
  BY <1>10 DEF vars, poolVars
<1>11. now \in Int
  OBVIOUS
<1> QED
  BY <1>5, <1>6, <1>7, <1>8, <1>9, <1>10, <1>11 DEF Next

\* The part of TypeOK and of RequestFacts that the steps of requests move.
RequestTypes ==
  /\ inFlight \in [Subs -> Nat]
  /\ pc \in [Requests -> Pc]
  /\ want \in [Requests -> (Pools \X Providers) \cup {None}]
  /\ unread \in [Requests -> SUBSET Subs]
  /\ seen \in [Requests -> SUBSET Candidate]
  /\ tried \in [Requests -> SUBSET Subs]
  /\ held \in [Requests -> Subs \cup {None}]
  /\ retried \in SUBSET Requests
  /\ sends \in [Requests -> Nat]

AllFacts == RequestTypes /\ \A r \in Requests : RequestFacts(r)

LEMMA RequestInit == Init => RequestInv
<1> SUFFICES ASSUME Init PROVE RequestInv
  OBVIOUS
<1>1. TypeOK
  BY ProxyAssumption DEF Init, Pool!Init, TypeOK, Pc, Pool!Subs, Subs
<1>2. \A r \in Requests : RequestFacts(r)
  BY DEF Init, RequestFacts, Working
<1> QED BY <1>1, <1>2 DEF RequestInv

\* A step that selects keeps the facts.
LEMMA SelectingKeeps ==
  ASSUME RequestInv, NEW r \in Requests, Selecting(r)
  PROVE  AllFacts'
<1> USE NoneIsNoSub DEF RequestInv, TypeOK, AllFacts, RequestTypes
<1>1. CASE List(r)
  <2>1. Untried(r) \subseteq Subs
    BY DEF Untried, ListByPool
  <2>2. RequestTypes'
    BY <1>1, <2>1 DEF List, Goto, poolVars, runVars, Pc
  <2>3. ASSUME NEW q \in Requests PROVE RequestFacts(q)'
    BY <1>1, <2>3 DEF List, Goto, poolVars, runVars, RequestFacts, Working,
                      Untried, ListByPool, Serves
  <2> QED BY <2>2, <2>3
<1>2. ASSUME NEW s \in Subs, Gather(r, s) PROVE AllFacts'
  <2> DEFINE c == [id |-> s, snapshot |-> latest[s], inFlight |-> inFlight[s]]
  <2>1. c \in Candidate /\ c.id = s
    BY DEF Candidate
  <2>2. /\ pc[r] = "gathering" /\ s \in unread[r]
        /\ unread' = [unread EXCEPT ![r] = @ \ {s}]
        /\ seen' = [seen EXCEPT ![r] = @ \cup {c}]
        /\ UNCHANGED <<inFlight, pc, want, tried, held, retried, sends>>
    BY <1>2 DEF Gather, poolVars, runVars
  <2> HIDE DEF c
  <2>3. RequestTypes'
    BY <2>1, <2>2
  <2>4. ASSUME NEW q \in Requests PROVE RequestFacts(q)'
    BY <2>1, <2>2, <2>4 DEF RequestFacts, Working, Serves
  <2> QED BY <2>3, <2>4
<1>3. ASSUME NEW s \in Subs, Pick(r, s) PROVE AllFacts'
  <2>1. Serves(s, want[r]) /\ s \notin tried[r] /\ held[r] = None
    BY <1>3 DEF Pick, Picked, Eligible, RequestFacts, Working
  <2>2. /\ inFlight' = [inFlight EXCEPT ![s] = @ + 1]
        /\ tried' = [tried EXCEPT ![r] = @ \cup {s}]
        /\ held' = [held EXCEPT ![r] = s]
        /\ seen' = [seen EXCEPT ![r] = {}]
        /\ pc' = [pc EXCEPT ![r] = "fresh"]
        /\ pc[r] = "gathering" /\ unread[r] = {}
        /\ UNCHANGED <<want, unread, retried, sends>>
    BY <1>3 DEF Pick, Pool!Increment, WithTried, Goto
  <2>3. RequestTypes'
    BY <2>2 DEF Pc
  <2>4. ASSUME NEW q \in Requests PROVE RequestFacts(q)'
    BY <2>1, <2>2, <2>4 DEF RequestFacts, Working, Serves
  <2> QED BY <2>3, <2>4
<1>4. CASE Refuse(r)
  <2>1. RequestTypes'
    BY <1>4 DEF Refuse, Goto, poolVars, runVars, Pc
  <2>2. ASSUME NEW q \in Requests PROVE RequestFacts(q)'
    BY <1>4, <2>2 DEF Refuse, Goto, poolVars, runVars, RequestFacts, Working, Serves
  <2> QED BY <2>1, <2>2
<1> QED BY <1>1, <1>2, <1>3, <1>4 DEF Selecting

\* Giving the slot back, by what it does.
LEMMA Releases ==
  ASSUME RequestInv, NEW r \in Requests, Release(r), pc[r] \in Working
  PROVE  /\ held[r] \in Subs
         /\ held' = [held EXCEPT ![r] = None]
         /\ retried' = retried \ {r}
         /\ inFlight' \in [Subs -> Nat]
  BY DEF RequestInv, TypeOK, RequestFacts, Release, Pool!Decrement

LEMMA AttemptingKeeps ==
  ASSUME RequestInv, NEW r \in Requests,
         Forward(r) \/ Renews(r) \/ Relays(r) \/ \E l \in Pc : Quits(r, l)
  PROVE  AllFacts'
<1> USE NoneIsNoSub DEF RequestInv, TypeOK, AllFacts, RequestTypes
<1>1. CASE Forward(r)
  <2>1. RequestTypes'
    BY <1>1 DEF Forward, Goto, poolVars, selVars, Pc
  <2>2. ASSUME NEW q \in Requests PROVE RequestFacts(q)'
    BY <1>1, <2>2 DEF Forward, Goto, poolVars, selVars, RequestFacts, Working, Serves
  <2> QED BY <2>1, <2>2
<1>2. CASE Renews(r)
  <2>1. RequestTypes'
    BY <1>2 DEF Renews, Goto, selVars, Pc
  <2>2. ASSUME NEW q \in Requests PROVE RequestFacts(q)'
    BY <1>2, <2>2 DEF Renews, Goto, selVars, RequestFacts, Working, Serves
  <2> QED BY <2>1, <2>2
<1>3. CASE Relays(r)
  <2>1. RequestTypes'
    BY <1>3 DEF Relays, Goto, selVars, runVars, Pc
  <2>2. ASSUME NEW q \in Requests PROVE RequestFacts(q)'
    BY <1>3, <2>2 DEF Relays, Goto, selVars, runVars, RequestFacts, Working, Serves
  <2> QED BY <2>1, <2>2
<1>4. ASSUME NEW l \in Pc, Quits(r, l) PROVE AllFacts'
  <2>1. /\ held' = [held EXCEPT ![r] = None]
        /\ retried' = retried \ {r}
        /\ inFlight' \in [Subs -> Nat]
    BY <1>4, Releases DEF Quits, Working
  <2>2. /\ pc[r] \in {"fresh", "forwarding", "renewing"}
        /\ pc' = [pc EXCEPT ![r] = l]
        /\ l \in {"listing", "exhausted", "error"}
        /\ UNCHANGED <<want, unread, seen, tried, sends>>
    BY <1>4 DEF Quits, Goto, selVars
  <2>3. RequestTypes'
    BY <2>1, <2>2 DEF Pc
  <2>4. ASSUME NEW q \in Requests PROVE RequestFacts(q)'
    BY <2>1, <2>2, <2>4 DEF RequestFacts, Working, Serves
  <2> QED BY <2>3, <2>4
<1> QED BY <1>1, <1>2, <1>3, <1>4

LEMMA EndsKeep ==
  ASSUME RequestInv, NEW r \in Requests,
         EndRelay(r) \/ EndError(r) \/ \E w \in Pools \X Providers : Arrive(r, w)
  PROVE  AllFacts'
<1> USE NoneIsNoSub DEF RequestInv, TypeOK, AllFacts, RequestTypes
<1>1. CASE EndRelay(r)
  <2>1. /\ held' = [held EXCEPT ![r] = None]
        /\ retried' = retried \ {r}
        /\ inFlight' \in [Subs -> Nat]
    BY <1>1, Releases DEF EndRelay, Working
  <2>2. /\ pc[r] = "relaying"
        /\ pc' = [pc EXCEPT ![r] = "idle"]
        /\ want' = [want EXCEPT ![r] = None]
        /\ tried' = [tried EXCEPT ![r] = {}]
        /\ sends' = [sends EXCEPT ![r] = 0]
        /\ UNCHANGED <<unread, seen>>
    BY <1>1 DEF EndRelay, Goto, selVars
  <2>3. RequestTypes'
    BY <2>1, <2>2 DEF Pc
  <2>4. ASSUME NEW q \in Requests PROVE RequestFacts(q)'
    BY <2>1, <2>2, <2>4 DEF RequestFacts, Working, Serves
  <2> QED BY <2>3, <2>4
<1>2. CASE EndError(r)
  <2>1. RequestTypes'
    BY <1>2 DEF EndError, Goto, poolVars, selVars, Pc
  <2>2. ASSUME NEW q \in Requests PROVE RequestFacts(q)'
    BY <1>2, <2>2 DEF EndError, Goto, selVars, RequestFacts, Working, Serves
  <2> QED BY <2>1, <2>2
<1>3. ASSUME NEW w \in Pools \X Providers, Arrive(r, w) PROVE AllFacts'
  <2>1. RequestTypes'
    BY <1>3 DEF Arrive, Goto, poolVars, selVars, runVars, Pc
  <2>2. ASSUME NEW q \in Requests PROVE RequestFacts(q)'
    BY <1>3, <2>2 DEF Arrive, Goto, selVars, runVars, RequestFacts, Working, Serves
  <2> QED BY <2>1, <2>2
<1> QED BY <1>1, <1>2, <1>3

LEMMA RequestStep == RequestInv /\ [Next]_vars => RequestInv'
<1> SUFFICES ASSUME RequestInv, [Next]_vars PROVE RequestInv'
  OBVIOUS
<1>1. AllFacts'
  <2>1. CASE Aside
    BY <2>1 DEF Aside, selVars, runVars, RequestInv, TypeOK, AllFacts, RequestTypes,
                RequestFacts, Working, Serves
  <2>2. ASSUME NEW r \in Requests, \/ List(r) \/ (\E s \in Subs : Gather(r, s) \/ Pick(r, s))
                                   \/ Refuse(r)
        PROVE  AllFacts'
    BY <2>2, SelectingKeeps DEF Selecting
  <2> QED BY <2>1, <2>2, Steps, AttemptingKeeps, EndsKeep
<1>2. active' \in SUBSET Subs
  BY PoolMoves DEF RequestInv, TypeOK
<1>3. TypeOK'
  BY <1>1, <1>2, PoolMoves DEF AllFacts, RequestTypes, TypeOK
<1> QED BY <1>1, <1>3 DEF AllFacts, RequestInv

LEMMA RequestAlways == Spec => []RequestInv
  BY RequestInit, RequestStep, PTL DEF Spec

-----------------------------------------------------------------------------
\* Requests, prober, owner and clock keep the types of the state, whatever the
\* upstream answers.
THEOREM TypeCorrect == Spec => []TypeOK
  BY RequestAlways, PTL DEF RequestInv

-----------------------------------------------------------------------------
(* The counters *)

Holders(s) == {r \in Requests : held[r] = s}

LEMMA HoldersFinite == \A s : IsFiniteSet(Holders(s)) /\ Cardinality(Holders(s)) \in Nat
  BY ProxyAssumption, FS_Subset, FS_CardinalityType DEF Holders

\* A slot taken or given back: the holders of one subscription change by one.
LEMMA TakenCounts ==
  ASSUME RequestInv, NEW r \in Requests, NEW s \in Subs, held[r] = None,
         held' = [held EXCEPT ![r] = s]
  PROVE  /\ Cardinality(Holders(s)') = Cardinality(Holders(s)) + 1
         /\ \A t \in Subs \ {s} : Holders(t)' = Holders(t)
<1> USE NoneIsNoSub DEF RequestInv, TypeOK
<1>1. Holders(s)' = Holders(s) \cup {r} /\ r \notin Holders(s)
  BY DEF Holders
<1>2. \A t \in Subs \ {s} : Holders(t)' = Holders(t)
  BY DEF Holders
<1> QED BY <1>1, <1>2, HoldersFinite, FS_AddElement

LEMMA GivenBackCounts ==
  ASSUME RequestInv, NEW r \in Requests, NEW t \in Subs, held[r] = t,
         held' = [held EXCEPT ![r] = None]
  PROVE  /\ Cardinality(Holders(t)) > 0
         /\ Cardinality(Holders(t)') = Cardinality(Holders(t)) - 1
         /\ \A s \in Subs \ {t} : Holders(s)' = Holders(s)
<1> USE NoneIsNoSub DEF RequestInv, TypeOK
<1>1. Holders(t)' = Holders(t) \ {r} /\ r \in Holders(t)
  BY DEF Holders
<1>2. \A s \in Subs \ {t} : Holders(s)' = Holders(s)
  BY DEF Holders
<1>3. Cardinality(Holders(t) \ {r}) = Cardinality(Holders(t)) - 1
  <2>1. IsFiniteSet(Holders(t)) /\ r \in Holders(t)
    BY <1>1, HoldersFinite
  <2> HIDE DEF RequestInv, TypeOK
  <2> QED BY <2>1, FS_RemoveElement, Zenon
<1>4. Cardinality(Holders(t)) # 0
  BY <1>1, HoldersFinite, FS_EmptySet
<1> QED BY <1>1, <1>2, <1>3, <1>4, HoldersFinite

\* One slot is given back: the counter, which is not zero, goes down by one.
LEMMA ReleaseCounts ==
  ASSUME RequestInv, InFlightAccurate, NEW r \in Requests, Release(r), pc[r] \in Working
  PROVE  /\ inFlight[held[r]] > 0
         /\ inFlight' = [inFlight EXCEPT ![held[r]] = @ - 1]
         /\ InFlightAccurate'
<1>1. PICK t \in Subs : held[r] = t
  BY Releases
<1>2. \A s \in Subs : inFlight[s] = Cardinality(Holders(s))
  BY DEF InFlightAccurate, Holders
<1>3. /\ Cardinality(Holders(t)) > 0
      /\ Cardinality(Holders(t)') = Cardinality(Holders(t)) - 1
      /\ \A s \in Subs \ {t} : Holders(s)' = Holders(s)
  BY <1>1, Releases, GivenBackCounts
<1>4. inFlight[t] > 0 /\ inFlight[t] \in Nat
  BY <1>2, <1>3 DEF RequestInv, TypeOK
<1>5. inFlight' = [inFlight EXCEPT ![t] = @ - 1]
  <2>1. inFlight' = [inFlight EXCEPT
                       ![t] = IF inFlight[t] - 1 <= 0 THEN 0 ELSE inFlight[t] - 1]
    BY <1>1 DEF Release, Pool!Decrement
  <2>2. (IF inFlight[t] - 1 <= 0 THEN 0 ELSE inFlight[t] - 1) = inFlight[t] - 1
    BY <1>4
  <2> QED BY <2>1, <2>2
<1>6. ASSUME NEW s \in Subs PROVE inFlight'[s] = Cardinality(Holders(s)')
  <2>1. inFlight'[s] = IF s = t THEN inFlight[s] - 1 ELSE inFlight[s]
    BY <1>5 DEF RequestInv, TypeOK
  <2> QED BY <1>2, <1>3, <2>1
<1>7. InFlightAccurate'
  BY <1>6 DEF InFlightAccurate, Holders
<1> QED BY <1>1, <1>4, <1>5, <1>7

LEMMA CountersInit == Init => InFlightAccurate
<1> SUFFICES ASSUME Init, NEW s \in Subs PROVE inFlight[s] = Cardinality(Holders(s))
  BY DEF InFlightAccurate, Holders
<1>1. Holders(s) = {}
  BY NoneIsNoSub DEF Init, Holders
<1>2. inFlight[s] = 0
  BY DEF Init, Pool!Init, Pool!Subs, Subs
<1> QED BY <1>1, <1>2, FS_EmptySet

LEMMA CountersStep ==
  ASSUME RequestInv, InFlightAccurate, [Next]_vars
  PROVE  InFlightAccurate'
<1>1. ASSUME NEW r \in Requests, NEW s \in Subs, Pick(r, s) PROVE InFlightAccurate'
  <2>1. /\ held[r] = None
        /\ held' = [held EXCEPT ![r] = s]
        /\ inFlight' = [inFlight EXCEPT ![s] = @ + 1]
    BY <1>1 DEF Pick, Pool!Increment, RequestInv, RequestFacts, Working
  <2>2. ASSUME NEW t \in Subs PROVE inFlight'[t] = Cardinality(Holders(t)')
    <3>1. inFlight[t] = Cardinality(Holders(t))
      BY DEF InFlightAccurate, Holders
    <3>2. inFlight'[t] = IF t = s THEN inFlight[t] + 1 ELSE inFlight[t]
      BY <2>1 DEF RequestInv, TypeOK
    <3> QED BY <2>1, <3>1, <3>2, TakenCounts
  <2> QED BY <2>2 DEF InFlightAccurate, Holders
<1>2. ASSUME NEW r \in Requests, EndRelay(r) \/ \E l \in Pc : Quits(r, l)
      PROVE  InFlightAccurate'
  BY <1>2, ReleaseCounts DEF EndRelay, Quits, Working
<1>3. ASSUME NEW r \in Requests,
             \/ \E w \in Pools \X Providers : Arrive(r, w)
             \/ List(r) \/ Refuse(r) \/ \E s \in Subs : Gather(r, s)
             \/ Forward(r) \/ Renews(r) \/ Relays(r) \/ EndError(r)
      PROVE  InFlightAccurate'
  <2>1. UNCHANGED <<inFlight, held>>
    BY <1>3 DEF Arrive, List, Refuse, Gather, Forward, Renews, Relays, EndError,
                poolVars, runVars
  <2> QED BY <2>1 DEF InFlightAccurate
<1>4. CASE Aside
  BY <1>4 DEF Aside, runVars, InFlightAccurate
<1> QED BY <1>1, <1>2, <1>3, <1>4, Steps

\* For any number of requests: on every path, failures of every kind included,
\* the counter of a subscription is the number of requests that hold its slot.
THEOREM EverySlotReturned == Spec => []InFlightAccurate
  BY RequestInit, RequestStep, CountersInit, CountersStep, PTL DEF Spec

-----------------------------------------------------------------------------
(* The bound on the work of a request *)

\* Calls that the current attempt may still make.
Owed(r) ==
  IF pc[r] = "fresh" THEN 2
  ELSE IF pc[r] = "renewing" \/ (pc[r] = "forwarding" /\ r \notin retried) THEN 1
  ELSE 0

WithinBounds(r) ==
  /\ Cardinality(tried[r]) <= MaxAttempts
  /\ pc[r] \in {"listing", "gathering"} => Cardinality(tried[r]) < MaxAttempts
  /\ sends[r] + Owed(r) <= 2 * Cardinality(tried[r])

WorkInv == \A r \in Requests : WithinBounds(r)

LEMMA TriedFinite ==
  ASSUME RequestInv, NEW r \in Requests
  PROVE  IsFiniteSet(tried[r]) /\ Cardinality(tried[r]) \in Nat
  BY ProxyAssumption, FS_Subset, FS_CardinalityType DEF RequestInv, TypeOK

LEMMA WorkInit == Init => WorkInv
  BY FS_EmptySet, ProxyAssumption DEF Init, WorkInv, WithinBounds, Owed

\* A step of r leaves what the others have tried and sent.
LEMMA OthersWithin ==
  ASSUME WorkInv, NEW q \in Requests,
         tried'[q] = tried[q], sends'[q] = sends[q], pc'[q] = pc[q],
         q \in retried' <=> q \in retried
  PROVE  WithinBounds(q)'
  BY DEF WorkInv, WithinBounds, Owed

LEMMA WorkStep ==
  ASSUME RequestInv, WorkInv, [Next]_vars
  PROVE  WorkInv'
<1> USE DEF RequestInv, TypeOK
<1>1. ASSUME NEW r \in Requests, NEW s \in Subs, Pick(r, s) PROVE WorkInv'
  <2>1. /\ pc[r] = "gathering" /\ s \notin tried[r]
        /\ tried' = [tried EXCEPT ![r] = @ \cup {s}]
        /\ pc' = [pc EXCEPT ![r] = "fresh"]
        /\ UNCHANGED <<retried, sends>>
    BY <1>1 DEF Pick, Picked, Eligible, WithTried, Goto, RequestFacts
  <2>2. Cardinality(tried'[r]) = Cardinality(tried[r]) + 1
    BY <2>1, TriedFinite, FS_AddElement
  <2>3. WithinBounds(r)
    BY DEF WorkInv
  <2>4. WithinBounds(r)'
    <3>1. Cardinality(tried[r]) < MaxAttempts /\ sends[r] <= 2 * Cardinality(tried[r])
      BY <2>1, <2>3, TriedFinite DEF WithinBounds, Owed
    <3>2. pc'[r] = "fresh" /\ sends'[r] = sends[r] /\ Owed(r)' = 2
      BY <2>1 DEF Owed
    <3> QED BY <2>2, <3>1, <3>2, TriedFinite, ProxyAssumption DEF WithinBounds
  <2>5. ASSUME NEW q \in Requests \ {r} PROVE WithinBounds(q)'
    BY <2>1, <2>5, OthersWithin
  <2> QED BY <2>4, <2>5 DEF WorkInv
<1>2. ASSUME NEW r \in Requests, NEW l \in Pc, Quits(r, l) PROVE WorkInv'
  <2>1. /\ pc[r] \in {"fresh", "forwarding", "renewing"}
        /\ l \in {"listing", "exhausted", "error"}
        /\ l = "listing" => Cardinality(tried[r]) < MaxAttempts
        /\ pc' = [pc EXCEPT ![r] = l]
        /\ retried' = retried \ {r}
        /\ UNCHANGED <<tried, sends>>
    BY <1>2 DEF Quits, Release, Goto
  <2>2. WithinBounds(r)'
    <3>1. WithinBounds(r)
      BY DEF WorkInv
    <3>2. pc'[r] = l /\ Owed(r)' = 0 /\ Owed(r) \in Nat
      BY <2>1 DEF Owed
    <3> QED BY <2>1, <3>1, <3>2, TriedFinite DEF WithinBounds
  <2>3. ASSUME NEW q \in Requests \ {r} PROVE WithinBounds(q)'
    BY <2>1, <2>3, OthersWithin
  <2> QED BY <2>2, <2>3 DEF WorkInv
<1>3. ASSUME NEW r \in Requests, EndRelay(r) \/ EndError(r) PROVE WorkInv'
  <2>1. /\ pc' = [pc EXCEPT ![r] = "idle"]
        /\ tried' = [tried EXCEPT ![r] = {}]
        /\ sends' = [sends EXCEPT ![r] = 0]
        /\ retried' = retried \ {r} \/ retried' = retried
    BY <1>3 DEF EndRelay, EndError, Release, Goto
  <2>2. WithinBounds(r)'
    BY <2>1, FS_EmptySet, ProxyAssumption DEF WithinBounds, Owed
  <2>3. ASSUME NEW q \in Requests \ {r} PROVE WithinBounds(q)'
    BY <2>1, <2>3, OthersWithin
  <2> QED BY <2>2, <2>3 DEF WorkInv
<1>4. ASSUME NEW r \in Requests, Forward(r) PROVE WorkInv'
  <2>1. /\ pc[r] \in {"fresh", "renewing"}
        /\ pc' = [pc EXCEPT ![r] = "forwarding"]
        /\ sends' = [sends EXCEPT ![r] = @ + 1]
        /\ UNCHANGED <<tried, retried>>
    BY <1>4 DEF Forward, Goto
  <2>2. Owed(r)' = Owed(r) - 1 /\ Owed(r) \in {1, 2}
    BY <2>1 DEF RequestFacts, Owed
  <2>3. WithinBounds(r)'
    <3>1. WithinBounds(r)
      BY DEF WorkInv
    <3>2. pc'[r] = "forwarding" /\ sends'[r] = sends[r] + 1 /\ sends[r] \in Nat
      BY <2>1
    <3> QED BY <2>1, <2>2, <3>1, <3>2, TriedFinite DEF WithinBounds
  <2>4. ASSUME NEW q \in Requests \ {r} PROVE WithinBounds(q)'
    BY <2>1, <2>4, OthersWithin
  <2> QED BY <2>3, <2>4 DEF WorkInv
<1>5. ASSUME NEW r \in Requests,
             \/ \E w \in Pools \X Providers : Arrive(r, w)
             \/ List(r) \/ Refuse(r) \/ Renews(r) \/ Relays(r)
             \/ \E s \in Subs : Gather(r, s)
      PROVE  WorkInv'
  <2>1. /\ UNCHANGED <<tried, sends>>
        /\ \A q \in Requests \ {r} : pc'[q] = pc[q] /\ (q \in retried' <=> q \in retried)
    BY <1>5 DEF Arrive, List, Refuse, Renews, Relays, Gather, Goto, runVars
  <2>2. Owed(r)' <= Owed(r) /\ Owed(r) \in Nat /\ Owed(r)' \in Nat
    BY <1>5 DEF Arrive, List, Refuse, Renews, Relays, Gather, Goto, runVars, Owed
  <2>3. pc'[r] \in {"listing", "gathering"} => Cardinality(tried[r]) < MaxAttempts
    <3>1. pc[r] = "idle" => Cardinality(tried[r]) < MaxAttempts
      BY FS_EmptySet, ProxyAssumption DEF RequestFacts
    <3>2. pc'[r] \in {"listing", "gathering"} => pc[r] \in {"idle", "listing", "gathering"}
      BY <1>5 DEF Arrive, List, Refuse, Renews, Relays, Gather, Goto, runVars
    <3> QED BY <3>1, <3>2 DEF WorkInv, WithinBounds
  <2>4. WithinBounds(r)'
    <3>1. WithinBounds(r)
      BY DEF WorkInv
    <3> QED BY <2>1, <2>2, <2>3, <3>1, TriedFinite DEF WithinBounds
  <2>5. ASSUME NEW q \in Requests \ {r} PROVE WithinBounds(q)'
    BY <2>1, <2>5, OthersWithin
  <2> QED BY <2>4, <2>5 DEF WorkInv
<1>6. CASE Aside
  BY <1>6, OthersWithin DEF Aside, runVars, WorkInv
<1> QED BY <1>1, <1>2, <1>3, <1>4, <1>5, <1>6, Steps

\* For any bound on attempts: a request tries at most that many subscriptions
\* and sends at most two calls for each (the loop of handle, the 401 branch).
THEOREM WorkIsBounded == Spec => []BoundedWork
<1>1. RequestInv /\ WorkInv => BoundedWork
  <2> SUFFICES ASSUME RequestInv, WorkInv, NEW r \in Requests
               PROVE  /\ Cardinality(tried[r]) <= MaxAttempts
                      /\ sends[r] <= 2 * Cardinality(tried[r])
    BY DEF BoundedWork
  <2>1. Owed(r) \in Nat /\ sends[r] \in Nat
    BY DEF Owed, RequestInv, TypeOK
  <2> QED BY <2>1, TriedFinite DEF WorkInv, WithinBounds
<1> QED BY RequestInit, RequestStep, WorkInit, WorkStep, <1>1, PTL DEF Spec

-----------------------------------------------------------------------------
(* Why a request is answered: the variant behind GetsAnswer *)

Underway == Pc \ (Answered \cup {"idle"})

\* Steps one attempt takes at most: the query, a load read for each subscription,
\* the choice, and two calls of the upstream, each with a token to get first.
StepsPerAttempt == Cardinality(Subs) + 6

\* Steps that r still takes in this turn of the loop and, if the turn fails, to
\* find that no other subscription can be tried.
TurnLeft(r) ==
  IF pc[r] = "gathering" THEN Cardinality(unread[r]) + 1
  ELSE Cardinality(Subs) + (IF pc[r] = "listing" THEN 2
                            ELSE IF pc[r] = "fresh" THEN 6
                            ELSE IF pc[r] = "renewing" THEN 4
                            ELSE IF r \in retried THEN 3 ELSE 5)

StepsAhead(r) ==
  IF pc[r] \in Underway
  THEN (MaxAttempts - Cardinality(tried[r])) * StepsPerAttempt + TurnLeft(r)
  ELSE 0

\* The most a request takes, from its arrival to its answer.
MostSteps == MaxAttempts * StepsPerAttempt + Cardinality(Subs) + 2

StepsBounded == \A r \in Requests : StepsAhead(r) \in 0..MostSteps

\* Each step of a request that has no answer yet brings it nearer to one, and no
\* step of another request, of the prober, the owner or the clock sends it back:
\* neither the loop of handle, nor the 401 branch in it, nor the load reads of
\* gatherCandidates can go on for ever, whatever the upstream replies.
RequestsAdvance ==
  [][\A r \in Requests : pc[r] \in Underway =>
       /\ StepsAhead(r)' <= StepsAhead(r)
       /\ Selecting(r) \/ Attempting(r) => StepsAhead(r)' < StepsAhead(r)]_vars

LEMMA UnreadFinite ==
  ASSUME RequestInv, NEW r \in Requests
  PROVE  /\ IsFiniteSet(unread[r])
         /\ Cardinality(unread[r]) \in 0..Cardinality(Subs)
         /\ Cardinality(Subs) \in Nat
<1>1. unread[r] \subseteq Subs /\ IsFiniteSet(Subs)
  BY ProxyAssumption DEF RequestInv, TypeOK
<1> QED BY <1>1, FS_Subset, FS_CardinalityType

LEMMA LessWork ==
  ASSUME NEW a \in Nat, NEW b \in Nat, NEW m \in Nat, a <= m
  PROVE  a * b \in Nat /\ m * b \in Nat /\ a * b <= m * b /\ (a - 1) * b = a * b - b
  OBVIOUS

\* What is ahead of a request that has no answer yet.
LEMMA AheadIs ==
  ASSUME RequestInv, WorkInv, NEW r \in Requests, pc[r] \in Underway
  PROVE  /\ Cardinality(tried[r]) \in 0..MaxAttempts
         /\ TurnLeft(r) \in 1..StepsPerAttempt
         /\ pc[r] \in {"gathering", "listing"} => TurnLeft(r) <= Cardinality(Subs) + 2
         /\ pc[r] \in {"gathering", "listing"} => Cardinality(tried[r]) < MaxAttempts
         /\ (MaxAttempts - Cardinality(tried[r])) * StepsPerAttempt \in Nat
         /\ StepsAhead(r) =
              (MaxAttempts - Cardinality(tried[r])) * StepsPerAttempt + TurnLeft(r)
         /\ StepsAhead(r) > 0
<1>1. /\ Cardinality(tried[r]) \in 0..MaxAttempts
      /\ pc[r] \in {"gathering", "listing"} => Cardinality(tried[r]) < MaxAttempts
  BY TriedFinite, ProxyAssumption DEF WorkInv, WithinBounds
<1>2. /\ TurnLeft(r) \in 1..StepsPerAttempt
      /\ pc[r] \in {"gathering", "listing"} => TurnLeft(r) <= Cardinality(Subs) + 2
  BY UnreadFinite DEF TurnLeft, StepsPerAttempt
<1>3. MaxAttempts - Cardinality(tried[r]) \in Nat /\ StepsPerAttempt \in Nat
  BY <1>1, UnreadFinite, ProxyAssumption DEF StepsPerAttempt
<1>4. (MaxAttempts - Cardinality(tried[r])) * StepsPerAttempt \in Nat
  BY <1>3, LessWork
<1>5. StepsAhead(r) = (MaxAttempts - Cardinality(tried[r])) * StepsPerAttempt + TurnLeft(r)
  BY DEF StepsAhead
<1>6. StepsAhead(r) > 0
  <2> DEFINE left == (MaxAttempts - Cardinality(tried[r])) * StepsPerAttempt
  <2>1. left \in Nat /\ TurnLeft(r) \in 1..StepsPerAttempt /\ StepsPerAttempt \in Nat
    BY <1>2, <1>3, <1>4
  <2>2. StepsAhead(r) = left + TurnLeft(r)
    BY <1>5
  <2> HIDE DEF left
  <2> QED BY <2>1, <2>2
<1> QED BY <1>1, <1>2, <1>4, <1>5, <1>6

LEMMA AheadBounded == RequestInv /\ WorkInv => StepsBounded
<1> SUFFICES ASSUME RequestInv, WorkInv, NEW r \in Requests
             PROVE  StepsAhead(r) \in 0..MostSteps
  BY DEF StepsBounded
<1>1. Cardinality(Subs) \in Nat /\ StepsPerAttempt \in Nat /\ MaxAttempts \in Nat
  BY UnreadFinite, ProxyAssumption DEF StepsPerAttempt
<1>2. MaxAttempts * StepsPerAttempt \in Nat
  BY <1>1, LessWork
<1>3. CASE pc[r] \notin Underway
  BY <1>1, <1>2, <1>3 DEF StepsAhead, MostSteps
<1>4. CASE pc[r] \in Underway
  <2> DEFINE n == Cardinality(tried[r])
             left == (MaxAttempts - n) * StepsPerAttempt
             all == MaxAttempts * StepsPerAttempt
  <2>1. /\ n \in 0..MaxAttempts /\ left \in Nat
        /\ TurnLeft(r) \in 1..StepsPerAttempt
        /\ StepsAhead(r) = left + TurnLeft(r)
        /\ pc[r] \in {"gathering", "listing"} => TurnLeft(r) <= Cardinality(Subs) + 2
    BY <1>4, AheadIs
  <2>2. CASE pc[r] \in {"gathering", "listing"}
    <3>1. left <= all
      BY <1>1, <2>1, LessWork
    <3> HIDE DEF left, all
    <3>2. all = MaxAttempts * StepsPerAttempt /\ all \in Nat
      BY <1>2 DEF all
    <3> QED BY <1>1, <2>1, <2>2, <3>1, <3>2 DEF MostSteps
  <2>3. CASE pc[r] \notin {"gathering", "listing"}
    <3>1. n > 0
      <4>1. held[r] # None /\ held[r] \in tried[r]
        BY <1>4, <2>3 DEF RequestInv, TypeOK, RequestFacts, Working, Underway, Answered, Pc
      <4> QED BY <4>1, <2>1, TriedFinite, FS_EmptySet
    <3>2. left <= all - StepsPerAttempt
      <4>1. (MaxAttempts - n) \in Nat /\ (MaxAttempts - 1) \in Nat
            /\ MaxAttempts - n <= MaxAttempts - 1
        BY <1>1, <2>1, <3>1
      <4>2. left <= (MaxAttempts - 1) * StepsPerAttempt
        BY <1>1, <4>1, LessWork
      <4>3. (MaxAttempts - 1) * StepsPerAttempt = all - StepsPerAttempt
        BY <1>1, LessWork
      <4> QED BY <4>2, <4>3
    <3>3. all = MaxAttempts * StepsPerAttempt /\ all \in Nat
      BY <1>2
    <3> HIDE DEF left, all, n
    <3> QED BY <1>1, <2>1, <3>2, <3>3 DEF MostSteps
  <2> QED BY <2>2, <2>3
<1> QED BY <1>3, <1>4

\* A request no step has moved has as far to go as before.
LEMMA AheadStays ==
  ASSUME NEW q \in Requests, pc'[q] = pc[q], unread'[q] = unread[q],
         tried'[q] = tried[q], q \in retried' <=> q \in retried
  PROVE  StepsAhead(q)' = StepsAhead(q)
  BY DEF StepsAhead, TurnLeft, Underway, Pc, Answered, StepsPerAttempt

\* A step of the same turn, and the step to an answer.
LEMMA TurnShrinks ==
  ASSUME RequestInv, WorkInv, (RequestInv /\ WorkInv)', NEW r \in Requests,
         pc[r] \in Underway, pc'[r] \in Underway, tried'[r] = tried[r],
         TurnLeft(r)' < TurnLeft(r)
  PROVE  StepsAhead(r)' < StepsAhead(r)
<1>1. PICK left \in Nat : left = (MaxAttempts - Cardinality(tried[r])) * StepsPerAttempt
  BY AheadIs
<1>2. StepsAhead(r) = left + TurnLeft(r) /\ TurnLeft(r) \in Int
  BY <1>1, AheadIs, UnreadFinite DEF StepsPerAttempt
<1>3. StepsAhead(r)' = left + TurnLeft(r)' /\ TurnLeft(r)' \in Int
  <2>1. Cardinality(unread'[r]) \in Int /\ Cardinality(Subs) \in Int
    BY UnreadFinite, FS_CardinalityType, ProxyAssumption, FS_Subset DEF RequestInv, TypeOK
  <2>2. TurnLeft(r)' \in Int
    BY <2>1 DEF TurnLeft
  <2>3. StepsAhead(r)' =
          (MaxAttempts - Cardinality(tried'[r])) * StepsPerAttempt + TurnLeft(r)'
    BY DEF StepsAhead, Underway, Pc, Answered, StepsPerAttempt
  <2> QED BY <1>1, <2>2, <2>3
<1> QED BY <1>2, <1>3

LEMMA AnswerShrinks ==
  ASSUME RequestInv, WorkInv, NEW r \in Requests, pc[r] \in Underway, pc'[r] \in Answered
  PROVE  StepsAhead(r)' < StepsAhead(r)
<1>1. StepsAhead(r)' = 0
  BY DEF StepsAhead, Underway
<1> QED BY <1>1, AheadIs

\* A step that selects: it goes on in its turn, takes a slot or refuses.
LEMMA SelectingShrinks ==
  ASSUME RequestInv, WorkInv, (RequestInv /\ WorkInv)', NEW r \in Requests, Selecting(r)
  PROVE  /\ pc[r] \in Underway => StepsAhead(r)' < StepsAhead(r)
         /\ \A q \in Requests \ {r} : StepsAhead(q)' = StepsAhead(q)
<1> USE DEF RequestInv, TypeOK
<1>1. Cardinality(Subs) \in Nat /\ pc \in [Requests -> Pc]
  BY UnreadFinite
<1>2. {"listing", "gathering", "fresh", "forwarding", "renewing"} \subseteq Underway
  BY DEF Underway, Pc, Answered
<1>3. CASE List(r)
  <2>1. /\ pc[r] = "listing" /\ pc' = [pc EXCEPT ![r] = "gathering"]
        /\ unread' = [unread EXCEPT ![r] = Untried(r)] /\ Untried(r) \subseteq Subs
        /\ UNCHANGED <<tried, retried>>
    BY <1>3 DEF List, Goto, runVars, Untried, ListByPool
  <2>2. Cardinality(unread'[r]) \in 0..Cardinality(Subs)
    BY <2>1, ProxyAssumption, FS_Subset, FS_CardinalityType
  <2>3. pc'[r] = "gathering" /\ tried'[r] = tried[r]
    BY <1>1, <2>1
  <2>4. TurnLeft(r)' < TurnLeft(r)
    BY <1>1, <2>1, <2>2, <2>3 DEF TurnLeft
  <2>5. StepsAhead(r)' < StepsAhead(r)
    BY <1>2, <2>1, <2>3, <2>4, TurnShrinks
  <2>6. ASSUME NEW q \in Requests \ {r} PROVE StepsAhead(q)' = StepsAhead(q)
    BY <2>1, AheadStays
  <2> QED BY <2>5, <2>6
<1>4. ASSUME NEW s \in Subs, Gather(r, s)
      PROVE  /\ StepsAhead(r)' < StepsAhead(r)
             /\ \A q \in Requests \ {r} : StepsAhead(q)' = StepsAhead(q)
  <2>1. /\ pc[r] = "gathering" /\ s \in unread[r]
        /\ unread' = [unread EXCEPT ![r] = @ \ {s}]
        /\ UNCHANGED <<pc, tried, retried>>
    BY <1>4 DEF Gather, runVars
  <2>2. Cardinality(unread'[r]) = Cardinality(unread[r]) - 1
    <3>1. unread'[r] = unread[r] \ {s} /\ IsFiniteSet(unread[r])
      BY <2>1, UnreadFinite
    <3> QED BY <2>1, <3>1, FS_RemoveElement
  <2>3. TurnLeft(r)' < TurnLeft(r)
    BY <2>1, <2>2, UnreadFinite DEF TurnLeft
  <2>4. StepsAhead(r)' < StepsAhead(r)
    BY <1>2, <2>1, <2>3, TurnShrinks
  <2>5. ASSUME NEW q \in Requests \ {r} PROVE StepsAhead(q)' = StepsAhead(q)
    BY <2>1, AheadStays
  <2> QED BY <2>4, <2>5
<1>5. ASSUME NEW s \in Subs, Pick(r, s)
      PROVE  /\ StepsAhead(r)' < StepsAhead(r)
             /\ \A q \in Requests \ {r} : StepsAhead(q)' = StepsAhead(q)
  <2>1. /\ pc[r] = "gathering" /\ unread[r] = {} /\ s \notin tried[r]
        /\ tried' = [tried EXCEPT ![r] = @ \cup {s}]
        /\ pc' = [pc EXCEPT ![r] = "fresh"]
        /\ UNCHANGED <<unread, retried>>
    BY <1>5 DEF Pick, Picked, Eligible, WithTried, Goto, RequestFacts
  <2>2. PICK n \in 0..MaxAttempts : n = Cardinality(tried[r]) /\ n < MaxAttempts
    BY <1>2, <2>1, AheadIs
  <2>3. Cardinality(tried'[r]) = n + 1
    BY <2>1, <2>2, TriedFinite, FS_AddElement
  <2>4. PICK left \in Nat : left = (MaxAttempts - n) * StepsPerAttempt
    BY <1>2, <2>1, <2>2, AheadIs
  <2>5. (MaxAttempts - (n + 1)) * StepsPerAttempt = left - StepsPerAttempt
    <3>1. MaxAttempts - n \in Nat /\ StepsPerAttempt \in Nat
          /\ MaxAttempts - (n + 1) = (MaxAttempts - n) - 1
      BY <1>1, <2>2, ProxyAssumption DEF StepsPerAttempt
    <3> QED BY <2>4, <3>1, LessWork
  <2>6. StepsAhead(r) = left + 1
    <3>1. TurnLeft(r) = 1
      BY <2>1, FS_EmptySet DEF TurnLeft
    <3> QED BY <1>2, <2>1, <2>2, <2>4, <3>1, AheadIs
  <2>7. StepsAhead(r)' = left - StepsPerAttempt + StepsPerAttempt
    <3>1. pc'[r] = "fresh" /\ TurnLeft(r)' = StepsPerAttempt
      BY <1>1, <2>1 DEF TurnLeft, StepsPerAttempt
    <3>2. StepsAhead(r)' =
            (MaxAttempts - Cardinality(tried'[r])) * StepsPerAttempt + TurnLeft(r)'
      BY <1>2, <3>1 DEF StepsAhead, Underway, Pc, Answered, StepsPerAttempt
    <3> QED BY <2>3, <2>5, <3>1, <3>2
  <2>8. StepsAhead(r)' < StepsAhead(r)
    BY <1>1, <2>6, <2>7 DEF StepsPerAttempt
  <2>9. ASSUME NEW q \in Requests \ {r} PROVE StepsAhead(q)' = StepsAhead(q)
    BY <2>1, AheadStays
  <2> QED BY <2>8, <2>9
<1>6. CASE Refuse(r)
  <2>1. /\ pc[r] = "gathering" /\ pc' = [pc EXCEPT ![r] = "noCapacity"]
        /\ UNCHANGED <<unread, tried, retried>>
    BY <1>6 DEF Refuse, Goto, runVars
  <2>2. StepsAhead(r)' < StepsAhead(r)
    BY <1>1, <1>2, <2>1, AnswerShrinks DEF Answered
  <2>3. ASSUME NEW q \in Requests \ {r} PROVE StepsAhead(q)' = StepsAhead(q)
    BY <2>1, AheadStays
  <2> QED BY <2>2, <2>3
<1> QED BY <1>3, <1>4, <1>5, <1>6 DEF Selecting

\* A step of an attempt: towards the response, back to the pool, or to an answer.
LEMMA AttemptingShrinks ==
  ASSUME RequestInv, WorkInv, (RequestInv /\ WorkInv)', NEW r \in Requests, Attempting(r)
  PROVE  /\ pc[r] \in Underway => StepsAhead(r)' < StepsAhead(r)
         /\ \A q \in Requests \ {r} : StepsAhead(q)' = StepsAhead(q)
<1> USE DEF RequestInv, TypeOK
<1>1. Cardinality(Subs) \in Nat /\ pc \in [Requests -> Pc]
  BY UnreadFinite
<1>2. {"listing", "gathering", "fresh", "forwarding", "renewing"} \subseteq Underway
  BY DEF Underway, Pc, Answered
<1>3. CASE Forward(r)
  <2>1. /\ pc[r] \in {"fresh", "renewing"} /\ pc' = [pc EXCEPT ![r] = "forwarding"]
        /\ pc[r] = "fresh" => r \notin retried
        /\ pc[r] = "renewing" => r \in retried
        /\ UNCHANGED <<unread, tried, retried>>
    BY <1>3 DEF Forward, Goto, selVars, RequestFacts
  <2>2. pc'[r] = "forwarding" /\ TurnLeft(r)' < TurnLeft(r)
    BY <1>1, <2>1 DEF TurnLeft
  <2>3. StepsAhead(r)' < StepsAhead(r)
    BY <1>2, <2>1, <2>2, TurnShrinks
  <2>4. ASSUME NEW q \in Requests \ {r} PROVE StepsAhead(q)' = StepsAhead(q)
    BY <2>1, AheadStays
  <2> QED BY <2>3, <2>4
<1>4. CASE Renews(r)
  <2>1. /\ pc[r] = "forwarding" /\ pc' = [pc EXCEPT ![r] = "renewing"]
        /\ r \notin retried /\ retried' = retried \cup {r}
        /\ UNCHANGED <<unread, tried>>
    BY <1>4 DEF Renews, Goto, selVars
  <2>2. pc'[r] = "renewing" /\ TurnLeft(r)' < TurnLeft(r)
    BY <1>1, <2>1 DEF TurnLeft
  <2>3. StepsAhead(r)' < StepsAhead(r)
    BY <1>2, <2>1, <2>2, TurnShrinks
  <2>4. ASSUME NEW q \in Requests \ {r} PROVE StepsAhead(q)' = StepsAhead(q)
    BY <2>1, AheadStays
  <2> QED BY <2>3, <2>4
<1>5. CASE Relays(r)
  <2>1. /\ pc[r] = "forwarding" /\ pc' = [pc EXCEPT ![r] = "relaying"]
        /\ UNCHANGED <<unread, tried, retried>>
    BY <1>5 DEF Relays, Goto, selVars, runVars
  <2>2. StepsAhead(r)' < StepsAhead(r)
    BY <1>1, <1>2, <2>1, AnswerShrinks DEF Answered
  <2>3. ASSUME NEW q \in Requests \ {r} PROVE StepsAhead(q)' = StepsAhead(q)
    BY <2>1, AheadStays
  <2> QED BY <2>2, <2>3
<1>6. ASSUME NEW l \in Pc, Quits(r, l)
      PROVE  /\ StepsAhead(r)' < StepsAhead(r)
             /\ \A q \in Requests \ {r} : StepsAhead(q)' = StepsAhead(q)
  <2>1. retried' = retried \ {r} /\ pc[r] \in {"fresh", "forwarding", "renewing"}
    BY <1>6 DEF Quits, Release
  <2>2. /\ pc' = [pc EXCEPT ![r] = l] /\ l \in {"listing", "exhausted", "error"}
        /\ UNCHANGED <<unread, tried>>
    BY <1>6 DEF Quits, Goto, selVars
  <2>3. pc'[r] = l
    BY <1>1, <2>2
  <2>4. StepsAhead(r)' < StepsAhead(r)
    <3>1. CASE l = "listing"
      <4>1. TurnLeft(r)' < TurnLeft(r)
        BY <1>1, <2>1, <2>3, <3>1 DEF TurnLeft
      <4> QED BY <1>2, <2>1, <2>2, <2>3, <3>1, <4>1, TurnShrinks
    <3>2. CASE l # "listing"
      BY <1>2, <2>1, <2>2, <2>3, <3>2, AnswerShrinks DEF Answered
    <3> QED BY <3>1, <3>2
  <2>5. ASSUME NEW q \in Requests \ {r} PROVE StepsAhead(q)' = StepsAhead(q)
    BY <2>1, <2>2, AheadStays
  <2> QED BY <2>4, <2>5
<1> QED BY <1>3, <1>4, <1>5, <1>6, Attempts

LEMMA AdvanceStep ==
  ASSUME RequestInv, WorkInv, (RequestInv /\ WorkInv)', [Next]_vars,
         NEW r \in Requests, pc[r] \in Underway
  PROVE  /\ StepsAhead(r)' <= StepsAhead(r)
         /\ Selecting(r) \/ Attempting(r) => StepsAhead(r)' < StepsAhead(r)
<1>1. StepsAhead(r) \in Int /\ pc \in [Requests -> Pc]
  BY AheadBounded DEF StepsBounded, MostSteps, RequestInv, TypeOK
<1>2. pc[r] \notin {"idle"} \cup Answered
  BY DEF Underway
<1>3. CASE \E q \in Requests : Selecting(q) \/ Attempting(q)
  <2>1. PICK q \in Requests : Selecting(q) \/ Attempting(q)
    BY <1>3
  <2>2. q = r => StepsAhead(r)' < StepsAhead(r)
    BY <2>1, SelectingShrinks, AttemptingShrinks
  <2>3. q # r => StepsAhead(r)' = StepsAhead(r)
    BY <2>1, SelectingShrinks, AttemptingShrinks
  <2>4. Selecting(r) \/ Attempting(r) => StepsAhead(r)' < StepsAhead(r)
    BY SelectingShrinks, AttemptingShrinks
  <2>5. StepsAhead(r)' \in Int /\ StepsAhead(r)' <= StepsAhead(r)
    <3>1. StepsAhead(r)' \in Int
      <4>1. StepsBounded'
        BY AheadBounded, PTL
      <4> QED BY <4>1 DEF StepsBounded
    <3> QED BY <1>1, <2>2, <2>3, <3>1
  <2> QED BY <2>4, <2>5
<1>4. CASE ~ \E q \in Requests : Selecting(q) \/ Attempting(q)
  <2>1. StepsAhead(r)' = StepsAhead(r)
    <3>1. CASE \E q \in Requests : EndRelay(q) \/ EndError(q)
                 \/ \E w \in Pools \X Providers : Arrive(q, w)
      <4>1. PICK q \in Requests : EndRelay(q) \/ EndError(q)
                 \/ \E w \in Pools \X Providers : Arrive(q, w)
        BY <3>1
      <4>2. /\ q # r /\ pc'[r] = pc[r]
            /\ unread' = unread /\ tried'[r] = tried[r]
            /\ r \in retried' <=> r \in retried
        BY <1>1, <1>2, <4>1
           DEF EndRelay, EndError, Arrive, Answered, Goto, Release, selVars, runVars,
               RequestInv, TypeOK
      <4> QED BY <4>2, AheadStays
    <3>2. CASE Aside
      BY <3>2, AheadStays DEF Aside, selVars, runVars
    <3> QED BY <1>4, <3>1, <3>2, OthersStep DEF Next
  <2> QED BY <1>1, <1>4, <2>1
<1> QED BY <1>3, <1>4

\* However many requests interleave with the prober, the owner and the clock, each
\* of them is answered within MostSteps steps of its own: a bound on the loop of
\* handle, the 401 branch in it and the reads of gatherCandidates together.
THEOREM RequestsFinish == Spec => []StepsBounded /\ RequestsAdvance
<1>1. RequestInv /\ WorkInv /\ (RequestInv /\ WorkInv)' /\ [Next]_vars =>
        [\A r \in Requests : pc[r] \in Underway =>
           /\ StepsAhead(r)' <= StepsAhead(r)
           /\ Selecting(r) \/ Attempting(r) => StepsAhead(r)' < StepsAhead(r)]_vars
  BY AdvanceStep
<1> QED BY <1>1, RequestInit, RequestStep, WorkInit, WorkStep, AheadBounded, PTL
           DEF Spec, RequestsAdvance

-----------------------------------------------------------------------------
(* The history of a selection *)

\* While r gathers, what was eligible all along is yet to be read or was seen
\* eligible, and a snapshot seen eligible is so for good (EligibleStays).
FitFacts(r) ==
  /\ pc[r] = "gathering" => \A s \in fit[r] :
       /\ s \in Fit
       /\ s \in unread[r] \/ \E c \in seen[r] : c.id = s /\ IsEligible(c.snapshot, now)
  /\ pc[r] = "noCapacity" => fit[r] = {}

FitInv == \A r \in Requests : FitFacts(r)

\* Whatever is written around it, a selection that does not move keeps its facts.
LEMMA OnlookersKeep ==
  ASSUME RequestInv, FitInv, NEW q \in Requests,
         now \in Int, now' \in Int, now <= now',
         \/ fit'[q] = fit[q] \cap Fit'
         \/ fit'[q] = fit[q] /\ UNCHANGED <<latest, now, active>>,
         seen'[q] = seen[q], unread'[q] = unread[q],
         pc'[q] \in {"gathering", "noCapacity"} => pc'[q] = pc[q]
  PROVE  FitFacts(q)'
<1>1. FitFacts(q)
  BY DEF FitInv
<1>2. CASE pc'[q] = "noCapacity"
  BY <1>1, <1>2 DEF FitFacts
<1>3. CASE pc'[q] = "gathering"
  <2> SUFFICES ASSUME NEW s \in fit'[q]
      PROVE  /\ s \in Fit'
             /\ s \in unread'[q]
                  \/ \E c \in seen'[q] : c.id = s /\ IsEligible(c.snapshot, now')
    BY <1>3 DEF FitFacts
  <2>1. s \in fit[q]
    OBVIOUS
  <2>2. s \in Fit'
    <3>1. UNCHANGED <<latest, now, active>> => Fit' = Fit
      BY DEF Fit
    <3> QED BY <1>1, <1>3, <2>1, <3>1 DEF FitFacts
  <2>3. ASSUME NEW c \in seen[q], IsEligible(c.snapshot, now)
        PROVE  IsEligible(c.snapshot, now')
    <3>1. c.snapshot \in Snapshot \cup {None}
      BY DEF RequestInv, TypeOK, Candidate
    <3> QED BY <2>3, <3>1, EligibleStays
  <2> QED BY <1>1, <1>3, <2>1, <2>2, <2>3 DEF FitFacts
<1> QED BY <1>2, <1>3 DEF FitFacts

LEMMA FitInit == Init => FitInv
  BY DEF Init, FitInv, FitFacts

LEMMA FitSelecting ==
  ASSUME RequestInv, FitInv, NEW r \in Requests, Selecting(r)
  PROVE  FitInv'
<1> USE DEF RequestInv, TypeOK
<1>0. now \in Int /\ UNCHANGED <<latest, now, active>>
  BY DEF Selecting, List, Gather, Pick, Refuse, poolVars
<1>1. ASSUME NEW q \in Requests \ {r} PROVE FitFacts(q)'
  <2>1. seen'[q] = seen[q] /\ unread'[q] = unread[q] /\ pc'[q] = pc[q] /\ fit'[q] = fit[q]
    BY <1>1 DEF Selecting, List, Gather, Pick, Refuse, Goto
  <2> QED BY <1>0, <2>1, OnlookersKeep
<1>2. FitFacts(r)
  BY DEF FitInv
<1>3. Fit' = Fit
  BY <1>0 DEF Fit
<1>4. CASE List(r)
  <2>1. /\ pc'[r] = "gathering" /\ unread'[r] = Untried(r)
        /\ fit'[r] = Untried(r) \cap Fit
    BY <1>4 DEF List, Goto
  <2>2. FitFacts(r)'
    BY <1>3, <2>1 DEF FitFacts
  <2> QED BY <1>1, <2>2 DEF FitInv
<1>5. ASSUME NEW s \in Subs, Gather(r, s) PROVE FitInv'
  <2> DEFINE c == [id |-> s, snapshot |-> latest[s], inFlight |-> inFlight[s]]
  <2>1. /\ pc[r] = "gathering" /\ pc' = pc /\ fit' = fit
        /\ unread'[r] = unread[r] \ {s}
        /\ seen'[r] = seen[r] \cup {c}
    BY <1>5 DEF Gather
  <2>2. c.id = s /\ c.snapshot = latest[s]
    OBVIOUS
  <2> HIDE DEF c
  <2>3. FitFacts(r)'
    <3>1. ASSUME NEW t \in fit[r]
          PROVE  /\ t \in Fit
                 /\ t \in unread'[r]
                     \/ \E d \in seen'[r] : d.id = t /\ IsEligible(d.snapshot, now)
      <4>1. t \in Fit /\ (t \in unread[r]
                           \/ \E d \in seen[r] : d.id = t /\ IsEligible(d.snapshot, now))
        BY <1>2, <2>1 DEF FitFacts
      <4>2. t = s => IsEligible(c.snapshot, now)
        BY <2>2, <4>1 DEF Fit
      <4> QED BY <2>1, <2>2, <4>1, <4>2
    <3> QED BY <1>0, <1>3, <2>1, <3>1 DEF FitFacts
  <2> QED BY <1>1, <2>3 DEF FitInv
<1>6. ASSUME NEW s \in Subs, Pick(r, s) PROVE FitInv'
  <2>1. pc'[r] = "fresh"
    BY <1>6 DEF Pick, Goto
  <2> QED BY <1>1, <2>1 DEF FitInv, FitFacts
<1>7. CASE Refuse(r)
  <2>1. /\ pc[r] = "gathering" /\ unread[r] = {} /\ Picked(seen[r], now) = {}
        /\ pc'[r] = "noCapacity" /\ fit' = fit
    BY <1>7 DEF Refuse, Unpickable, Goto
  <2>2. Eligible(seen[r], now) = {}
    <3>1. Eligible(seen[r], now) \subseteq RankedCandidate
      BY DEF Eligible, Candidate, RankedCandidate, Subs
    <3>2. SUFFICES ASSUME Eligible(seen[r], now) # {} PROVE FALSE
      OBVIOUS
    <3>3. PICK c \in Eligible(seen[r], now) :
                 \A d \in Eligible(seen[r], now) : ~Before(d, c)
      BY <3>1, <3>2, FirstExists
    <3> QED BY <2>1, <3>3 DEF Picked
  <2>3. fit[r] = {}
    BY <1>2, <2>1, <2>2 DEF FitFacts, Eligible
  <2>4. FitFacts(r)'
    BY <2>1, <2>3 DEF FitFacts
  <2> QED BY <1>1, <2>4 DEF FitInv
<1> QED BY <1>4, <1>5, <1>6, <1>7 DEF Selecting

LEMMA FitStep ==
  ASSUME RequestInv, FitInv, [Next]_vars
  PROVE  FitInv'
<1> USE DEF RequestInv, TypeOK
<1>0. now \in Int /\ now' \in Int /\ now <= now'
  BY PoolMoves
<1>1. ASSUME UNCHANGED selVars, Watch \/ UNCHANGED <<latest, now, active, fit>>,
             \A q \in Requests : pc'[q] \in {"gathering", "noCapacity"} => pc'[q] = pc[q]
      PROVE  FitInv'
  <2> SUFFICES ASSUME NEW q \in Requests PROVE FitFacts(q)'
    BY DEF FitInv
  <2>1. \/ fit'[q] = fit[q] \cap Fit'
        \/ fit'[q] = fit[q] /\ UNCHANGED <<latest, now, active>>
    BY <1>1 DEF Watch
  <2>2. seen'[q] = seen[q] /\ unread'[q] = unread[q]
    BY <1>1 DEF selVars
  <2> QED BY <1>0, <1>1, <2>1, <2>2, OnlookersKeep
<1>2. ASSUME NEW r \in Requests, Attempting(r) PROVE FitInv'
  <2>1. CASE Forward(r)
    <3>1. /\ UNCHANGED selVars
          /\ UNCHANGED <<latest, now, active, fit>>
          /\ \A q \in Requests : pc'[q] \in {"gathering", "noCapacity"} => pc'[q] = pc[q]
      BY <2>1 DEF Forward, Goto, poolVars
    <3> QED BY <1>1, <3>1
  <2>2. CASE NoCredential(r) \/ AttemptBreaks(r)
    <3>1. /\ UNCHANGED selVars
          /\ Watch \/ UNCHANGED <<latest, now, active, fit>>
          /\ \A q \in Requests : pc'[q] \in {"gathering", "noCapacity"} => pc'[q] = pc[q]
      BY <2>2 DEF NoCredential, AttemptBreaks, FailOver, Break, Goto
    <3> QED BY <1>1, <3>1
  <2>3. ASSUME NEW reply \in Replies, Respond(r, reply) \/ CancelFails(r, reply)
        PROVE  FitInv'
    <3>1. /\ UNCHANGED selVars
          /\ Watch
          /\ \A q \in Requests : pc'[q] \in {"gathering", "noCapacity"} => pc'[q] = pc[q]
      BY <2>3 DEF Respond, CancelFails, FailOver, Break, Goto
    <3> QED BY <1>1, <3>1
  <2> QED BY <1>2, <2>1, <2>2, <2>3 DEF Attempting
<1>3. ASSUME NEW r \in Requests, NEW w \in Pools \X Providers, Arrive(r, w)
      PROVE  FitInv'
  <2>1. /\ UNCHANGED selVars
        /\ UNCHANGED <<latest, now, active, fit>>
        /\ \A q \in Requests : pc'[q] \in {"gathering", "noCapacity"} => pc'[q] = pc[q]
    BY <1>3 DEF Arrive, Goto, poolVars
  <2> QED BY <1>1, <2>1
<1>4. ASSUME NEW r \in Requests, EndRelay(r) PROVE FitInv'
  <2>1. /\ UNCHANGED selVars
        /\ UNCHANGED <<latest, now, active, fit>>
        /\ \A q \in Requests : pc'[q] \in {"gathering", "noCapacity"} => pc'[q] = pc[q]
    BY <1>4 DEF EndRelay, Goto
  <2> QED BY <1>1, <2>1
<1>5. ASSUME NEW r \in Requests, EndError(r) PROVE FitInv'
  <2>1. FitFacts(r)'
    BY <1>5 DEF EndError, Goto, FitFacts
  <2>2. ASSUME NEW q \in Requests \ {r} PROVE FitFacts(q)'
    <3>1. /\ seen'[q] = seen[q] /\ unread'[q] = unread[q] /\ pc'[q] = pc[q]
          /\ fit'[q] = fit[q] /\ UNCHANGED <<latest, now, active>>
      BY <1>5, <2>2 DEF EndError, Goto, selVars, poolVars
    <3> QED BY <1>0, <3>1, OnlookersKeep
  <2> QED BY <2>1, <2>2 DEF FitInv
<1>6. CASE \/ \E s \in Subs : Disable(s) \/ \E reply \in Replies : Probe(s, reply)
           \/ Tick \/ UNCHANGED vars
  <2>1. /\ UNCHANGED selVars
        /\ Watch \/ UNCHANGED <<latest, now, active, fit>>
        /\ pc' = pc
    BY <1>6 DEF Disable, Probe, Tick, vars, poolVars
  <2> QED BY <1>1, <2>1
<1> QED BY <1>2, <1>3, <1>4, <1>5, <1>6, FitSelecting DEF Next

\* For any number of requests and any pool: a refused request had no untried
\* subscription that was in service and eligible throughout its selection, for
\* all that was written between the reads (gatherCandidates).
THEOREM RefusalsAreSound == Spec => []RefusedOnlyWhenFenced
<1>1. FitInv => RefusedOnlyWhenFenced
  BY DEF FitInv, FitFacts, RefusedOnlyWhenFenced
<1> QED BY RequestInit, RequestStep, FitInit, FitStep, <1>1, PTL DEF Spec

-----------------------------------------------------------------------------
(* The failover loop implements the slot lease *)

LEMMA LeaseCounts == \A S : Lease!Cardinality(S) = Cardinality(S)
  BY DEF Lease!Cardinality, Cardinality

LEMMA LeaseInit == Init => Lease!Init
  BY DEF Init, Pool!Init, Pool!Subs, Subs, Lease!Init

LEMMA LeaseStep ==
  ASSUME RequestInv, InFlightAccurate, WorkInv, [Next]_vars
  PROVE  [Lease!Next]_(Lease!leaseVars)
<1> USE DEF RequestInv, TypeOK
<1>1. ASSUME NEW r \in Requests, NEW s \in Subs, Pick(r, s) PROVE Lease!Next
  <2>1. s \notin tried[r] /\ held[r] = None
    BY <1>1 DEF Pick, Picked, Eligible, RequestFacts, Working
  <2>2. Cardinality(tried[r]) < MaxAttempts
    BY <1>1 DEF Pick, WorkInv, WithinBounds
  <2>3. Lease!Take(r, s)
    BY <1>1, <2>1, <2>2, LeaseCounts DEF Pick, WithTried, Pool!Increment, Lease!Take
  <2> QED BY <2>3 DEF Lease!Next
<1>2. ASSUME NEW r \in Requests, NEW l \in Pc, Quits(r, l) PROVE Lease!Next
  <2>1. pc[r] \in Working /\ Release(r) /\ tried' = tried
    BY <1>2 DEF Quits, Working
  <2>2. held[r] # None /\ held' = [held EXCEPT ![r] = None]
    BY <2>1 DEF RequestFacts, Release
  <2>3. inFlight[held[r]] > 0 /\ inFlight' = [inFlight EXCEPT ![held[r]] = @ - 1]
    BY <2>1, ReleaseCounts
  <2>4. Lease!GiveBack(r, FALSE)
    BY <2>1, <2>2, <2>3 DEF Lease!GiveBack
  <2> QED BY <2>4 DEF Lease!Next
<1>3. ASSUME NEW r \in Requests, EndRelay(r) PROVE Lease!Next
  <2>1. pc[r] \in Working /\ Release(r) /\ tried' = [tried EXCEPT ![r] = {}]
    BY <1>3 DEF EndRelay, Working
  <2>2. held[r] # None /\ held' = [held EXCEPT ![r] = None]
    BY <2>1 DEF RequestFacts, Release
  <2>3. inFlight[held[r]] > 0 /\ inFlight' = [inFlight EXCEPT ![held[r]] = @ - 1]
    BY <2>1, ReleaseCounts
  <2>4. Lease!GiveBack(r, TRUE)
    BY <2>1, <2>2, <2>3 DEF Lease!GiveBack
  <2> QED BY <2>4 DEF Lease!Next
<1>4. ASSUME NEW r \in Requests, EndError(r) PROVE Lease!Next
  <2>1. held[r] = None
    BY <1>4 DEF EndError, RequestFacts, Working
  <2>2. Lease!End(r)
    BY <1>4, <2>1 DEF EndError, poolVars, Lease!End
  <2> QED BY <2>2 DEF Lease!Next
<1>5. ASSUME NEW r \in Requests,
             \/ \E w \in Pools \X Providers : Arrive(r, w)
             \/ List(r) \/ Refuse(r) \/ Forward(r) \/ Renews(r) \/ Relays(r)
             \/ \E s \in Subs : Gather(r, s)
      PROVE  UNCHANGED Lease!leaseVars
  BY <1>5 DEF Arrive, List, Refuse, Forward, Renews, Relays, Gather, poolVars, runVars,
              Lease!leaseVars
<1>6. CASE Aside
  BY <1>6 DEF Aside, runVars, Lease!leaseVars
<1> QED BY <1>1, <1>2, <1>3, <1>4, <1>5, <1>6, Steps

\* For any number of requests, subscriptions and attempts, the loop of handle
\* implements the slot lease: one slot at a time, no subscription twice, no more
\* than MaxAttempts, the counter moved in the step that moves the slot.
THEOREM ImplementsLease == Spec => KeepsLease
  BY RequestInit, RequestStep, CountersInit, CountersStep, WorkInit, WorkStep,
     LeaseInit, LeaseStep, PTL
  DEF Spec, KeepsLease, Lease!Spec

-----------------------------------------------------------------------------
(* Keys *)

\* What a row says of its pool stays, and a request in progress has a key whose
\* pool it was admitted to.
KeyInv ==
  /\ KeysOK
  /\ revoking \subseteq Issued
  /\ \A k \in Issued : PoolKindOf(keys[k]) \in Pools

Carries(r) ==
  pc[r] # "idle" =>
    /\ bearer[r] \in Issued
    /\ want[r] \in Pools \X Providers /\ want[r][1] = PoolKindOf(keys[bearer[r]])

BearerInv == KeyInv /\ \A r \in Requests : Carries(r)

LEMMA BearerInit == KeyedInit => BearerInv
<1> SUFFICES ASSUME KeyedInit PROVE BearerInv
  OBVIOUS
<1>1. KeyInv
  BY DEF KeyedInit, KeyInv, KeysOK, Issued
<1>2. \A r \in Requests : pc[r] = "idle"
  BY DEF KeyedInit, Init
<1> QED BY <1>1, <1>2 DEF BearerInv, Carries

\* The rows after a step: nothing but new keys and revocations.
LEMMA KeysStep ==
  ASSUME KeyInv, [KeyedNext]_<<vars, keyVars>>,
         bearer' \in [Requests -> Keys \cup {None}]
  PROVE  /\ KeyInv'
         /\ \A k \in Issued : k \in Issued' /\ PoolKindOf(keys'[k]) = PoolKindOf(keys[k])
<1> USE KeyedProxyAssumption DEF KeyInv, KeysOK, Issued
<1>1. ASSUME NEW k \in Keys, NEW row \in KeyRow, IssueKey(k, row)
      PROVE  /\ KeyInv'
             /\ \A j \in Issued : j \in Issued' /\ keys'[j] = keys[j]
  <2>1. keys' = [keys EXCEPT ![k] = row] /\ row # None /\ revoking' = revoking
    BY <1>1 DEF IssueKey
  <2>2. PoolKindOf(row) \in Pools
    BY <1>1 DEF IssueKey
  <2>3. \A j \in Issued : keys'[j] = keys[j]
    BY <1>1, <2>1 DEF IssueKey
  <2>4. \A j \in Issued' : j = k \/ j \in Issued
    BY <2>1
  <2>5. \A j \in Issued' : PoolKindOf(keys'[j]) \in Pools
    BY <2>1, <2>2, <2>3, <2>4
  <2> QED BY <2>1, <2>3, <2>5
<1>2. ASSUME NEW k \in Keys, RevokeKey(k)
      PROVE  /\ KeyInv'
             /\ \A j \in Issued : j \in Issued' /\ PoolKindOf(keys'[j]) = PoolKindOf(keys[j])
  <2> DEFINE row == [keys[k] EXCEPT !.active = FALSE]
  <2>1. k \in Issued /\ keys[k] \in KeyRow
    BY <1>2 DEF RevokeKey
  <2>2. row \in KeyRow /\ PoolKindOf(row) = PoolKindOf(keys[k])
    BY <2>1 DEF KeyRow, PoolKindOf
  <2>3. keys' = [keys EXCEPT ![k] = row] /\ revoking' = revoking \ {k}
    BY <1>2 DEF RevokeKey
  <2>4. row # None
    BY <2>2
  <2> HIDE DEF row
  <2>5. keys' \in [Keys -> KeyRow \cup {None}] /\ Issued' = Issued
    BY <2>1, <2>2, <2>3, <2>4
  <2>6. \A j \in Issued : PoolKindOf(keys'[j]) = PoolKindOf(keys[j])
    BY <2>2, <2>3
  <2>7. \A j \in Issued' : PoolKindOf(keys'[j]) \in Pools
    BY <2>5, <2>6
  <2> QED BY <2>3, <2>5, <2>6, <2>7
<1>3. ASSUME NEW k \in Keys, NEW u \in Users, FindKey(u, k)
      PROVE  revoking' \subseteq Issued /\ keys' = keys
  BY <1>3 DEF FindKey
<1>4. UNCHANGED <<keys, revoking>> \/ (revoking' \subseteq Issued /\ keys' = keys)
        => /\ KeyInv'
           /\ \A j \in Issued : j \in Issued' /\ keys'[j] = keys[j]
  BY DEF PoolKindOf
<1> QED
  BY <1>1, <1>2, <1>3, <1>4 DEF KeyedNext, Admit, Depart, keyVars

\* A request past its arrival keeps its pool and provider.
LEMMA WantStays ==
  ASSUME RequestInv, [Next]_vars,
         \A r \in Requests, w \in Pools \X Providers : ~Arrive(r, w)
  PROVE  \A r \in Requests :
           pc'[r] # "idle" => pc[r] # "idle" /\ want'[r] = want[r]
<1> USE DEF RequestInv, TypeOK
<1>1. ASSUME NEW r \in Requests,
             \/ List(r) \/ (\E s \in Subs : Gather(r, s) \/ Pick(r, s))
             \/ Refuse(r) \/ Forward(r) \/ Renews(r) \/ Relays(r)
             \/ \E l \in Pc : Quits(r, l)
      PROVE  /\ pc[r] # "idle" /\ want' = want
             /\ \A q \in Requests \ {r} : pc'[q] = pc[q]
  BY <1>1 DEF List, Gather, Pick, Refuse, Forward, Renews, Relays, Quits, Goto, selVars, runVars
<1>2. ASSUME NEW r \in Requests, EndRelay(r) \/ EndError(r)
      PROVE  /\ pc'[r] = "idle"
             /\ \A q \in Requests \ {r} : pc'[q] = pc[q] /\ want'[q] = want[q]
  BY <1>2 DEF EndRelay, EndError, Goto
<1>3. Aside => pc' = pc /\ want' = want
  BY DEF Aside
<1> QED BY <1>1, <1>2, <1>3, Steps

\* A keyed step is a step of Proxy, into a pool there is.
LEMMA KeyedIsProxy ==
  ASSUME BearerInv, [KeyedNext]_<<vars, keyVars>>
  PROVE  [Next]_vars
<1>1. ASSUME NEW r \in Requests, NEW k \in Keys, NEW provider \in Providers,
             Admit(r, k, provider)
      PROVE  Next
  <2>1. <<PoolOfKey(k), provider>> \in Pools \X Providers
    BY <1>1 DEF Admit, Resolves, PoolOfKey, BearerInv, KeyInv
  <2> QED BY <1>1, <2>1 DEF Admit, Next
<1> QED
  BY <1>1 DEF KeyedNext, IssueKey, FindKey, RevokeKey, Depart, Next

LEMMA BearerStep ==
  ASSUME RequestInv, BearerInv, [KeyedNext]_<<vars, keyVars>>
  PROVE  BearerInv'
<1> USE DEF BearerInv
<1>b. KeysOK /\ pc \in [Requests -> Pc] /\ want \in [Requests -> (Pools \X Providers) \cup {None}]
  BY DEF KeyInv, RequestInv, TypeOK
<1>1. ASSUME NEW r \in Requests, NEW k \in Keys, NEW provider \in Providers,
             Admit(r, k, provider)
      PROVE  BearerInv'
  <2> DEFINE w == <<PoolKindOf(keys[k]), provider>>
  <2>1. /\ k \in Issued /\ w \in Pools \X Providers /\ w[1] = PoolKindOf(keys[k])
        /\ Arrive(r, w) /\ UNCHANGED keys
        /\ bearer' = [bearer EXCEPT ![r] = k]
    BY <1>1 DEF Admit, Resolves, PoolOfKey, KeyInv
  <2> HIDE DEF w
  <2>2. KeyInv'
    BY <1>1, <1>b, <2>1, KeysStep DEF KeysOK
  <2>3. Carries(r)'
    BY <1>b, <2>1 DEF Carries, Arrive, KeysOK, Issued
  <2>4. ASSUME NEW q \in Requests, q # r PROVE Carries(q)'
    <3>1. pc'[q] = pc[q] /\ want'[q] = want[q] /\ bearer'[q] = bearer[q]
      BY <1>b, <2>1, <2>4 DEF Arrive, Goto, KeysOK
    <3> QED BY <2>1, <3>1 DEF Carries, Issued
  <2> QED BY <2>2, <2>3, <2>4
<1>2. ASSUME \A r \in Requests, w \in Pools \X Providers : ~Arrive(r, w),
             bearer' \in [Requests -> Keys \cup {None}],
             \A r \in Requests : pc'[r] # "idle" => bearer'[r] = bearer[r]
      PROVE  BearerInv'
  <2>1. \A r \in Requests : pc'[r] # "idle" => pc[r] # "idle" /\ want'[r] = want[r]
    BY <1>2, WantStays, KeyedIsProxy
  <2>2. /\ KeyInv'
        /\ \A k \in Issued : k \in Issued' /\ PoolKindOf(keys'[k]) = PoolKindOf(keys[k])
    BY <1>2, KeysStep
  <2> QED BY <1>2, <2>1, <2>2 DEF Carries
<1>3. ASSUME NEW r \in Requests, Depart(r)
      PROVE  BearerInv'
  <2>1. pc[r] # "idle" /\ pc'[r] = "idle" /\ bearer' = [bearer EXCEPT ![r] = None]
    BY <1>3, <1>b DEF Depart, EndRelay, EndError, Goto
  <2>2. \A q \in Requests, w \in Pools \X Providers : ~Arrive(q, w)
    BY <1>b, <2>1 DEF Arrive, Goto
  <2> QED BY <1>2, <1>b, <2>1, <2>2 DEF KeysOK
<1>4. ASSUME \/ \E r \in Requests : Selecting(r) \/ Attempting(r)
             \/ \E s \in Subs : Disable(s) \/ \E reply \in Replies : Probe(s, reply)
             \/ Tick \/ UNCHANGED vars,
             UNCHANGED bearer
      PROVE  BearerInv'
  <2>1. \A q \in Requests, w \in Pools \X Providers : ~Arrive(q, w)
    BY <1>4, <1>b DEF Arrive, Goto, Selecting, List, Gather, Pick, Refuse, Attempting, Forward,
       NoCredential, AttemptBreaks, Respond, CancelFails, FailOver, Break,
       Disable, Probe, Tick, vars
  <2> QED BY <1>2, <1>4, <1>b, <2>1 DEF KeysOK
<1> QED
  BY <1>1, <1>3, <1>4 DEF KeyedNext, IssueKey, FindKey, RevokeKey, keyVars

\* For any number of keys, pools and requests: a key opens the pool it was issued
\* for and nothing else, through every retry and failover, and whatever becomes of
\* it meanwhile (AccessKeysService.resolvePrincipal, listByPool).
THEOREM KeysOpenTheirPools == KeyedSpec => []KeyOpensItsPool
<1>1. RequestInv /\ BearerInv => KeyOpensItsPool
  <2> SUFFICES ASSUME RequestInv, BearerInv, NEW r \in Requests, held[r] # None
               PROVE  /\ bearer[r] \in Issued
                      /\ PoolOf[held[r]] = PoolKindOf(keys[bearer[r]])
                      /\ ProviderOf[held[r]] = want[r][2]
    BY DEF KeyOpensItsPool, PoolKindOf
  <2>1. pc[r] # "idle" /\ Serves(held[r], want[r])
    BY DEF RequestInv, RequestFacts, Working
  <2> QED BY <2>1 DEF BearerInv, Carries, Serves
<1>2. KeyedInit => RequestInv /\ BearerInv
  BY RequestInit, BearerInit DEF KeyedInit
<1>3. RequestInv /\ BearerInv /\ [KeyedNext]_<<vars, keyVars>> => RequestInv' /\ BearerInv'
  BY RequestStep, BearerStep, KeyedIsProxy
<1> QED BY <1>1, <1>2, <1>3, PTL DEF KeyedSpec

\* The keys in front take nothing from what is proved of Proxy: whatever the
\* requests of issued keys do, requests do that arrive for any pool.
THEOREM KeyedImplementsProxy == KeyedSpec => Spec
<1>1. KeyedInit => Init /\ RequestInv /\ BearerInv
  BY RequestInit, BearerInit DEF KeyedInit
<1>2. RequestInv /\ BearerInv /\ [KeyedNext]_<<vars, keyVars>>
        => [Next]_vars /\ RequestInv' /\ BearerInv'
  BY RequestStep, BearerStep, KeyedIsProxy
<1> QED BY <1>1, <1>2, PTL DEF KeyedSpec, Spec
=============================================================================
