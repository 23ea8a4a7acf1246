-------------------------------- MODULE Proxy --------------------------------
(***************************************************************************)
(* The inference path of one process: requests select a subscription, get  *)
(* its access token, forward, record what the response says of its load,   *)
(* and relay the response or fail over to another subscription.            *)
(* The token lifecycle (TokenManager) is three outcomes here: a token,     *)
(* RefreshFailed with the row marked unusable, or an error of its own.     *)
(*                                                                         *)
(* Every await is a step boundary, so the requests, the prober, the owner  *)
(* and the clock interleave between the reads a selection is made of.      *)
(***************************************************************************)
EXTENDS Selection, FiniteSets

CONSTANTS
  Requests,     \* concurrent requests
  PoolOf,       \* pool of each subscription: an owner's, or the donor pool
  ProviderOf,   \* provider of each subscription
  MaxAttempts,  \* maxAttempts
  Replies,      \* what upstream responses say
  MaxNow        \* bound on the clock

Subs == DOMAIN Rank
Pools == {PoolOf[s] : s \in Subs}
Providers == {ProviderOf[s] : s \in Subs}

ASSUME ProxyAssumption ==
  /\ None \notin Subs
  /\ DOMAIN PoolOf = Subs /\ DOMAIN ProviderOf = Subs
  /\ IsFiniteSet(Requests) /\ IsFiniteSet(Subs)
  /\ MaxAttempts \in Nat \ {0}
  /\ Replies \subseteq Reply
  /\ MaxNow \in Nat

VARIABLES
  latest, inFlight, now,   \* what selection reads: see PoolSelection
  active,    \* subscriptions whose row is active
  pc,        \* what a request awaits: see Pc
  want,      \* the pool of its key and the provider of its model
  unread,    \* listed rows whose load it has not read yet
  seen,      \* the candidates it has gathered
  tried,     \* subscriptions it has tried
  held,      \* the subscription whose slot it holds
  retried,   \* requests past the 401 of their attempt
  sends,     \* history: requests forwarded upstream for it
  fit        \* history: eligible subscriptions ever since it listed the pool

poolVars == <<latest, inFlight, now>>
selVars  == <<unread, seen>>
runVars  == <<tried, held, retried, sends>>
vars == <<poolVars, active, pc, want, selVars, runVars, fit>>

Pool == INSTANCE PoolSelection WITH MaxInFlight <- Cardinality(Requests)

Pc == {"idle",
       "listing",      \* the pool query of select
       "gathering",    \* the load reads of select
       "fresh",        \* ensureFresh
       "forwarding",   \* the upstream, and the insert of its sample
       "renewing",     \* refreshNow
       "relaying",     \* handed to the adapter with its slot
       "noCapacity",   \* select's 503
       "exhausted",    \* the 503 after maxAttempts
       "error"}        \* anything else thrown: 500

Answered == {"relaying", "noCapacity", "exhausted", "error"}

Candidate == [id : Subs, snapshot : Snapshot \cup {None}, inFlight : Nat]

TypeOK ==
  /\ latest \in [Subs -> Snapshot \cup {None}]
  /\ inFlight \in [Subs -> Nat]
  /\ now \in 0..MaxNow
  /\ active \in SUBSET Subs
  /\ pc \in [Requests -> Pc]
  /\ want \in [Requests -> (Pools \X Providers) \cup {None}]
  /\ unread \in [Requests -> SUBSET Subs]
  /\ seen \in [Requests -> SUBSET Candidate]
  /\ tried \in [Requests -> SUBSET Subs]
  /\ held \in [Requests -> Subs \cup {None}]
  /\ retried \in SUBSET Requests
  /\ sends \in [Requests -> Nat]
  /\ fit \in [Requests -> SUBSET Subs]

Init ==
  /\ Pool!Init
  /\ active = Subs
  /\ pc = [r \in Requests |-> "idle"]
  /\ want = [r \in Requests |-> None]
  /\ unread = [r \in Requests |-> {}]
  /\ seen = [r \in Requests |-> {}]
  /\ tried = [r \in Requests |-> {}]
  /\ held = [r \in Requests |-> None]
  /\ retried = {}
  /\ sends = [r \in Requests |-> 0]
  /\ fit = [r \in Requests |-> {}]

\* Subscriptions a selection made in one instant could pick from.
Fit == {s \in active : IsEligible(latest[s], now)}

\* The history of a step that may take subscriptions out of the running.
Watch == fit' = [r \in Requests |-> fit[r] \cap Fit']

Goto(r, l) == pc' = [pc EXCEPT ![r] = l]

-----------------------------------------------------------------------------
(* Selection: one query for the pool, one per candidate for its load *)

\* The key resolved to a pool, the model to a provider.
Arrive(r, w) ==
  /\ pc[r] = "idle"
  /\ want' = [want EXCEPT ![r] = w]
  /\ Goto(r, "listing")
  /\ UNCHANGED <<poolVars, active, selVars, runVars, fit>>

\* listByPool
ListByPool(w) == {s \in active : PoolOf[s] = w[1] /\ ProviderOf[s] = w[2]}

ForgetsExclude(r) == ListByPool(want[r])
Untried(r) == ListByPool(want[r]) \ tried[r]

List(r) ==
  /\ pc[r] = "listing"
  /\ unread' = [unread EXCEPT ![r] = Untried(r)]
  /\ seen' = [seen EXCEPT ![r] = {}]
  /\ fit' = [fit EXCEPT ![r] = Untried(r) \cap Fit]
  /\ Goto(r, "gathering")
  /\ UNCHANGED <<poolVars, active, want, runVars>>

\* The row of s arrives, and the counter of s is read with it.
Gather(r, s) ==
  /\ pc[r] = "gathering"
  /\ s \in unread[r]
  /\ unread' = [unread EXCEPT ![r] = @ \ {s}]
  /\ seen' = [seen EXCEPT ![r] = @ \cup
       {[id |-> s, snapshot |-> latest[s], inFlight |-> inFlight[s]]}]
  /\ UNCHANGED <<poolVars, active, pc, want, runVars, fit>>

ForgetsTried(r, s) == tried
WithTried(r, s) == [tried EXCEPT ![r] = @ \cup {s}]

\* The attempt begins: the slot is taken with the choice.
Pick(r, s) ==
  /\ pc[r] = "gathering" /\ unread[r] = {}
  /\ \E c \in Picked(seen[r], now) : c.id = s
  /\ tried' = WithTried(r, s)
  /\ held' = [held EXCEPT ![r] = s]
  /\ Pool!Increment(s)
  /\ seen' = [seen EXCEPT ![r] = {}]
  /\ fit' = [fit EXCEPT ![r] = {}]
  /\ Goto(r, "fresh")
  /\ UNCHANGED <<latest, now, active, want, unread, retried, sends>>

SomeFenced(r) == seen[r] = {} \/ \E c \in seen[r] : ~IsEligible(c.snapshot, now)
Unpickable(r) == Picked(seen[r], now) = {}

\* select throws no_capacity, which handle lets through.
Refuse(r) ==
  /\ pc[r] = "gathering" /\ unread[r] = {}
  /\ Unpickable(r)
  /\ seen' = [seen EXCEPT ![r] = {}]
  /\ Goto(r, "noCapacity")
  /\ UNCHANGED <<poolVars, active, want, unread, runVars, fit>>

-----------------------------------------------------------------------------
(* One attempt *)

ForgetsDecrement(r) ==
  /\ held' = [held EXCEPT ![r] = None]
  /\ retried' = retried \ {r}
  /\ UNCHANGED inFlight

Release(r) ==
  /\ Pool!Decrement(held[r])
  /\ held' = [held EXCEPT ![r] = None]
  /\ retried' = retried \ {r}

\* The attempt is given up: the next turn of the loop, if there is one.
FailOver(r) ==
  /\ Release(r)
  /\ Goto(r, IF Cardinality(tried[r]) < MaxAttempts THEN "listing" ELSE "exhausted")
  /\ UNCHANGED <<now, want, selVars, tried, sends>>

\* Something other than RefreshFailed is thrown: no failover, a 500.
Break(r) ==
  /\ Release(r)
  /\ Goto(r, "error")
  /\ UNCHANGED <<now, want, selVars, tried, sends>>

\* ensureFresh or refreshNow resolves and the request leaves for the upstream.
Forward(r) ==
  /\ pc[r] \in {"fresh", "renewing"}
  /\ sends' = [sends EXCEPT ![r] = @ + 1]
  /\ Goto(r, "forwarding")
  /\ UNCHANGED <<poolVars, active, want, selVars, tried, held, retried, fit>>

\* No credential to send: RefreshFailed, the row being unusable by now, or an OpenAI
\* token without an account id, for which buildOutbound returns null.
NoCredential(r) ==
  /\ pc[r] \in {"fresh", "renewing"}
  /\ \/ active' = active \ {held[r]}
     \/ want[r][2] = "openai" /\ UNCHANGED active
  /\ FailOver(r)
  /\ UNCHANGED latest
  /\ Watch

\* The token call throws something else, the network fails, or the sample
\* cannot be stored.
AttemptBreaks(r) ==
  /\ pc[r] \in {"fresh", "renewing", "forwarding"}
  /\ Break(r)
  /\ UNCHANGED <<latest, active, fit>>

Retriable(reply) == reply.http = 429 \/ reply.http >= 500

RetriesAlways(r, reply) == reply.http = 401
RetriesOnce(r, reply) == reply.http = 401 /\ r \notin retried

\* The response arrives and its sample is stored, whatever its status; then a
\* first 401 asks for a new token, a second one or an overload fails over.
Respond(r, reply) ==
  /\ pc[r] = "forwarding"
  /\ Pool!RecordLoad(held[r], reply)
  /\ UNCHANGED active
  /\ \/ /\ RetriesOnce(r, reply)
        /\ retried' = retried \cup {r}
        /\ Goto(r, "renewing")
        /\ UNCHANGED <<inFlight, now, want, selVars, tried, held, sends>>
     \/ /\ ~RetriesOnce(r, reply)
        /\ reply.http = 401 \/ Retriable(reply)
        /\ FailOver(r)
     \/ /\ ~(reply.http = 401 \/ Retriable(reply))
        /\ Goto(r, "relaying")
        /\ UNCHANGED <<inFlight, now, want, selVars, runVars>>
  /\ Watch

\* Its body is to be dropped and the cancellation throws.
CancelFails(r, reply) ==
  /\ pc[r] = "forwarding"
  /\ reply.http = 401 \/ Retriable(reply)
  /\ Pool!RecordLoad(held[r], reply)
  /\ Break(r)
  /\ UNCHANGED active
  /\ Watch

\* The adapter calls release: the response was relayed or given up.
EndRelay(r) ==
  /\ pc[r] = "relaying"
  /\ Release(r)
  /\ Goto(r, "idle")
  /\ want' = [want EXCEPT ![r] = None]
  /\ tried' = [tried EXCEPT ![r] = {}]
  /\ sends' = [sends EXCEPT ![r] = 0]
  /\ UNCHANGED <<latest, now, active, selVars, fit>>

\* The error envelope is sent.
EndError(r) ==
  /\ pc[r] \in {"noCapacity", "exhausted", "error"}
  /\ Goto(r, "idle")
  /\ want' = [want EXCEPT ![r] = None]
  /\ tried' = [tried EXCEPT ![r] = {}]
  /\ sends' = [sends EXCEPT ![r] = 0]
  /\ fit' = [fit EXCEPT ![r] = {}]
  /\ UNCHANGED <<poolVars, active, selVars, held, retried>>

-----------------------------------------------------------------------------
(* The others: the owner, the prober, time *)

Disable(s) ==
  /\ s \in active
  /\ active' = active \ {s}
  /\ UNCHANGED <<poolVars, pc, want, selVars, runVars>>
  /\ Watch

Probe(s, reply) ==
  /\ ProviderOf[s] = "anthropic"
  /\ Pool!Respond(s, reply)
  /\ UNCHANGED <<active, pc, want, selVars, runVars>>
  /\ Watch

Tick ==
  /\ Pool!Tick
  /\ UNCHANGED <<active, pc, want, selVars, runVars>>
  /\ Watch

Selecting(r) == List(r) \/ (\E s \in Subs : Gather(r, s) \/ Pick(r, s)) \/ Refuse(r)

Attempting(r) ==
  \/ Forward(r) \/ NoCredential(r) \/ AttemptBreaks(r)
  \/ \E reply \in Replies : Respond(r, reply) \/ CancelFails(r, reply)

Next ==
  \/ \E r \in Requests, w \in Pools \X Providers : Arrive(r, w)
  \/ \E r \in Requests : Selecting(r) \/ Attempting(r) \/ EndRelay(r) \/ EndError(r)
  \/ \E s \in Subs : Disable(s) \/ \E reply \in Replies : Probe(s, reply)
  \/ Tick

Spec == Init /\ [][Next]_vars

\* Engine and upstream calls end (undici bounds a silent upstream), and the
\* event loop runs what is ready.
FairSpec == Spec /\ \A r \in Requests : WF_vars(Selecting(r) \/ Attempting(r))

-----------------------------------------------------------------------------
(* Properties *)

\* Every way out of an attempt gives the slot back exactly once: the counter of
\* a subscription is the number of requests that hold it, so a leak never
\* pushes traffic away from it for good (release in handle).
InFlightAccurate == \A s \in Subs :
  inFlight[s] = Cardinality({r \in Requests : held[r] = s})

\* A request costs the upstream at most two calls per subscription tried and
\* tries at most MaxAttempts of them (the loop of handle, the 401 branch).
BoundedWork == \A r \in Requests :
  /\ Cardinality(tried[r]) <= MaxAttempts
  /\ sends[r] <= 2 * Cardinality(tried[r])

\* Although select reads the pool and the loads one by one while others write
\* them, it refuses a request only if no untried subscription of its pool was
\* in service and eligible all along (gatherCandidates, selectLeastLoaded).
RefusedOnlyWhenFenced == \A r \in Requests :
  pc[r] = "noCapacity" => fit[r] = {}

\* Every request is answered: selection and failover end (handle).
GetsAnswer == \A r \in Requests : pc[r] # "idle" ~> pc[r] \in Answered

Lease == INSTANCE SlotLease WITH
  holder <- held, spent <- tried, count <- inFlight

\* The loop implements the slot lease: one slot at a time, never the same
\* subscription twice, at most MaxAttempts, counted as it is taken.
KeepsLease == Lease!Spec
=============================================================================
