----------------------------- MODULE TokenManager -----------------------------
(***************************************************************************)
(* The OAuth token lifecycle of subscription-oauth: callers (proxied       *)
(* requests and the load prober) take a snapshot of a subscription row and *)
(* ask for a usable access token; a refresh is one promise per             *)
(* subscription, which spends the snapshot's refresh token at the          *)
(* provider, persists the rotated pair and only then resolves.             *)
(*                                                                         *)
(* A token pair is its GENERATION: the provider accepts the refresh token  *)
(* of its current generation and answers with the next one, which retires  *)
(* the one before.  Every await of the code is a step boundary here.       *)
(***************************************************************************)
EXTENDS Naturals

CONSTANTS
  Subs,       \* subscription rows
  Requests,   \* proxied requests: select a row, may refresh again on a 401
  Probers,    \* load-prober sweeps: list ids, then load the row again
  None,       \* "no subscription", "no promise"
  MaxGen,     \* bound: no refresh is asked for at this generation
  MaxFaults   \* bound on crashes, lost replies, refusals and failed writes

Callers == Requests \cup Probers

ASSUME TokenManagerAssumption ==
  /\ Requests \cap Probers = {}
  /\ None \notin Subs \cup Callers
  /\ MaxGen \in Nat \ {0}
  /\ MaxFaults \in Nat

VARIABLES
  status,     \* subscriptions.status of each row
  stored,     \* generation of the token pair in the row
  live,       \* generation the provider honours (its side of the grant)
  aged,       \* access tokens up to this generation are within the expiry skew
  inflight,   \* TokenManager.inflight: the caller whose promise is registered
  stage,      \* progress of the doRefresh started by a caller
  grant,      \* generation the provider handed to that doRefresh
  pc, sub, snap, token, on, retried,  \* the callers: see TypeOK
  faults,     \* faults so far
  orphaned    \* history: rows whose rotated grant a crash or a failed mark lost

rowVars  == <<status, stored>>
envVars  == <<live, aged>>
runVars  == <<inflight, stage, grant>>
callVars == <<pc, sub, snap, token, on, retried>>
histVars == <<faults, orphaned>>
vars     == <<rowVars, envVars, runVars, callVars, histVars>>

Status == {"active", "disabled", "unusable"}
Stage  == {"none",      \* no promise
           "calling",   \* awaiting provider.refresh
           "granted",   \* the grant arrived, updateTokens is next
           "refused",   \* in the catch block, markUnusable is next
           "stored", "failed", "broken"}  \* settled, finally is next
Settled == {"stored", "failed", "broken"}
Pc == {"idle",
       "listed",    \* a prober that holds an id and no row yet
       "held",      \* holds a row, about to call ensureFresh
       "waiting",   \* awaits the promise of the caller on[c]
       "using",     \* was given an access token
       "failed",    \* was thrown RefreshFailed
       "broken"}    \* was thrown the error of markUnusable itself
Gens == 0..MaxGen

TypeOK ==
  /\ status \in [Subs -> Status]
  /\ stored \in [Subs -> Gens]
  /\ live \in [Subs -> Gens]
  /\ aged \in [Subs -> Gens]
  /\ inflight \in [Subs -> Callers \cup {None}]
  /\ stage \in [Callers -> Stage]
  /\ grant \in [Callers -> Gens]
  /\ pc \in [Callers -> Pc]
  /\ sub \in [Callers -> Subs \cup {None}]   \* the row a caller works with
  /\ snap \in [Callers -> Gens]              \* its generation when it was read
  /\ token \in [Callers -> Gens]             \* the access token it was given
  /\ on \in [Callers -> Callers \cup {None}] \* whose promise it awaits
  /\ retried \in SUBSET Callers              \* those past their reactive refresh
  /\ faults \in 0..MaxFaults
  /\ orphaned \in SUBSET Subs

Init ==
  /\ status = [s \in Subs |-> "active"]
  /\ stored = [s \in Subs |-> 1]
  /\ live = [s \in Subs |-> 1]
  /\ aged = [s \in Subs |-> 0]
  /\ inflight = [s \in Subs |-> None]
  /\ stage = [c \in Callers |-> "none"]
  /\ grant = [c \in Callers |-> 0]
  /\ pc = [c \in Callers |-> "idle"]
  /\ sub = [c \in Callers |-> None]
  /\ snap = [c \in Callers |-> 0]
  /\ token = [c \in Callers |-> 0]
  /\ on = [c \in Callers |-> None]
  /\ retried = {}
  /\ faults = 0
  /\ orphaned = {}

Fault == faults < MaxFaults /\ faults' = faults + 1

-----------------------------------------------------------------------------
(* The callers *)

\* A request is handed a row that listByPool returned: active when it was read.
Select(c, s) ==
  /\ c \in Requests
  /\ pc[c] = "idle"
  /\ status[s] = "active"
  /\ pc' = [pc EXCEPT ![c] = "held"]
  /\ sub' = [sub EXCEPT ![c] = s]
  /\ snap' = [snap EXCEPT ![c] = stored[s]]
  /\ UNCHANGED <<rowVars, envVars, runVars, token, on, retried, histVars>>

\* The sweep keeps only the id of an active row ...
ListActive(c, s) ==
  /\ c \in Probers
  /\ pc[c] = "idle"
  /\ status[s] = "active"
  /\ pc' = [pc EXCEPT ![c] = "listed"]
  /\ sub' = [sub EXCEPT ![c] = s]
  /\ UNCHANGED <<rowVars, envVars, runVars, snap, token, on, retried, histVars>>

\* ... and loads the row when its turn comes, whatever its status is by then.
FindById(c) ==
  /\ pc[c] = "listed"
  /\ pc' = [pc EXCEPT ![c] = "held"]
  /\ snap' = [snap EXCEPT ![c] = stored[sub[c]]]
  /\ UNCHANGED <<rowVars, envVars, runVars, sub, token, on, retried, histVars>>

NeverCoalesces(s) == None

\* The promise a refresher of s would share.
Existing(s) == inflight[s]

\* refresh: join the registered promise, or start one and register it.
Refresh(c) ==
  LET s == sub[c] IN
  /\ pc' = [pc EXCEPT ![c] = "waiting"]
  /\ \/ /\ Existing(s) # None
        /\ on' = [on EXCEPT ![c] = Existing(s)]
        /\ UNCHANGED runVars
     \/ /\ Existing(s) = None
        /\ on' = [on EXCEPT ![c] = c]
        /\ inflight' = [inflight EXCEPT ![s] = c]
        /\ stage' = [stage EXCEPT ![c] = "calling"]
        /\ UNCHANGED grant

\* ensureFresh judges the snapshot, not the row as it is now.
EnsureFresh(c) ==
  /\ pc[c] = "held"
  /\ \/ /\ snap[c] > aged[sub[c]]
        /\ pc' = [pc EXCEPT ![c] = "using"]
        /\ token' = [token EXCEPT ![c] = snap[c]]
        /\ UNCHANGED <<runVars, on>>
     \/ /\ snap[c] <= aged[sub[c]]
        /\ Refresh(c)
        /\ UNCHANGED token
  /\ UNCHANGED <<rowVars, envVars, sub, snap, retried, histVars>>

\* The upstream answered 401: refresh once more, with the same snapshot.
RefreshNow(c) ==
  /\ c \in Requests \ retried
  /\ pc[c] = "using"
  /\ snap[c] < MaxGen
  /\ retried' = retried \cup {c}
  /\ Refresh(c)
  /\ UNCHANGED <<rowVars, envVars, sub, snap, token, histVars>>

\* The attempt is over: the response was relayed, or the caller failed over.
Release(c) ==
  /\ pc[c] \in {"using", "failed", "broken"}
  /\ pc' = [pc EXCEPT ![c] = "idle"]
  /\ sub' = [sub EXCEPT ![c] = None]
  /\ snap' = [snap EXCEPT ![c] = 0]
  /\ token' = [token EXCEPT ![c] = 0]
  /\ retried' = retried \ {c}
  /\ UNCHANGED <<rowVars, envVars, runVars, on, histVars>>

-----------------------------------------------------------------------------
(* The token endpoint: accepts the live generation, and only that one *)

Rotate(c) ==
  /\ stage[c] = "calling"
  /\ snap[c] = live[sub[c]]
  /\ live' = [live EXCEPT ![sub[c]] = @ + 1]
  /\ grant' = [grant EXCEPT ![c] = live[sub[c]] + 1]
  /\ stage' = [stage EXCEPT ![c] = "granted"]
  /\ UNCHANGED <<rowVars, aged, inflight, callVars, histVars>>

\* The presented refresh token was already spent.
RefuseSpent(c) ==
  /\ stage[c] = "calling"
  /\ snap[c] # live[sub[c]]
  /\ stage' = [stage EXCEPT ![c] = "refused"]
  /\ UNCHANGED <<rowVars, envVars, inflight, grant, callVars, histVars>>

\* The grant was revoked, the endpoint failed, or the request never reached it.
RefuseLive(c) ==
  /\ stage[c] = "calling"
  /\ snap[c] = live[sub[c]]
  /\ Fault
  /\ stage' = [stage EXCEPT ![c] = "refused"]
  /\ UNCHANGED <<rowVars, envVars, inflight, grant, callVars, orphaned>>

\* The endpoint rotated and its reply was lost or incomplete.
LoseReply(c) ==
  /\ stage[c] = "calling"
  /\ snap[c] = live[sub[c]]
  /\ Fault
  /\ live' = [live EXCEPT ![sub[c]] = @ + 1]
  /\ stage' = [stage EXCEPT ![c] = "refused"]
  /\ UNCHANGED <<rowVars, aged, inflight, grant, callVars, orphaned>>

-----------------------------------------------------------------------------
(* The rest of doRefresh *)

KeepsOldRefreshToken(c) == stored
PersistedGrant(c) == [stored EXCEPT ![sub[c]] = grant[c]]

Reactivates(s) == [status EXCEPT ![s] = "active"]
StatusAfterUpdate(s) == status

UpdateTokens(c) ==
  /\ stage[c] = "granted"
  /\ stored' = PersistedGrant(c)
  /\ status' = StatusAfterUpdate(sub[c])
  /\ stage' = [stage EXCEPT ![c] = "stored"]
  /\ UNCHANGED <<envVars, inflight, grant, callVars, histVars>>

UpdateTokensFails(c) ==
  /\ stage[c] = "granted"
  /\ Fault
  /\ stage' = [stage EXCEPT ![c] = "refused"]
  /\ UNCHANGED <<rowVars, envVars, inflight, grant, callVars, orphaned>>

ForgetsToMark(s) == status
MarksExpired(s) == [status EXCEPT ![s] = "expired"]
MarkedUnusable(s) == [status EXCEPT ![s] = "unusable"]

\* markUnusable overwrites whatever status the row has.
MarkUnusable(c) ==
  /\ stage[c] = "refused"
  /\ status' = MarkedUnusable(sub[c])
  /\ stage' = [stage EXCEPT ![c] = "failed"]
  /\ UNCHANGED <<stored, envVars, inflight, grant, callVars, histVars>>

MarkUnusableFails(c) ==
  /\ stage[c] = "refused"
  /\ Fault
  /\ stage' = [stage EXCEPT ![c] = "broken"]
  /\ orphaned' = orphaned \cup {sub[c]}
  /\ UNCHANGED <<rowVars, envVars, inflight, grant, callVars>>

ResolvesBeforeStore(c) == stage[c] \in Settled \cup {"granted"}
CanSettle(c) == stage[c] \in Settled

DeletesOnSuccessOnly(c) ==
  IF stage[c] = "stored" THEN [inflight EXCEPT ![sub[c]] = None] ELSE inflight
AfterFinally(c) == [inflight EXCEPT ![sub[c]] = None]

WakesOwnerOnly(c) == {w \in Callers : pc[w] = "waiting" /\ w = c}
Waiters(c) == {w \in Callers : pc[w] = "waiting" /\ on[w] = c}

\* The promise settles: finally deletes the entry, then every waiter resumes.
Settle(c) ==
  /\ CanSettle(c)
  /\ inflight' = AfterFinally(c)
  /\ stage' = [stage EXCEPT ![c] = "none"]
  /\ grant' = [grant EXCEPT ![c] = 0]
  /\ pc' = [w \in Callers |->
              IF w \notin Waiters(c) THEN pc[w]
              ELSE CASE stage[c] = "failed" -> "failed"
                     [] stage[c] = "broken" -> "broken"
                     [] OTHER -> "using"]
  /\ token' = [w \in Callers |->
                 IF w \in Waiters(c) /\ stage[c] \notin {"failed", "broken"}
                 THEN grant[c] ELSE token[w]]
  /\ on' = [w \in Callers |-> IF w \in Waiters(c) THEN None ELSE on[w]]
  /\ UNCHANGED <<rowVars, envVars, sub, snap, retried, histVars>>

-----------------------------------------------------------------------------
(* Time, the owner, and the process *)

\* Time passes: the access tokens up to generation g near their expiry.
Age(s, g) ==
  /\ aged[s] < g /\ g <= live[s] /\ g < MaxGen
  /\ aged' = [aged EXCEPT ![s] = g]
  /\ UNCHANGED <<rowVars, live, runVars, callVars, histVars>>

\* SubscriptionsService.disable
Disable(s) ==
  /\ status[s] # "disabled"
  /\ status' = [status EXCEPT ![s] = "disabled"]
  /\ UNCHANGED <<stored, envVars, runVars, callVars, histVars>>

\* The process dies and restarts: rows and the provider's side survive.  A
\* request that had left may still be honoured: `late` are its rows.
Crash(late) ==
  /\ Fault
  /\ live' = [s \in Subs |-> IF s \in late THEN live[s] + 1 ELSE live[s]]
  /\ orphaned' = orphaned \cup {s \in Subs : stored[s] # live'[s]}
  /\ inflight' = [s \in Subs |-> None]
  /\ stage' = [c \in Callers |-> "none"]
  /\ grant' = [c \in Callers |-> 0]
  /\ pc' = [c \in Callers |-> "idle"]
  /\ sub' = [c \in Callers |-> None]
  /\ snap' = [c \in Callers |-> 0]
  /\ token' = [c \in Callers |-> 0]
  /\ on' = [c \in Callers |-> None]
  /\ retried' = {}
  /\ UNCHANGED <<rowVars, aged>>

Redeemable(s) == \E c \in Callers :
  stage[c] = "calling" /\ sub[c] = s /\ snap[c] = live[s]

-----------------------------------------------------------------------------
Progress(c) ==
  \/ FindById(c) \/ EnsureFresh(c)
  \/ Rotate(c) \/ RefuseSpent(c)
  \/ UpdateTokens(c) \/ MarkUnusable(c) \/ Settle(c)

Next ==
  \/ \E c \in Callers, s \in Subs : Select(c, s) \/ ListActive(c, s)
  \/ \E c \in Callers : Progress(c)
  \/ \E c \in Callers : RefreshNow(c) \/ Release(c)
  \/ \E c \in Callers : RefuseLive(c) \/ LoseReply(c)
  \/ \E c \in Callers : UpdateTokensFails(c) \/ MarkUnusableFails(c)
  \/ \E s \in Subs : Disable(s)
  \/ \E s \in Subs, g \in Gens : Age(s, g)
  \/ \E late \in SUBSET {s \in Subs : Redeemable(s)} : Crash(late)

Spec == Init /\ [][Next]_vars

\* fetch carries default header and body timeouts and an engine call returns or
\* rejects, so every await of doRefresh ends; the event loop runs what is ready.
FairSpec == Spec /\ \A c \in Callers : WF_vars(Progress(c))

-----------------------------------------------------------------------------
(* Properties *)

\* Single flight: two refreshes of one subscription never overlap, so one grant
\* is never presented by two promises at a time (the inflight map of refresh).
SingleFlight == \A c, d \in Callers :
  stage[c] # "none" /\ stage[d] # "none" /\ sub[c] = sub[d] => c = d

\* A registered promise is one that is still running, and a running one is
\* registered: no entry outlives its promise, which would hand every later
\* refresher a dead result (the finally of refresh).
NoWedgedEntry ==
  /\ \A s \in Subs : inflight[s] # None =>
        stage[inflight[s]] # "none" /\ sub[inflight[s]] = s
  /\ \A c \in Callers : stage[c] # "none" => inflight[sub[c]] = c

\* A rotated token is persisted before the promise resolves: nobody works with
\* a token whose grant the row does not hold yet (doRefresh's order of awaits).
PersistedBeforeUse == \A c \in Callers :
  pc[c] = "using" => token[c] <= stored[sub[c]]

\* An active row whose refresh token is dead is about to be repaired or marked,
\* unless a crash or the failure of markUnusable itself left it behind.
DeadGrantFenced == \A s \in Subs :
  status[s] = "active" /\ stored[s] # live[s] =>
    \/ s \in orphaned
    \/ \E c \in Callers : sub[c] = s /\ stage[c] \in {"granted", "refused"}

\* A subscription taken out of service (disabled, unusable) stays out, whatever
\* refresh was already in flight when it was taken out.
NeverRevived ==
  [][\A s \in Subs : status[s] # "active" => status'[s] # "active"]_vars

\* Every refresher is answered: joined or not, through success or failure.
RefresherAnswered == \A c \in Callers : pc[c] = "waiting" ~> pc[c] # "waiting"

\* Where the redeemable refresh token of s is: in the row, in the hands of a
\* doRefresh between the provider's reply and updateTokens, or nowhere.
Place(s) ==
  IF stored[s] = live[s] THEN "row"
  ELSE IF \E c \in Callers :
            sub[c] = s /\ stage[c] = "granted" /\ grant[c] = live[s] THEN "hand"
  ELSE "lost"

Custody == INSTANCE GrantCustody WITH
  place <- [s \in Subs |-> Place(s)],
  inService <- {s \in Subs : status[s] = "active"},
  mishaps <- faults

\* The lifecycle implements the custody promise: a rotated token goes from the
\* provider through one doRefresh to the row, and only a fault drops it.
KeepsCustody == Custody!Spec

\* TokenManager.ts:4-5: of concurrent refreshers of one grant only one reaches
\* the token endpoint.  Refuted: refreshers that hold the same row at the same
\* time share a promise only while it is pending; the one whose 401 comes later
\* presents the refresh token the other has already spent.
EndpointHitOnce == \A c, d \in Callers :
  /\ c # d /\ stage[c] = "calling"
  /\ sub[c] = sub[d] /\ snap[c] = snap[d]
  => token[d] <= snap[d]
=============================================================================
