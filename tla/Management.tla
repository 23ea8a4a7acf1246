-------------------------------- MODULE Management --------------------------------
(***************************************************************************)
(* The management server: logins, and behind a session the linking of      *)
(* subscriptions, over one storage engine.  Calls interleave at every      *)
(* await; storage operations fail and the process dies anywhere.           *)
(***************************************************************************)
EXTENDS Linking

vars == <<pkce, call, engine, faults, accountVars, subs>>

At == {"idle",
       "body",      \* authenticated, about to read its body
       "consume", "mark", "commit",            \* PkceStore
       "exchange",  \* the provider's token endpoint
       "lookup", "newUser", "identity", "session",  \* Accounts
       "verify", "add", "disable"}             \* Linking

Frame == [at : At, kind : {"none", "login", "api", "subscription"}, user : Nat,
          item : Nat, ext : Externals \cup {None}, good : BOOLEAN,
          tries : 0..(VerifyAttempts - 1)]

StateRow == [kind : {"login", "subscription"}, pool : {"none", "user", "donor"},
             owner : Nat, spent : BOOLEAN, redeemed : Nat]
SessionRow == [user : Nat, ext : Externals, from : Nat, ended : BOOLEAN]
SubRow == [pool : {"none", "user", "donor"}, owner : Nat, from : Nat,
           good : BOOLEAN, active : BOOLEAN]

\* What each variable may hold: in particular no credential is tried more than
\* verifyAttempts times before its link is given up (verifyGrant).
TypeOK ==
  /\ pkce \in Seq(StateRow)
  /\ call \in [Calls -> Frame]
  /\ engine \in Calls \cup {None}
  /\ faults \in 0..MaxFaults
  /\ users \in Nat
  /\ identities \in [Externals -> Nat]
  /\ sessions \in Seq(SessionRow)
  /\ subs \in Seq(SubRow)

Init ==
  /\ pkce = <<>>
  /\ call = [r \in Calls |-> Idle]
  /\ engine = None
  /\ faults = 0
  /\ users = 0
  /\ identities = [e \in Externals |-> 0]
  /\ sessions = <<>>
  /\ subs = <<>>

\* A body that does not parse, an unknown route, or one of the listings.
OtherRequest(r) ==
  /\ call[r].at = "body"
  /\ Answer(r)
  /\ UNCHANGED <<pkce, engine, faults, accountVars, subs>>

\* A storage operation of its own throws: 500, and what was done before stays done.
StorageFails(r) ==
  /\ call[r].at \in {"consume", "lookup", "newUser", "identity", "session",
                     "add", "disable"}
  /\ EngineFree
  /\ Fault
  /\ Answer(r)
  /\ UNCHANGED <<pkce, engine, accountVars, subs>>

\* The process dies and starts again: open transactions are gone, rows stay.
Crash ==
  /\ Fault
  /\ call' = [r \in Calls |-> Idle]
  /\ engine' = None
  /\ UNCHANGED <<pkce, accountVars, subs>>

\* What a call in progress does of itself.
Proceed(r) ==
  \/ Consume(r) /\ UNCHANGED <<accountVars, subs>>
  \/ LogIn(r) /\ UNCHANGED subs
  \/ Link(r)
  \/ OtherRequest(r)

\* What the authenticated call turns out to ask for.
Ask(r) ==
  \/ \E pool \in {"user", "donor"} : BeginLink(r, pool)
  \/ \E s \in 1..MaxStates : CompleteLink(r, s)
  \/ \E i \in DOMAIN subs : FindSub(r, i)

Arrive(r) ==
  \/ \E s \in 1..MaxStates : Callback(r, s)
  \/ \E i \in DOMAIN sessions : Authenticate(r, i)

Next ==
  \/ BeginLogin /\ UNCHANGED subs
  \/ \E i \in DOMAIN sessions : EndSession(i) /\ UNCHANGED subs
  \/ \E r \in Calls : Arrive(r) /\ UNCHANGED subs
  \/ \E r \in Calls : Ask(r)
  \/ \E r \in Calls : Proceed(r)
  \/ \E r \in Calls : Rollback(r) /\ UNCHANGED <<accountVars, subs>>
  \/ \E r \in Calls : StorageFails(r)
  \/ Crash

Spec == Init /\ [][Next]_vars

\* Providers answer or time out, and the promise chain is first come, first
\* served: an operation whose turn keeps coming is run.
Fairness == \A r \in Calls : SF_vars(Proceed(r))

FairSpec == Spec /\ Fairness

-----------------------------------------------------------------------------
\* A state is redeemed once, whatever callbacks bring it and however they
\* interleave, fail or are cut off (SqlitePkceSessionRepository.consume).
RedeemedOnce == \A s \in DOMAIN pkce : pkce[s].redeemed <= 1

\* Past the redemption of a state: what a call may still make of it.
UnderWay == {"exchange", "lookup", "newUser", "identity", "session", "verify", "add"}

Carried(s) == \E r \in Calls : call[r].at \in UnderWay /\ call[r].item = s

\* The state that each session and each subscription comes from.
opened == [i \in DOMAIN sessions |-> sessions[i].from]
added == [i \in DOMAIN subs |-> subs[i].from]

Yielded(s) ==
  \/ \E i \in DOMAIN sessions : sessions[i].from = s
  \/ \E i \in DOMAIN subs : subs[i].from = s

\* What has become of a state, read off the rows and the calls.
Fate(s) ==
  IF s \notin DOMAIN pkce THEN "unmade"
  ELSE IF ~pkce[s].spent THEN "open"
  ELSE IF Yielded(s) THEN "used"
  ELSE IF Carried(s) THEN "held"
  ELSE "void"
FlowOf(s) == IF s \in DOMAIN pkce THEN pkce[s].kind ELSE "none"

States == INSTANCE OneTimeState WITH
  States <- 1..MaxStates,
  flow <- [s \in 1..MaxStates |-> FlowOf(s)],
  fate <- [s \in 1..MaxStates |-> Fate(s)]

\* On SQLite, logins and links implement the one-time states: a state gives one
\* session or one subscription or nothing, and is never open again, whoever brings
\* it back and how often, and wherever its flow fails or is cut off.
KeepsStates == States!Spec

\* create-or-link: every session of an identity, also of one that logs in twice
\* for the first time, is a session of the user linked to it (resolveOrCreateUser).
OneUserPerIdentity ==
  \A i \in DOMAIN sessions :
    sessions[i].user # 0 /\ identities[sessions[i].ext] = sessions[i].user

\* A session belongs to somebody who logged in at the issuer on the URL of the very
\* state that its callback redeemed: a token of another login, of another client or
\* of another signer opens none (verifyIdToken, completeLogin).
SessionIsTheirs ==
  \A i \in DOMAIN sessions : <<sessions[i].from, sessions[i].ext>> \in Authenticated

\* A subscription lands in the pool its link was begun for, with the user who
\* began it as owner, or without one in the donor pool, whoever completes it.
LandsInItsPool ==
  \A i \in DOMAIN subs :
    LET begun == pkce[subs[i].from] IN
    /\ begun.kind = "subscription" /\ begun.spent
    /\ subs[i].pool = begun.pool /\ subs[i].owner = begun.owner
    /\ subs[i].pool = "user" <=> subs[i].owner # 0

\* No subscription exists whose credential the provider did not accept, after
\* any number of inconclusive attempts (completeLink).
OnlyVerifiedJoin == \A i \in DOMAIN subs : subs[i].good

\* A subscription that changes is taken out of service, and by a call that has
\* authenticated as its owner (disable): not by another user, and a donated one
\* by nobody.
OwnersOnly ==
  [][\A i \in DOMAIN subs :
       subs'[i] # subs[i] =>
         /\ subs'[i] = [subs[i] EXCEPT !.active = FALSE]
         /\ subs[i].owner # 0
         /\ \E r \in Calls : call[r].at = "disable" /\ call[r].user = subs[i].owner]_vars

\* Every call is answered: no failed transaction stops the operations behind it
\* (SqliteEngine.enqueue), and verification gives up (verifyGrant).
CallAnswered == \A r \in Calls : call[r].at # "idle" ~> call[r].at = "idle"
=============================================================================
