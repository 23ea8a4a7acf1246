-------------------------------- MODULE Accounts --------------------------------
(***************************************************************************)
(* AuthService: logins, the user behind an external identity, sessions.    *)
(* What a login's code is exchanged for is in Oidc.                        *)
(***************************************************************************)
EXTENDS Oidc

CONSTANTS
  MaxUsers,     \* bound on user rows
  MaxSessions   \* bound on session rows

ASSUME AccountsAssumption ==
  MaxUsers \in Nat /\ MaxSessions \in Nat

VARIABLES
  users,       \* number of users rows: a user is 1..users
  identities,  \* user_identities: the user linked to each identity, 0 for none
  sessions     \* auth_sessions; ext and from are history: who logged in, on which state

accountVars == <<users, identities, sessions>>

LoggingIn == {q \in Calls : call[q].kind = "login"}

BeginLogin ==
  /\ EngineFree
  /\ NewState("login", "none", 0)
  /\ UNCHANGED <<call, engine, faults, accountVars>>

\* GET /auth/callback with any state, one of a link or of nobody included.
Callback(r, s) ==
  /\ call[r].at = "idle"
  /\ Len(sessions) + Cardinality(LoggingIn) < MaxSessions
  /\ users + Cardinality(LoggingIn) < MaxUsers
  /\ Become(r, [Idle EXCEPT !.at = "consume", !.kind = "login", !.item = s])
  /\ UNCHANGED <<pkce, engine, faults, accountVars>>

\* exchangeCode verified an id token of the identity e.
Identify(r, e) ==
  /\ call[r].at = "exchange" /\ call[r].kind = "login"
  /\ <<call[r].item, e>> \in Identified
  /\ Become(r, [call[r] EXCEPT !.at = "lookup", !.ext = e])
  /\ UNCHANGED <<pkce, engine, faults, accountVars>>

\* findByExternal
Lookup(r) ==
  LET known == identities[call[r].ext] IN
  /\ call[r].at = "lookup"
  /\ EngineFree
  /\ IF known # 0
       THEN Become(r, [call[r] EXCEPT !.at = "session", !.user = known])
       ELSE Goto(r, "newUser")
  /\ UNCHANGED <<pkce, engine, faults, accountVars>>

InsertUser(r) ==
  /\ call[r].at = "newUser"
  /\ EngineFree
  /\ users' = users + 1
  /\ Become(r, [call[r] EXCEPT !.at = "identity", !.user = users + 1])
  /\ UNCHANGED <<pkce, engine, faults, identities, sessions>>

NoUniqueIndex(e) == FALSE

\* UNIQUE(issuer, subject)
Taken(e) == identities[e] # 0

\* link: the loser of two first logins is answered with the violated constraint.
LinkIdentity(r) ==
  LET e == call[r].ext IN
  /\ call[r].at = "identity"
  /\ EngineFree
  /\ IF Taken(e)
       THEN Answer(r) /\ UNCHANGED identities
       ELSE /\ identities' = [identities EXCEPT ![e] = call[r].user]
            /\ Goto(r, "session")
  /\ UNCHANGED <<pkce, engine, faults, users, sessions>>

OpenSession(r) ==
  /\ call[r].at = "session"
  /\ EngineFree
  /\ sessions' = Append(sessions, [user |-> call[r].user, ext |-> call[r].ext,
                                   from |-> call[r].item, ended |-> FALSE])
  /\ Answer(r)
  /\ UNCHANGED <<pkce, engine, faults, users, identities>>

\* logout revokes the session, or the clock passes expiresAt: it resolves no more.
EndSession(i) ==
  /\ EngineFree
  /\ ~sessions[i].ended
  /\ sessions' = [sessions EXCEPT ![i].ended = TRUE]
  /\ UNCHANGED <<pkce, call, engine, faults, users, identities>>

\* requireSession: a live session lets the call in as its user, to read the body.
Authenticate(r, i) ==
  /\ call[r].at = "idle"
  /\ EngineFree
  /\ ~sessions[i].ended
  /\ Become(r, [Idle EXCEPT !.at = "body", !.kind = "api", !.user = sessions[i].user])
  /\ UNCHANGED <<pkce, engine, faults, accountVars>>

LogIn(r) ==
  \/ \E e \in Externals : Identify(r, e)
  \/ Lookup(r) \/ InsertUser(r) \/ LinkIdentity(r) \/ OpenSession(r)
=============================================================================
