--------------------------- MODULE ManagementProofs ---------------------------
(***************************************************************************)
(* Proofs about Management for any number of calls, users, identities,     *)
(* states, subscriptions and faults.                                       *)
(*                                                                         *)
(* Fits says what is true of a call's frame wherever it has come to;       *)
(* RowsStay, that no step takes from a row what a frame relies on.  With   *)
(* the two, Sound is inductive, on either engine.  That a state is         *)
(* redeemed once needs the chain on top (Redemption): what the SELECT of a *)
(* transaction found is still so when it commits, because no other one     *)
(* runs meanwhile.  Tickets carries that on to the rows a state yields;    *)
(* CallLeft counts the steps to an answer, and ChainMoves says that the    *)
(* chain comes to each of them.                                            *)
(***************************************************************************)
EXTENDS Management, SequenceTheorems, TLAPS

USE PkceStoreAssumption, OidcAssumption, AccountsAssumption, LinkingAssumption
USE DEF PkceStoreAssumption, OidcAssumption, AccountsAssumption, LinkingAssumption

\* The checks of verifyIdToken leave the logins that took place: what the issuer's
\* key has signed, for this client, with the nonce of this state.
LEMMA IdentifiedLoggedIn == Identified \subseteq Authenticated
<1> SUFFICES ASSUME NEW s \in 1..MaxStates, NEW t \in IdToken, NEW jwks \in Served,
                    Vouched(t), Verified(t, jwks, s)
             PROVE  <<s, t.ext>> \in Authenticated
  BY DEF Identified
<1>1. PICK i \in DOMAIN jwks : jwks[i].key = t.key
  BY DEF Verified, SignatureValid
<1>2. jwks[i] \in [kid : Kids \cup {None}, key : IssuerKeys]
  BY LenProperties, ElementOfSeq
<1>3. t.key # None
  BY <1>1, <1>2
<1> QED BY <1>3 DEF Vouched, Verified, NonceMatches

LEMMA IdleType == Idle \in Frame
  BY DEF Idle, Frame, At

LEMMA TypeInit == Init => TypeOK
  BY IdleType, EmptySeq DEF Init, TypeOK

LEMMA BecomeType ==
  ASSUME TypeOK, NEW r \in Calls, NEW f \in Frame, Become(r, f)
  PROVE  call' \in [Calls -> Frame]
  BY DEF TypeOK, Become

LEMMA AnswerType ==
  ASSUME TypeOK, NEW r \in Calls, Answer(r)
  PROVE  call' \in [Calls -> Frame]
  BY IdleType, BecomeType DEF Answer

LEMMA GotoType ==
  ASSUME TypeOK, NEW r \in Calls, NEW a \in At, Goto(r, a)
  PROVE  call' \in [Calls -> Frame]
<1>1. call[r] \in Frame
  BY DEF TypeOK
<1>2. [call[r] EXCEPT !.at = a] \in Frame
  BY <1>1 DEF Frame
<1> QED BY <1>2, BecomeType DEF Goto

LEMMA NewStateType ==
  ASSUME TypeOK, NEW kind \in {"login", "subscription"},
         NEW pool \in {"none", "user", "donor"}, NEW owner \in Nat,
         NewState(kind, pool, owner)
  PROVE  pkce' \in Seq(StateRow)
<1> DEFINE row == [kind |-> kind, pool |-> pool, owner |-> owner,
                   spent |-> FALSE, redeemed |-> 0]
<1>1. row \in StateRow
  BY DEF StateRow
<1>2. pkce' = Append(pkce, row)
  BY DEF NewState
<1> HIDE DEF row
<1> QED BY <1>1, <1>2, AppendProperties DEF TypeOK

\* A row that changes keeps its type.
LEMMA StateType ==
  ASSUME TypeOK, NEW s \in DOMAIN pkce, NEW n \in Nat
  PROVE  /\ pkce[s] \in StateRow
         /\ [pkce[s] EXCEPT !.spent = TRUE, !.redeemed = n] \in StateRow
<1>1. pkce \in Seq(StateRow) /\ s \in 1..Len(pkce)
  BY LenProperties DEF TypeOK
<1>2. pkce[s] \in StateRow
  BY <1>1, ElementOfSeq
<1>3. [pkce[s] EXCEPT !.spent = TRUE, !.redeemed = n] \in StateRow
  BY <1>2 DEF StateRow
<1> QED BY <1>2, <1>3

LEMMA SessionType ==
  ASSUME TypeOK, NEW i \in DOMAIN sessions
  PROVE  /\ sessions[i] \in SessionRow
         /\ [sessions EXCEPT ![i].ended = TRUE] \in Seq(SessionRow)
<1> DEFINE a == [sessions[i] EXCEPT !.ended = TRUE]
<1>1. sessions \in Seq(SessionRow) /\ i \in 1..Len(sessions)
  BY LenProperties DEF TypeOK
<1>2. sessions[i] \in SessionRow
  BY <1>1, ElementOfSeq
<1>3. a \in SessionRow
  BY <1>2 DEF SessionRow
<1>4. [sessions EXCEPT ![i].ended = TRUE] = [sessions EXCEPT ![i] = a]
  BY <1>1, <1>2 DEF SessionRow
<1> HIDE DEF a
<1> QED BY <1>1, <1>2, <1>3, <1>4, ExceptSeq

LEMMA SubType ==
  ASSUME TypeOK, NEW i \in DOMAIN subs
  PROVE  /\ subs[i] \in SubRow
         /\ [subs EXCEPT ![i].active = FALSE] \in Seq(SubRow)
<1> DEFINE a == [subs[i] EXCEPT !.active = FALSE]
<1>1. subs \in Seq(SubRow) /\ i \in 1..Len(subs)
  BY LenProperties DEF TypeOK
<1>2. subs[i] \in SubRow
  BY <1>1, ElementOfSeq
<1>3. a \in SubRow
  BY <1>2 DEF SubRow
<1>4. [subs EXCEPT ![i].active = FALSE] = [subs EXCEPT ![i] = a]
  BY <1>1, <1>2 DEF SubRow
<1> HIDE DEF a
<1> QED BY <1>1, <1>2, <1>3, <1>4, ExceptSeq

\* What a call holds on to exists: the row of the state it redeems, the identity
\* it logs in with, the subscription it is about to disable.
Held ==
  \A r \in Calls :
    /\ call[r].at \in {"mark", "commit", "exchange", "verify", "add"}
         => call[r].item \in DOMAIN pkce
    /\ call[r].at \in {"lookup", "newUser", "identity", "session"}
         => call[r].ext \in Externals
    /\ call[r].at = "disable" => call[r].item \in DOMAIN subs

LEMMA FaultType ==
  ASSUME TypeOK, Fault
  PROVE  faults' \in 0..MaxFaults
  BY DEF TypeOK, Fault

LEMMA ConsumeType ==
  ASSUME TypeOK, Held, NEW r \in Calls,
         Consume(r) \/ Rollback(r), UNCHANGED <<accountVars, subs>>
  PROVE  TypeOK'
<1> USE DEF accountVars
<1>f. call[r] \in Frame
  BY DEF TypeOK
<1>1. CASE Select(r)
  <2>1. call' \in [Calls -> Frame]
    BY <1>1, AnswerType, GotoType DEF Select, At
  <2>2. engine' \in Calls \cup {None}
    BY <1>1 DEF Select, TypeOK
  <2> QED BY <1>1, <2>1, <2>2 DEF Select, TypeOK
<1>2. CASE Mark(r)
  <2>1. call' \in [Calls -> Frame]
    BY <1>2, GotoType DEF Mark, At
  <2> QED BY <1>2, <2>1 DEF Mark, TypeOK
<1>3. CASE Commit(r)
  <2> DEFINE s == call[r].item
             mine == pkce[s].kind = call[r].kind
             n == IF mine THEN pkce[s].redeemed + 1 ELSE pkce[s].redeemed
             row == [pkce[s] EXCEPT !.spent = TRUE, !.redeemed = n]
  <2>1. s \in DOMAIN pkce
    BY <1>3 DEF Commit, Held
  <2>2. pkce[s] \in StateRow
    BY <2>1, StateType
  <2>3. n \in Nat
    BY <2>2 DEF StateRow
  <2>4. row \in StateRow
    BY <2>1, <2>3, StateType
  <2>5. pkce' = [pkce EXCEPT ![s] = row]
    BY <1>3, <2>2 DEF Commit, StateRow
  <2>6. pkce' \in Seq(StateRow)
    <3> HIDE DEF row, s
    <3>1. s \in 1..Len(pkce) /\ pkce \in Seq(StateRow)
      BY <2>1, LenProperties DEF TypeOK
    <3> QED BY <2>4, <2>5, <3>1, ExceptSeq
  <2>7. call' \in [Calls -> Frame]
    BY <1>3, AnswerType, GotoType DEF Commit, At
  <2> QED BY <1>3, <2>6, <2>7 DEF Commit, TypeOK
<1>4. CASE Rollback(r)
  <2>1. call' \in [Calls -> Frame]
    BY <1>4, AnswerType DEF Rollback
  <2>2. faults' \in 0..MaxFaults
    BY <1>4, FaultType DEF Rollback
  <2> QED BY <1>4, <2>1, <2>2 DEF Rollback, EngineAfterFailure, TypeOK
<1> QED BY <1>1, <1>2, <1>3, <1>4 DEF Consume

LEMMA LogInType ==
  ASSUME TypeOK, Held, NEW r \in Calls, LogIn(r), UNCHANGED subs
  PROVE  TypeOK'
<1> USE DEF accountVars
<1>f. call[r] \in Frame
  BY DEF TypeOK
<1>1. ASSUME NEW e \in Externals, Identify(r, e)
      PROVE  TypeOK'
  <2>1. [call[r] EXCEPT !.at = "lookup", !.ext = e] \in Frame
    BY <1>f DEF Frame, At
  <2>2. call' \in [Calls -> Frame]
    BY <1>1, <2>1, BecomeType DEF Identify
  <2> QED BY <1>1, <2>2 DEF Identify, TypeOK
<1>2. CASE Lookup(r)
  <2> DEFINE known == identities[call[r].ext]
  <2>1. CASE known # 0
    <3>1. known \in Nat
      BY <1>2 DEF TypeOK, Lookup, Held
    <3>2. [call[r] EXCEPT !.at = "session", !.user = known] \in Frame
      BY <1>f, <3>1 DEF Frame, At
    <3>3. call' \in [Calls -> Frame]
      BY <1>2, <2>1, <3>2, BecomeType DEF Lookup
    <3> QED BY <1>2, <3>3 DEF Lookup, TypeOK
  <2>2. CASE known = 0
    <3>1. call' \in [Calls -> Frame]
      BY <1>2, <2>2, GotoType DEF Lookup, At
    <3> QED BY <1>2, <3>1 DEF Lookup, TypeOK
  <2> QED BY <2>1, <2>2
<1>3. CASE InsertUser(r)
  <2>1. users + 1 \in Nat
    BY DEF TypeOK
  <2>2. [call[r] EXCEPT !.at = "identity", !.user = users + 1] \in Frame
    BY <1>f, <2>1 DEF Frame, At
  <2>3. call' \in [Calls -> Frame]
    BY <1>3, <2>2, BecomeType DEF InsertUser
  <2> QED BY <1>3, <2>1, <2>3 DEF InsertUser, TypeOK
<1>4. CASE LinkIdentity(r)
  <2>1. call' \in [Calls -> Frame]
    BY <1>4, AnswerType, GotoType DEF LinkIdentity, At
  <2>2. identities' \in [Externals -> Nat]
    BY <1>4, <1>f DEF LinkIdentity, TypeOK, Frame
  <2> QED BY <1>4, <2>1, <2>2 DEF LinkIdentity, TypeOK
<1>5. CASE OpenSession(r)
  <2> DEFINE row == [user |-> call[r].user, ext |-> call[r].ext, from |-> call[r].item,
                     ended |-> FALSE]
  <2>1. row \in SessionRow
    BY <1>5, <1>f DEF Frame, SessionRow, OpenSession, Held
  <2>2. sessions' = Append(sessions, row) /\ Answer(r)
    BY <1>5 DEF OpenSession
  <2>3. sessions' \in Seq(SessionRow)
    <3> HIDE DEF row
    <3> QED BY <2>1, <2>2, AppendProperties DEF TypeOK
  <2>4. call' \in [Calls -> Frame]
    BY <2>2, AnswerType
  <2> QED BY <1>5, <2>3, <2>4 DEF OpenSession, TypeOK
<1> QED BY <1>1, <1>2, <1>3, <1>4, <1>5 DEF LogIn

LEMMA LinkType ==
  ASSUME TypeOK, Held, NEW r \in Calls, Link(r)
  PROVE  TypeOK'
<1> USE DEF accountVars
<1>f. call[r] \in Frame
  BY DEF TypeOK
<1>1. ASSUME NEW good \in BOOLEAN, Grant(r, good)
      PROVE  TypeOK'
  <2>1. [call[r] EXCEPT !.at = "verify", !.good = good] \in Frame
    BY <1>f DEF Frame, At
  <2>2. call' \in [Calls -> Frame]
    BY <1>1, <2>1, BecomeType DEF Grant
  <2> QED BY <1>1, <2>2 DEF Grant, TypeOK
<1>2. CASE ExchangeFails(r)
  BY <1>2, AnswerType DEF ExchangeFails, TypeOK
<1>3. ASSUME NEW v, Verify(r, v)
      PROVE  TypeOK'
  <2>1. CASE v = "inconclusive" /\ TriesAgain(r)
    <3>1. call[r].tries + 1 \in 0..(VerifyAttempts - 1)
      BY <1>f, <2>1 DEF TriesAgain, Frame
    <3>2. [call[r] EXCEPT !.tries = @ + 1] \in Frame
      BY <1>f, <3>1 DEF Frame
    <3>3. call' \in [Calls -> Frame]
      BY <1>3, <2>1, <3>2, BecomeType DEF Verify
    <3> QED BY <1>3, <3>3 DEF Verify, TypeOK
  <2>2. CASE ~(v = "inconclusive" /\ TriesAgain(r))
    <3>1. call' \in [Calls -> Frame]
      BY <1>3, <2>2, AnswerType, GotoType DEF Verify, At
    <3> QED BY <1>3, <3>1 DEF Verify, TypeOK
  <2> QED BY <2>1, <2>2
<1>4. CASE AddSubscription(r)
  <2> DEFINE s == call[r].item
             row == [pool |-> pkce[s].pool, owner |-> OwnerOf(r), from |-> s,
                     good |-> call[r].good, active |-> TRUE]
  <2>1. s \in DOMAIN pkce
    BY <1>4 DEF AddSubscription, Held
  <2>2. pkce[s] \in StateRow
    BY <2>1, StateType
  <2>3. row \in SubRow
    BY <1>f, <2>2 DEF StateRow, SubRow, Frame, OwnerOf
  <2>4. subs' = Append(subs, row) /\ Answer(r)
    BY <1>4 DEF AddSubscription
  <2>5. subs' \in Seq(SubRow)
    <3> HIDE DEF row
    <3> QED BY <2>3, <2>4, AppendProperties DEF TypeOK
  <2>6. call' \in [Calls -> Frame]
    BY <2>4, AnswerType
  <2> QED BY <1>4, <2>5, <2>6 DEF AddSubscription, TypeOK
<1>5. CASE Disable(r)
  <2>1. call[r].item \in DOMAIN subs
    BY <1>5 DEF Disable, Held
  <2>2. subs' \in Seq(SubRow)
    BY <1>5, <2>1, SubType DEF Disable
  <2>3. call' \in [Calls -> Frame]
    BY <1>5, AnswerType DEF Disable
  <2> QED BY <1>5, <2>2, <2>3 DEF Disable, TypeOK
<1> QED BY <1>1, <1>2, <1>3, <1>4, <1>5 DEF Link

LEMMA AskType ==
  ASSUME TypeOK, NEW r \in Calls, Ask(r)
  PROVE  TypeOK'
<1> USE DEF accountVars
<1>f. call[r] \in Frame
  BY DEF TypeOK
<1>1. ASSUME NEW pool \in {"user", "donor"}, BeginLink(r, pool)
      PROVE  TypeOK'
  <2> DEFINE owner == IF pool = "user" THEN call[r].user ELSE 0
  <2>1. owner \in Nat
    BY <1>f DEF Frame
  <2>2. NewState("subscription", pool, owner) /\ Answer(r)
    BY <1>1 DEF BeginLink
  <2>3. pkce' \in Seq(StateRow)
    <3> HIDE DEF owner
    <3> QED BY <2>1, <2>2, NewStateType
  <2>4. call' \in [Calls -> Frame]
    BY <2>2, AnswerType
  <2> QED BY <1>1, <2>3, <2>4 DEF BeginLink, TypeOK
<1>2. ASSUME NEW s \in 1..MaxStates, CompleteLink(r, s)
      PROVE  TypeOK'
  <2>1. [call[r] EXCEPT !.at = "consume", !.kind = "subscription", !.item = s] \in Frame
    <3>1. s \in Nat
      OBVIOUS
    <3> QED BY <1>f, <3>1 DEF Frame, At
  <2>2. call' \in [Calls -> Frame]
    BY <1>2, <2>1, BecomeType DEF CompleteLink
  <2> QED BY <1>2, <2>2 DEF CompleteLink, TypeOK
<1>3. ASSUME NEW i \in DOMAIN subs, FindSub(r, i)
      PROVE  TypeOK'
  <2>1. i \in Nat
    BY LenProperties DEF TypeOK
  <2>2. [call[r] EXCEPT !.at = "disable", !.item = i] \in Frame
    BY <1>f, <2>1 DEF Frame, At
  <2>3. call' \in [Calls -> Frame]
    BY <1>3, <2>2, BecomeType, AnswerType DEF FindSub
  <2> QED BY <1>3, <2>3 DEF FindSub, TypeOK
<1> QED BY <1>1, <1>2, <1>3 DEF Ask

LEMMA ArriveType ==
  ASSUME TypeOK, NEW r \in Calls, Arrive(r), UNCHANGED subs
  PROVE  TypeOK'
<1> USE DEF accountVars
<1>1. ASSUME NEW s \in 1..MaxStates, Callback(r, s)
      PROVE  TypeOK'
  <2>1. [Idle EXCEPT !.at = "consume", !.kind = "login", !.item = s] \in Frame
    <3>1. s \in Nat
      OBVIOUS
    <3> QED BY IdleType, <3>1 DEF Frame, At
  <2>2. call' \in [Calls -> Frame]
    BY <1>1, <2>1, BecomeType DEF Callback
  <2> QED BY <1>1, <2>2 DEF Callback, TypeOK
<1>2. ASSUME NEW i \in DOMAIN sessions, Authenticate(r, i)
      PROVE  TypeOK'
  <2>1. sessions[i].user \in Nat
    BY SessionType DEF SessionRow
  <2>2. [Idle EXCEPT !.at = "body", !.kind = "api", !.user = sessions[i].user] \in Frame
    BY <2>1, IdleType DEF Frame, At
  <2>3. call' \in [Calls -> Frame]
    BY <1>2, <2>2, BecomeType DEF Authenticate
  <2> QED BY <1>2, <2>3 DEF Authenticate, TypeOK
<1> QED BY <1>1, <1>2 DEF Arrive

LEMMA TypeStep ==
  ASSUME TypeOK, Held, [Next]_vars
  PROVE  TypeOK'
<1> USE DEF accountVars
<1>1. CASE BeginLogin /\ UNCHANGED subs
  <2>1. pkce' \in Seq(StateRow)
    BY <1>1, NewStateType DEF BeginLogin
  <2> QED BY <1>1, <2>1 DEF BeginLogin, TypeOK
<1>2. ASSUME NEW i \in DOMAIN sessions, EndSession(i), UNCHANGED subs
      PROVE  TypeOK'
  <2>1. sessions' \in Seq(SessionRow)
    BY <1>2, SessionType DEF EndSession
  <2> QED BY <1>2, <2>1 DEF EndSession, TypeOK
<1>3. ASSUME NEW r \in Calls, Proceed(r)
      PROVE  TypeOK'
  <2>1. CASE OtherRequest(r)
    BY <2>1, AnswerType DEF OtherRequest, TypeOK
  <2> QED BY <1>3, <2>1, ConsumeType, LogInType, LinkType DEF Proceed
<1>4. ASSUME NEW r \in Calls, StorageFails(r)
      PROVE  TypeOK'
  BY <1>4, AnswerType, FaultType DEF StorageFails, TypeOK
<1>5. CASE Crash
  BY <1>5, IdleType, FaultType DEF Crash, TypeOK
<1>6. CASE UNCHANGED vars
  BY <1>6 DEF vars, TypeOK
<1> QED
  BY <1>1, <1>2, <1>3, <1>4, <1>5, <1>6, ArriveType, AskType, ConsumeType DEF Next

\* What is true of a frame wherever its call has come to, in terms of the rows
\* it refers to: a call that goes on with a state has redeemed it, for its own
\* kind of flow; one that opens a session holds the user the identity is linked
\* to; one that adds a subscription has had it accepted; one that disables one
\* is its owner's.
Fits(f, states, linked, owned) ==
  /\ f.at \in {"mark", "commit", "exchange", "verify", "add"} => f.item \in DOMAIN states
  /\ f.at = "exchange" => states[f.item].spent /\ states[f.item].kind = f.kind
  /\ f.at \in {"verify", "add"} =>
       states[f.item].spent /\ states[f.item].kind = "subscription"
  /\ f.at = "add" => f.good
  /\ f.at \in {"lookup", "newUser", "identity", "session"} =>
       f.ext \in Externals /\ <<f.item, f.ext>> \in Authenticated
  /\ f.at \in {"identity", "session", "body", "disable"} => f.user # 0
  /\ f.at = "session" => linked[f.ext] = f.user
  /\ f.at = "disable" => f.item \in DOMAIN owned /\ owned[f.item].owner = f.user

Frames == \A r \in Calls : Fits(call[r], pkce, identities, subs)

\* A row keeps what it was created with, a state stays spent, an identity linked.
RowsStay ==
  /\ \A s \in DOMAIN pkce :
       /\ s \in DOMAIN pkce'
       /\ pkce'[s].kind = pkce[s].kind /\ pkce'[s].pool = pkce[s].pool
       /\ pkce'[s].owner = pkce[s].owner
       /\ pkce[s].spent => pkce'[s].spent
  /\ \A e \in Externals : identities[e] # 0 => identities'[e] = identities[e]
  /\ \A i \in DOMAIN subs :
       /\ i \in DOMAIN subs'
       /\ subs'[i].pool = subs[i].pool /\ subs'[i].owner = subs[i].owner
       /\ subs'[i].from = subs[i].from /\ subs'[i].good = subs[i].good

LEMMA FramesHeld == Frames => Held
  BY DEF Frames, Fits, Held

LEMMA IdleFits == \A states, linked, owned : Fits(Idle, states, linked, owned)
  BY DEF Idle, Fits

LEMMA FitsStays ==
  ASSUME TypeOK, RowsStay, NEW f \in Frame, Fits(f, pkce, identities, subs)
  PROVE  Fits(f, pkce', identities', subs')
  BY DEF Fits, RowsStay

\* One call moves on and the others keep their frames.
LEMMA OneFrame ==
  ASSUME TypeOK, Frames, RowsStay, NEW r \in Calls, NEW f,
         Become(r, f), Fits(f, pkce', identities', subs')
  PROVE  Frames'
<1> SUFFICES ASSUME NEW q \in Calls
             PROVE  Fits(call'[q], pkce', identities', subs')
  BY DEF Frames
<1>1. call[q] \in Frame /\ Fits(call[q], pkce, identities, subs)
  BY DEF TypeOK, Frames
<1>2. Fits(call[q], pkce', identities', subs')
  BY <1>1, FitsStays
<1>3. call'[q] = IF q = r THEN f ELSE call[q]
  BY DEF TypeOK, Become
<1> QED BY <1>2, <1>3

LEMMA NewStateRows ==
  ASSUME TypeOK, NEW kind, NEW pool, NEW owner,
         NewState(kind, pool, owner), UNCHANGED <<identities, subs>>
  PROVE  /\ RowsStay
         /\ \A s \in DOMAIN pkce' :
              s \in DOMAIN pkce \/ pkce'[s] = [kind |-> kind, pool |-> pool,
                owner |-> owner, spent |-> FALSE, redeemed |-> 0]
         /\ \A s \in DOMAIN pkce : pkce'[s] = pkce[s]
<1> DEFINE row == [kind |-> kind, pool |-> pool, owner |-> owner,
                   spent |-> FALSE, redeemed |-> 0]
<1> HIDE DEF row
<1>1. pkce' = Append(pkce, row) /\ pkce \in Seq(StateRow)
  BY DEF NewState, TypeOK, row
<1>2. /\ DOMAIN pkce = 1..Len(pkce) /\ DOMAIN pkce' = 1..(Len(pkce) + 1)
      /\ Len(pkce) \in Nat
      /\ \A s \in 1..Len(pkce) : pkce'[s] = pkce[s]
      /\ pkce'[Len(pkce) + 1] = row
  BY <1>1
<1>3. \A s \in DOMAIN pkce : s \in DOMAIN pkce' /\ pkce'[s] = pkce[s]
  BY <1>2
<1>4. \A s \in DOMAIN pkce' : s \in DOMAIN pkce \/ pkce'[s] = row
  BY <1>2
<1> QED BY <1>3, <1>4 DEF RowsStay, row

\* What Commit writes.
LEMMA CommitRows ==
  ASSUME TypeOK, Held, NEW r \in Calls, Commit(r), UNCHANGED <<identities, subs>>
  PROVE  /\ RowsStay /\ DOMAIN pkce' = DOMAIN pkce
         /\ \A s \in DOMAIN pkce :
              IF s = call[r].item
                THEN /\ pkce'[s].spent
                     /\ pkce'[s].redeemed \in {pkce[s].redeemed, pkce[s].redeemed + 1}
                ELSE pkce'[s] = pkce[s]
<1> DEFINE t == call[r].item
<1>1. t \in DOMAIN pkce
  BY DEF Commit, Held
<1>2. pkce[t] \in StateRow
  BY <1>1, StateType
<1>3. PICK n \in {pkce[t].redeemed, pkce[t].redeemed + 1} :
        pkce' = [pkce EXCEPT ![t] = [pkce[t] EXCEPT !.spent = TRUE, !.redeemed = n]]
  BY <1>2 DEF Commit, StateRow
<1>4. DOMAIN pkce' = DOMAIN pkce
  BY <1>3
<1>5. \A s \in DOMAIN pkce : s # t => pkce'[s] = pkce[s]
  BY <1>3
<1>6. /\ pkce'[t].spent /\ pkce'[t].redeemed = n /\ pkce'[t].kind = pkce[t].kind
      /\ pkce'[t].pool = pkce[t].pool /\ pkce'[t].owner = pkce[t].owner
  BY <1>1, <1>2, <1>3 DEF StateRow
<1> HIDE DEF t
<1>7. RowsStay
  BY <1>4, <1>5, <1>6 DEF RowsStay
<1> QED BY <1>3, <1>4, <1>5, <1>6, <1>7 DEF t

LEMMA AddRows ==
  ASSUME TypeOK, NEW r \in Calls, AddSubscription(r)
  PROVE  LET s == call[r].item
             row == [pool |-> pkce[s].pool, owner |-> OwnerOf(r), from |-> s,
                     good |-> call[r].good, active |-> TRUE]
         IN  /\ RowsStay
             /\ \A i \in DOMAIN subs' :
                  \/ i \in DOMAIN subs /\ subs'[i] = subs[i]
                  \/ subs'[i] = row
<1> DEFINE s == call[r].item
           row == [pool |-> pkce[s].pool, owner |-> OwnerOf(r), from |-> s,
                   good |-> call[r].good, active |-> TRUE]
<1>1. subs' = Append(subs, row) /\ UNCHANGED <<pkce, accountVars>>
  BY DEF AddSubscription
<1> HIDE DEF row
<1>2. subs \in Seq(SubRow)
  BY DEF TypeOK
<1>3. /\ DOMAIN subs = 1..Len(subs) /\ DOMAIN subs' = 1..(Len(subs) + 1)
      /\ Len(subs) \in Nat
      /\ \A i \in 1..Len(subs) : subs'[i] = subs[i]
      /\ subs'[Len(subs) + 1] = row
  BY <1>1, <1>2
<1>4. \A i \in DOMAIN subs : i \in DOMAIN subs' /\ subs'[i] = subs[i]
  BY <1>3
<1>5. \A i \in DOMAIN subs' :
        (i \in DOMAIN subs /\ subs'[i] = subs[i]) \/ subs'[i] = row
  BY <1>3
<1>6. RowsStay
  BY <1>1, <1>4 DEF RowsStay, accountVars
<1> QED BY <1>5, <1>6 DEF row

LEMMA DisableRows ==
  ASSUME TypeOK, Held, NEW r \in Calls, Disable(r)
  PROVE  /\ RowsStay /\ DOMAIN subs' = DOMAIN subs
         /\ \A i \in DOMAIN subs :
              subs'[i] = IF i = call[r].item THEN [subs[i] EXCEPT !.active = FALSE]
                                             ELSE subs[i]
<1> DEFINE t == call[r].item
<1>1. t \in DOMAIN subs
  BY DEF Disable, Held
<1>2. \A i \in DOMAIN subs : subs[i] \in SubRow
  BY SubType
<1>3. subs' = [subs EXCEPT ![t] = [subs[t] EXCEPT !.active = FALSE]]
  BY <1>1, <1>2 DEF Disable, SubRow
<1>4. UNCHANGED <<pkce, identities>>
  BY DEF Disable, accountVars
<1>5. DOMAIN subs' = DOMAIN subs
  BY <1>3
<1>6. \A i \in DOMAIN subs :
        subs'[i] = IF i = t THEN [subs[i] EXCEPT !.active = FALSE] ELSE subs[i]
  BY <1>1, <1>3
<1>7. RowsStay
  BY <1>2, <1>4, <1>5, <1>6 DEF RowsStay, SubRow
<1> QED BY <1>5, <1>6, <1>7

LEMMA LinkIdentityRows ==
  ASSUME TypeOK, Held, NEW r \in Calls, LinkIdentity(r), UNCHANGED subs
  PROVE  RowsStay
  BY DEF LinkIdentity, Taken, RowsStay, TypeOK, Held

\* The rows every step leaves as it should.
LEMMA RowsStayStep ==
  ASSUME TypeOK, Held, [Next]_vars
  PROVE  RowsStay
<1> USE DEF accountVars
<1> DEFINE Untouched == UNCHANGED <<pkce, identities, subs>>
<1>0. Untouched => RowsStay
  BY DEF RowsStay
<1>1. CASE BeginLogin /\ UNCHANGED subs
  BY <1>1, NewStateRows DEF BeginLogin
<1>2. ASSUME NEW r \in Calls, Ask(r)
      PROVE  RowsStay
  <2>1. ASSUME NEW pool \in {"user", "donor"}, BeginLink(r, pool)
        PROVE  RowsStay
    BY <2>1, NewStateRows DEF BeginLink
  <2> QED BY <1>0, <1>2, <2>1 DEF Ask, CompleteLink, FindSub
<1>3. ASSUME NEW r \in Calls, Consume(r) \/ Rollback(r), UNCHANGED <<accountVars, subs>>
      PROVE  RowsStay
  BY <1>0, <1>3, CommitRows DEF Consume, Select, Mark, Rollback
<1>4. ASSUME NEW r \in Calls, LogIn(r), UNCHANGED subs
      PROVE  RowsStay
  BY <1>0, <1>4, LinkIdentityRows
     DEF LogIn, Identify, Lookup, InsertUser, OpenSession
<1>5. ASSUME NEW r \in Calls, Link(r)
      PROVE  RowsStay
  BY <1>0, <1>5, AddRows, DisableRows DEF Link, Grant, ExchangeFails, Verify
<1>6. ASSUME NEW r \in Calls, Proceed(r)
      PROVE  RowsStay
  BY <1>0, <1>3, <1>4, <1>5, <1>6 DEF Proceed, OtherRequest
<1>7. ASSUME NEW i, EndSession(i), UNCHANGED subs
      PROVE  RowsStay
  BY <1>0, <1>7 DEF EndSession
<1>8. ASSUME NEW r \in Calls, Arrive(r), UNCHANGED subs
      PROVE  RowsStay
  BY <1>0, <1>8 DEF Arrive, Callback, Authenticate
<1>9. ASSUME NEW r \in Calls, StorageFails(r)
      PROVE  RowsStay
  BY <1>0, <1>9 DEF StorageFails
<1>10. CASE Crash \/ UNCHANGED vars
  BY <1>0, <1>10 DEF Crash, vars
<1> HIDE DEF Untouched
<1> QED
  BY <1>1, <1>2, <1>3, <1>6, <1>7, <1>8, <1>9, <1>10 DEF Next

\* A call that is answered, and one that only moves to where its frame fits too.
LEMMA AnswerFrames ==
  ASSUME TypeOK, Frames, RowsStay, NEW r \in Calls, Answer(r)
  PROVE  Frames'
  BY IdleFits, OneFrame DEF Answer

LEMMA ConsumeFrames ==
  ASSUME TypeOK, Frames, RowsStay, NEW r \in Calls,
         Consume(r) \/ Rollback(r), UNCHANGED <<accountVars, subs>>
  PROVE  Frames'
<1>f. call[r] \in Frame /\ Fits(call[r], pkce, identities, subs) /\ Held
  BY FramesHeld DEF TypeOK, Frames
<1>1. CASE Select(r) /\ Redeemable(call[r].item)
  <2>1. Fits([call[r] EXCEPT !.at = "mark"], pkce', identities', subs')
    BY <1>1, <1>f DEF Select, Redeemable, Fits, Frame
  <2> QED BY <1>1, <2>1, OneFrame DEF Select, Goto
<1>2. CASE Select(r) /\ ~Redeemable(call[r].item)
  BY <1>2, AnswerFrames DEF Select
<1>3. CASE Mark(r)
  <2>1. Fits([call[r] EXCEPT !.at = "commit"], pkce', identities', subs')
    BY <1>3, <1>f DEF Mark, Fits, Frame
  <2> QED BY <1>3, <2>1, OneFrame DEF Mark, Goto
<1>4. CASE Commit(r)
  <2> DEFINE s == call[r].item
  <2>1. /\ s \in DOMAIN pkce /\ s \in DOMAIN pkce'
        /\ pkce'[s].spent /\ pkce'[s].kind = pkce[s].kind
    BY <1>4, <1>f, CommitRows DEF Held, Commit, RowsStay, accountVars
  <2>2. CASE pkce[s].kind = call[r].kind
    <3>1. Fits([call[r] EXCEPT !.at = "exchange"], pkce', identities', subs')
      BY <1>f, <2>1, <2>2 DEF Fits, Frame
    <3> QED BY <1>4, <2>2, <3>1, OneFrame DEF Commit, Goto
  <2>3. CASE pkce[s].kind # call[r].kind
    BY <1>4, <2>3, AnswerFrames DEF Commit
  <2> QED BY <2>2, <2>3
<1>5. CASE Rollback(r)
  BY <1>5, AnswerFrames DEF Rollback
<1> QED BY <1>1, <1>2, <1>3, <1>4, <1>5 DEF Consume

LEMMA LogInFrames ==
  ASSUME TypeOK, Frames, RowsStay, NEW r \in Calls, LogIn(r), UNCHANGED subs
  PROVE  Frames'
<1>f. call[r] \in Frame /\ Fits(call[r], pkce, identities, subs)
  BY DEF TypeOK, Frames
<1>1. ASSUME NEW e \in Externals, Identify(r, e)
      PROVE  Frames'
  <2> DEFINE f == [call[r] EXCEPT !.at = "lookup", !.ext = e]
  <2>t. <<call[r].item, e>> \in Authenticated
    BY <1>1, IdentifiedLoggedIn DEF Identify
  <2>1. Fits(f, pkce', identities', subs')
    BY <1>f, <2>t DEF Fits, Frame
  <2>2. Become(r, f)
    BY <1>1 DEF Identify
  <2> HIDE DEF f
  <2> QED BY <2>1, <2>2, OneFrame
<1>2. CASE Lookup(r)
  <2> DEFINE known == identities[call[r].ext]
             f == [call[r] EXCEPT !.at = "session", !.user = known]
             g == [call[r] EXCEPT !.at = "newUser"]
  <2>1. Fits(g, pkce', identities', subs')
    BY <1>f, <1>2 DEF Fits, Frame, Lookup
  <2>2. known # 0 => Fits(f, pkce', identities', subs')
    BY <1>f, <1>2 DEF Fits, Frame, Lookup, accountVars
  <2>3. IF known # 0 THEN Become(r, f) ELSE Become(r, g)
    BY <1>2 DEF Lookup, Goto
  <2> HIDE DEF f, g, known
  <2> QED BY <2>1, <2>2, <2>3, OneFrame
<1>3. CASE InsertUser(r)
  <2> DEFINE f == [call[r] EXCEPT !.at = "identity", !.user = users + 1]
  <2>1. users + 1 # 0
    BY DEF TypeOK
  <2>2. Fits(f, pkce', identities', subs')
    BY <1>f, <1>3, <2>1 DEF Fits, Frame, InsertUser
  <2>3. Become(r, f)
    BY <1>3 DEF InsertUser
  <2> HIDE DEF f
  <2> QED BY <2>2, <2>3, OneFrame
<1>4. CASE LinkIdentity(r)
  <2> DEFINE e == call[r].ext
             f == [call[r] EXCEPT !.at = "session"]
  <2>1. CASE Taken(e)
    BY <1>4, <2>1, AnswerFrames DEF LinkIdentity
  <2>2. CASE ~Taken(e)
    <3>1. identities'[e] = call[r].user
      BY <1>4, <1>f, <2>2 DEF LinkIdentity, TypeOK, Fits
    <3>2. Fits(f, pkce', identities', subs')
      BY <1>4, <1>f, <3>1 DEF Fits, Frame, LinkIdentity
    <3>3. Become(r, f)
      BY <1>4, <2>2 DEF LinkIdentity, Goto
    <3> HIDE DEF f
    <3> QED BY <3>2, <3>3, OneFrame
  <2> QED BY <2>1, <2>2
<1>5. CASE OpenSession(r)
  BY <1>5, AnswerFrames DEF OpenSession
<1> QED BY <1>1, <1>2, <1>3, <1>4, <1>5 DEF LogIn

\* Neither adapter reads "valid" into what a token hears that is not accepted.
LEMMA ValidIsGood ==
  ASSUME NEW good \in BOOLEAN, "valid" \in Verdicts(good)
  PROVE  good
<1>1. ASSUME NEW reply \in Replies(good), AnthropicVerdict(reply) = "valid"
      PROVE  good
  BY <1>1 DEF AnthropicVerdict, Replies
<1>2. ASSUME NEW reply \in Replies(good), NEW claimed \in BOOLEAN,
             OpenAiVerdict(claimed, reply) = "valid"
      PROVE  good
  BY <1>2 DEF OpenAiVerdict, Replies
<1> QED BY <1>1, <1>2 DEF Verdicts

LEMMA LinkFrames ==
  ASSUME TypeOK, Frames, RowsStay, NEW r \in Calls, Link(r)
  PROVE  Frames'
<1>f. call[r] \in Frame /\ Fits(call[r], pkce, identities, subs)
  BY DEF TypeOK, Frames
<1>1. ASSUME NEW good \in BOOLEAN, Grant(r, good)
      PROVE  Frames'
  <2> DEFINE f == [call[r] EXCEPT !.at = "verify", !.good = good]
  <2>1. Fits(f, pkce', identities', subs')
    BY <1>f, <1>1 DEF Fits, Frame, Grant
  <2>2. Become(r, f)
    BY <1>1 DEF Grant
  <2> HIDE DEF f
  <2> QED BY <2>1, <2>2, OneFrame
<1>2. ASSUME NEW v, Verify(r, v)
      PROVE  Frames'
  <2> DEFINE f == [call[r] EXCEPT !.tries = @ + 1]
             g == [call[r] EXCEPT !.at = "add"]
  <2>1. Fits(f, pkce', identities', subs')
    BY <1>f, <1>2 DEF Fits, Frame, Verify
  <2>2. Accepted(v) => Fits(g, pkce', identities', subs')
    <3>1. Accepted(v) => call[r].good
      BY <1>f, <1>2, ValidIsGood DEF Verify, Accepted, Frame
    <3> QED BY <1>f, <1>2, <3>1 DEF Fits, Frame, Verify
  <2>3. Become(r, f) \/ (Accepted(v) /\ Become(r, g)) \/ Answer(r)
    BY <1>2 DEF Verify, Goto
  <2> HIDE DEF f, g
  <2> QED BY <2>1, <2>2, <2>3, OneFrame, AnswerFrames
<1> QED
  BY <1>1, <1>2, AnswerFrames DEF Link, ExchangeFails, AddSubscription, Disable

LEMMA AskFrames ==
  ASSUME TypeOK, Frames, RowsStay, NEW r \in Calls, Ask(r)
  PROVE  Frames'
<1>f. call[r] \in Frame /\ Fits(call[r], pkce, identities, subs)
  BY DEF TypeOK, Frames
<1>1. ASSUME NEW s \in 1..MaxStates, CompleteLink(r, s)
      PROVE  Frames'
  <2> DEFINE f == [call[r] EXCEPT !.at = "consume", !.kind = "subscription", !.item = s]
  <2>1. Fits(f, pkce', identities', subs')
    BY <1>f DEF Fits, Frame
  <2>2. Become(r, f)
    BY <1>1 DEF CompleteLink
  <2> HIDE DEF f
  <2> QED BY <2>1, <2>2, OneFrame
<1>2. ASSUME NEW i \in DOMAIN subs, FindSub(r, i)
      PROVE  Frames'
  <2> DEFINE f == [call[r] EXCEPT !.at = "disable", !.item = i]
  <2>1. MayDisable(r, i) => Fits(f, pkce', identities', subs')
    BY <1>f, <1>2 DEF Fits, Frame, FindSub, MayDisable
  <2>2. (MayDisable(r, i) /\ Become(r, f)) \/ Answer(r)
    BY <1>2 DEF FindSub
  <2> HIDE DEF f
  <2> QED BY <2>1, <2>2, OneFrame, AnswerFrames
<1> QED BY <1>1, <1>2, AnswerFrames DEF Ask, BeginLink

LEMMA ArriveFrames ==
  ASSUME TypeOK, Frames, RowsStay, OneUserPerIdentity,
         NEW r \in Calls, Arrive(r), UNCHANGED subs
  PROVE  Frames'
<1>1. ASSUME NEW s, Callback(r, s)
      PROVE  Frames'
  <2> DEFINE f == [Idle EXCEPT !.at = "consume", !.kind = "login", !.item = s]
  <2>1. Fits(f, pkce', identities', subs')
    BY DEF Fits, Idle
  <2>2. Become(r, f)
    BY <1>1 DEF Callback
  <2> HIDE DEF f
  <2> QED BY <2>1, <2>2, OneFrame
<1>2. ASSUME NEW i \in DOMAIN sessions, Authenticate(r, i)
      PROVE  Frames'
  <2> DEFINE f == [Idle EXCEPT !.at = "body", !.kind = "api", !.user = sessions[i].user]
  <2>1. Fits(f, pkce', identities', subs')
    BY DEF Fits, Idle, OneUserPerIdentity
  <2>2. Become(r, f)
    BY <1>2 DEF Authenticate
  <2> HIDE DEF f
  <2> QED BY <2>1, <2>2, OneFrame
<1> QED BY <1>1, <1>2 DEF Arrive

LEMMA FramesStep ==
  ASSUME TypeOK, Frames, OneUserPerIdentity, [Next]_vars
  PROVE  Frames'
<1>1. RowsStay
  BY RowsStayStep, FramesHeld
<1>2. UNCHANGED call => Frames'
  <2> SUFFICES ASSUME UNCHANGED call, NEW r \in Calls
               PROVE  Fits(call[r], pkce', identities', subs')
    BY DEF Frames
  <2>1. call[r] \in Frame /\ Fits(call[r], pkce, identities, subs)
    BY DEF TypeOK, Frames
  <2> QED BY <1>1, <2>1, FitsStays
<1>3. ASSUME NEW r \in Calls, Proceed(r)
      PROVE  Frames'
  BY <1>1, <1>3, ConsumeFrames, LogInFrames, LinkFrames, AnswerFrames
     DEF Proceed, OtherRequest
<1>4. CASE Crash
  BY <1>4, IdleFits DEF Crash, Frames
<1>5. ASSUME NEW r \in Calls, StorageFails(r)
      PROVE  Frames'
  BY <1>1, <1>5, AnswerFrames DEF StorageFails
<1>6. CASE BeginLogin \/ (\E i \in DOMAIN sessions : EndSession(i)) \/ UNCHANGED vars
  BY <1>2, <1>6 DEF BeginLogin, EndSession, vars
<1> QED
  BY <1>1, <1>3, <1>4, <1>5, <1>6, ArriveFrames, AskFrames, ConsumeFrames DEF Next

-----------------------------------------------------------------------------
\* A link begun for the own pool, and no other, names its owner.
Begun ==
  \A s \in DOMAIN pkce :
    pkce[s].kind = "subscription" => (pkce[s].pool = "user" <=> pkce[s].owner # 0)

Linked == \A i \in DOMAIN subs : subs[i].from \in DOMAIN pkce

\* The strengthening: each of the properties leans on the frames of the calls.
Sound ==
  /\ TypeOK /\ Frames /\ Begun /\ Linked
  /\ OneUserPerIdentity /\ SessionIsTheirs /\ LandsInItsPool /\ OnlyVerifiedJoin

LEMMA BegunStep ==
  ASSUME Sound, [Next]_vars
  PROVE  Begun'
<1> USE DEF Sound
<1>1. CASE BeginLogin /\ UNCHANGED subs
  BY <1>1, NewStateRows DEF BeginLogin, Begun, accountVars
<1>2. ASSUME NEW r \in Calls, NEW pool \in {"user", "donor"}, BeginLink(r, pool)
      PROVE  Begun'
  <2> DEFINE owner == IF pool = "user" THEN call[r].user ELSE 0
  <2>1. pool = "user" <=> owner # 0
    BY <1>2 DEF BeginLink, Frames, Fits
  <2>2. NewState("subscription", pool, owner) /\ UNCHANGED <<identities, subs>>
    BY <1>2 DEF BeginLink, accountVars
  <2> HIDE DEF owner
  <2> QED BY <2>1, <2>2, NewStateRows DEF Begun
<1>3. ASSUME NEW r \in Calls, Commit(r), UNCHANGED <<accountVars, subs>>
      PROVE  Begun'
  BY <1>3, FramesHeld, CommitRows DEF Begun, RowsStay, accountVars
<1>4. UNCHANGED pkce => Begun'
  BY DEF Begun
<1>5. ASSUME NEW r \in Calls, Proceed(r)
      PROVE  Begun'
  BY <1>3, <1>4, <1>5
     DEF Proceed, Consume, Select, Mark, LogIn, Identify, Lookup, InsertUser,
         LinkIdentity, OpenSession, Link, Grant, ExchangeFails, Verify,
         AddSubscription, Disable, OtherRequest
<1>6. ASSUME NEW r \in Calls, Ask(r)
      PROVE  Begun'
  BY <1>2, <1>4, <1>6 DEF Ask, CompleteLink, FindSub
<1>7. ASSUME NEW r \in Calls, Arrive(r) \/ Rollback(r) \/ StorageFails(r)
      PROVE  Begun'
  BY <1>4, <1>7 DEF Arrive, Callback, Authenticate, Rollback, StorageFails
<1> QED
  BY <1>1, <1>4, <1>5, <1>6, <1>7 DEF Next, EndSession, Crash, vars

LEMMA SessionsStep ==
  ASSUME Sound, [Next]_vars
  PROVE  OneUserPerIdentity' /\ SessionIsTheirs'
<1> USE DEF Sound
<1>1. RowsStay
  BY RowsStayStep, FramesHeld
<1>2. \A i \in DOMAIN sessions : sessions[i] \in SessionRow
  BY SessionType
<1>3. ASSUME NEW r \in Calls, OpenSession(r)
      PROVE  OneUserPerIdentity' /\ SessionIsTheirs'
  <2> DEFINE row == [user |-> call[r].user, ext |-> call[r].ext, from |-> call[r].item,
                     ended |-> FALSE]
  <2>1. /\ row.user # 0 /\ identities[row.ext] = row.user
        /\ <<row.from, row.ext>> \in Authenticated
    BY <1>3 DEF OpenSession, Frames, Fits
  <2>2. sessions' = Append(sessions, row) /\ UNCHANGED identities
    BY <1>3 DEF OpenSession
  <2> HIDE DEF row
  <2>3. sessions \in Seq(SessionRow)
    BY DEF TypeOK
  <2>4. \A i \in DOMAIN sessions' :
          (i \in DOMAIN sessions /\ sessions'[i] = sessions[i]) \/ sessions'[i] = row
    BY <2>2, <2>3
  <2> QED BY <2>1, <2>2, <2>4 DEF OneUserPerIdentity, SessionIsTheirs
<1>4. ASSUME NEW j \in DOMAIN sessions, EndSession(j)
      PROVE  OneUserPerIdentity' /\ SessionIsTheirs'
  <2>1. /\ DOMAIN sessions' = DOMAIN sessions /\ UNCHANGED identities
        /\ \A i \in DOMAIN sessions :
             /\ sessions'[i].user = sessions[i].user
             /\ sessions'[i].ext = sessions[i].ext
             /\ sessions'[i].from = sessions[i].from
    BY <1>2, <1>4 DEF EndSession, SessionRow
  <2> QED BY <2>1 DEF OneUserPerIdentity, SessionIsTheirs
<1>5. UNCHANGED sessions => OneUserPerIdentity' /\ SessionIsTheirs'
  <2> SUFFICES ASSUME UNCHANGED sessions, NEW i \in DOMAIN sessions
               PROVE  sessions[i].user # 0 /\ identities'[sessions[i].ext] = sessions[i].user
    BY DEF OneUserPerIdentity, SessionIsTheirs
  <2>1. sessions[i].user # 0 /\ identities[sessions[i].ext] = sessions[i].user
    BY DEF OneUserPerIdentity
  <2>2. sessions[i].ext \in Externals
    BY <1>2 DEF SessionRow
  <2> QED BY <1>1, <2>1, <2>2 DEF RowsStay
<1>6. ASSUME NEW r \in Calls, Proceed(r)
      PROVE  OneUserPerIdentity' /\ SessionIsTheirs'
  BY <1>3, <1>5, <1>6
     DEF Proceed, LogIn, Identify, Lookup, InsertUser, LinkIdentity,
         Link, Grant, ExchangeFails, Verify, AddSubscription, Disable,
         OtherRequest, accountVars
<1> QED
  BY <1>4, <1>5, <1>6
     DEF Next, BeginLogin, Arrive, Callback, Authenticate, Ask, BeginLink,
         CompleteLink, FindSub, StorageFails, Crash, vars, accountVars

LEMMA SubsStep ==
  ASSUME Sound, [Next]_vars
  PROVE  Linked' /\ LandsInItsPool' /\ OnlyVerifiedJoin'
<1> USE DEF Sound
<1>1. RowsStay /\ Held
  BY RowsStayStep, FramesHeld
\* A row that was there, in service or not, goes on satisfying all three.
<1> DEFINE Good(row, states) ==
      /\ row.from \in DOMAIN states
      /\ states[row.from].kind = "subscription" /\ states[row.from].spent
      /\ row.pool = states[row.from].pool /\ row.owner = states[row.from].owner
      /\ row.pool = "user" <=> row.owner # 0
      /\ row.good
<1>2. \A i \in DOMAIN subs : Good(subs[i], pkce)
  BY DEF Linked, LandsInItsPool, OnlyVerifiedJoin
<1>3. (\A i \in DOMAIN subs' : Good(subs'[i], pkce'))
        => Linked' /\ LandsInItsPool' /\ OnlyVerifiedJoin'
  BY DEF Linked, LandsInItsPool, OnlyVerifiedJoin
<1>4. \A i \in DOMAIN subs : i \in DOMAIN subs' /\ Good(subs'[i], pkce')
  BY <1>1, <1>2 DEF RowsStay
<1>5. ASSUME NEW r \in Calls, AddSubscription(r)
      PROVE  \A i \in DOMAIN subs' : Good(subs'[i], pkce')
  <2> DEFINE s == call[r].item
             row == [pool |-> pkce[s].pool, owner |-> OwnerOf(r), from |-> s,
                     good |-> call[r].good, active |-> TRUE]
  <2>1. /\ s \in DOMAIN pkce /\ pkce[s].spent /\ pkce[s].kind = "subscription"
        /\ call[r].good
    BY <1>5 DEF AddSubscription, Frames, Fits
  <2>2. Good(row, pkce)
    BY <2>1 DEF Begun, OwnerOf
  <2>3. UNCHANGED pkce
    BY <1>5 DEF AddSubscription
  <2>4. \A i \in DOMAIN subs' :
          (i \in DOMAIN subs /\ subs'[i] = subs[i]) \/ subs'[i] = row
    BY <1>5, AddRows
  <2> HIDE DEF row, Good
  <2> QED BY <1>4, <2>2, <2>3, <2>4
<1>6. ASSUME NEW r \in Calls, Disable(r)
      PROVE  DOMAIN subs' = DOMAIN subs
  BY <1>1, <1>6, DisableRows
<1>7. ASSUME NEW r \in Calls, Proceed(r)
      PROVE  \A i \in DOMAIN subs' : Good(subs'[i], pkce')
  <2>1. UNCHANGED subs => \A i \in DOMAIN subs' : Good(subs'[i], pkce')
    BY <1>4
  <2> HIDE DEF Good
  <2> QED
    BY <1>4, <1>5, <1>6, <1>7, <2>1
       DEF Proceed, Link, Grant, ExchangeFails, Verify, OtherRequest
<1>8. UNCHANGED subs => \A i \in DOMAIN subs' : Good(subs'[i], pkce')
  BY <1>4
<1> HIDE DEF Good
<1> QED
  BY <1>3, <1>7, <1>8
     DEF Next, Ask, BeginLink, CompleteLink, FindSub, StorageFails, Crash, vars

LEMMA SoundInit == Init => Sound
<1> SUFFICES ASSUME Init PROVE Sound
  OBVIOUS
<1>1. TypeOK
  BY TypeInit
<1>2. DOMAIN pkce = {} /\ DOMAIN sessions = {} /\ DOMAIN subs = {}
  BY DEF Init
<1>3. Frames
  BY IdleFits DEF Init, Frames
<1> QED
  BY <1>1, <1>2, <1>3
     DEF Sound, Begun, Linked, OneUserPerIdentity, SessionIsTheirs, LandsInItsPool,
         OnlyVerifiedJoin

LEMMA SoundStep == Sound /\ [Next]_vars => Sound'
<1> SUFFICES ASSUME Sound, [Next]_vars PROVE Sound'
  OBVIOUS
<1>1. TypeOK'
  BY TypeStep, FramesHeld DEF Sound
<1>2. Frames'
  BY FramesStep DEF Sound
<1> QED
  BY <1>1, <1>2, BegunStep, SessionsStep, SubsStep DEF Sound

\* The strengthening holds throughout, on both engines.
THEOREM AlwaysSound == Spec => []Sound
  BY SoundInit, SoundStep, PTL DEF Spec

\* Every variable keeps its type: no credential is tried more than verifyAttempts
\* times (verifyGrant).
THEOREM TypeCorrect == Spec => []TypeOK
<1>1. Sound => TypeOK
  BY DEF Sound
<1> QED BY <1>1, AlwaysSound, PTL

\* Sessions of one identity are sessions of one user (resolveOrCreateUser): what
\* the unique index keeps, and the loser of two first logins is refused for.
THEOREM OneUserPerIdentityHolds == Spec => []OneUserPerIdentity
<1>1. Sound => OneUserPerIdentity
  BY DEF Sound
<1> QED BY <1>1, AlwaysSound, PTL

\* A session is of somebody who logged in at the issuer on the URL of the state its
\* callback redeemed (verifyIdToken, completeLogin), for any keys and key sets.
THEOREM SessionIsTheirsHolds == Spec => []SessionIsTheirs
<1>1. Sound => SessionIsTheirs
  BY DEF Sound
<1> QED BY <1>1, AlwaysSound, PTL

\* A subscription lands in the pool and with the owner its link was begun with,
\* whoever brings the state back (completeLink).  Neither this nor the next
\* theorem needs a state to be redeemed once.
THEOREM LandsInItsPoolHolds == Spec => []LandsInItsPool
<1>1. Sound => LandsInItsPool
  BY DEF Sound
<1> QED BY <1>1, AlwaysSound, PTL

\* No credential the provider did not accept becomes a subscription (completeLink).
THEOREM OnlyVerifiedJoinHolds == Spec => []OnlyVerifiedJoin
<1>1. Sound => OnlyVerifiedJoin
  BY DEF Sound
<1> QED BY <1>1, AlwaysSound, PTL

\* A subscription changes by its owner's disable only: what the owner check read
\* is still so when setStatus writes, two awaits later (SubscriptionsService.disable).
THEOREM OwnersOnlyHolds == Spec => OwnersOnly
<1> DEFINE Own ==
      \A i \in DOMAIN subs :
        subs'[i] # subs[i] =>
          /\ subs'[i] = [subs[i] EXCEPT !.active = FALSE]
          /\ subs[i].owner # 0
          /\ \E r \in Calls : call[r].at = "disable" /\ call[r].user = subs[i].owner
<1>1. ASSUME Sound, [Next]_vars
      PROVE  [Own]_vars
  <2>1. Held /\ TypeOK
    BY <1>1, FramesHeld DEF Sound
  <2>2. UNCHANGED subs => Own
    OBVIOUS
  <2>3. ASSUME NEW r \in Calls, AddSubscription(r)
        PROVE  Own
    <3> DEFINE s == call[r].item
               row == [pool |-> pkce[s].pool, owner |-> OwnerOf(r), from |-> s,
                       good |-> call[r].good, active |-> TRUE]
    <3>1. subs' = Append(subs, row) /\ subs \in Seq(SubRow)
      BY <2>1, <2>3 DEF AddSubscription, TypeOK
    <3> HIDE DEF row
    <3>2. \A i \in DOMAIN subs : subs'[i] = subs[i]
      BY <3>1
    <3> QED BY <3>2
  <2>4. ASSUME NEW r \in Calls, Disable(r)
        PROVE  Own
    <3>1. /\ call[r].at = "disable" /\ call[r].user # 0
          /\ subs[call[r].item].owner = call[r].user
      BY <1>1, <2>4 DEF Disable, Sound, Frames, Fits
    <3>2. \A i \in DOMAIN subs :
            subs'[i] = IF i = call[r].item THEN [subs[i] EXCEPT !.active = FALSE]
                                           ELSE subs[i]
      BY <2>1, <2>4, DisableRows
    <3> QED BY <3>1, <3>2
  <2>5. ASSUME NEW r \in Calls, Proceed(r)
        PROVE  Own
    <3> HIDE DEF Own
    <3> QED
      BY <2>2, <2>3, <2>4, <2>5 DEF Proceed, Link, Grant, ExchangeFails, Verify, OtherRequest
  <2> HIDE DEF Own
  <2> QED
    BY <1>1, <2>2, <2>5
       DEF Next, Ask, BeginLink, CompleteLink, FindSub, StorageFails, Crash, vars
<1>2. [][Own]_vars => OwnersOnly
  BY PTL DEF OwnersOnly
<1> QED BY <1>1, <1>2, AlwaysSound, PTL DEF Spec

-----------------------------------------------------------------------------
\* Where transactions are serialised, the one that runs has the engine, and what
\* its SELECT found is still so: the row it is about to mark is not spent.
Exclusive ==
  \A r \in Calls : call[r].at \in {"mark", "commit"} =>
    engine = r /\ ~pkce[call[r].item].spent

\* Only a spent state has been redeemed, and that once.
SpentOnce ==
  \A s \in DOMAIN pkce :
    pkce[s].redeemed <= 1 /\ (~pkce[s].spent => pkce[s].redeemed = 0)

Redemption == Exclusive /\ SpentOnce

LEMMA RestKeeps ==
  ASSUME Redemption, UNCHANGED <<pkce, engine, call>>
  PROVE  Redemption'
  BY DEF Redemption, SpentOnce, Exclusive

\* A call that is not, or no longer, in a transaction moves on.
LEMMA MoveKeeps ==
  ASSUME TypeOK, Redemption, NEW r \in Calls, NEW f,
         f.at \notin {"mark", "commit"}, Become(r, f), UNCHANGED <<pkce, engine>>
  PROVE  Redemption'
<1>1. SpentOnce'
  BY DEF Redemption, SpentOnce
<1>2. Exclusive'
  BY DEF TypeOK, Redemption, Exclusive, Become
<1> QED BY <1>1, <1>2 DEF Redemption

LEMMA AnswerKeeps ==
  ASSUME TypeOK, Redemption, NEW r \in Calls, Answer(r), UNCHANGED <<pkce, engine>>
  PROVE  Redemption'
<1>1. Idle.at \notin {"mark", "commit"}
  BY DEF Idle
<1> QED BY <1>1, MoveKeeps DEF Answer

LEMMA NewStateKeeps ==
  ASSUME TypeOK, Held, Redemption, NEW kind, NEW pool, NEW owner,
         NewState(kind, pool, owner), UNCHANGED <<engine, identities, subs>>,
         UNCHANGED call \/ \E r \in Calls : Answer(r)
  PROVE  Redemption'
<1> DEFINE row == [kind |-> kind, pool |-> pool, owner |-> owner,
                   spent |-> FALSE, redeemed |-> 0]
<1>1. /\ \A s \in DOMAIN pkce' : s \in DOMAIN pkce \/ pkce'[s] = row
      /\ \A s \in DOMAIN pkce : pkce'[s] = pkce[s]
  BY NewStateRows
<1>2. SpentOnce'
  BY <1>1 DEF Redemption, SpentOnce
<1>3. \A r \in Calls : call'[r].at \in {"mark", "commit"} => call'[r] = call[r]
  BY DEF TypeOK, Answer, Become, Idle
<1>4. Exclusive'
  BY <1>1, <1>3 DEF Redemption, Exclusive, Held
<1> QED BY <1>2, <1>4 DEF Redemption

LEMMA ConsumeKeeps ==
  ASSUME Serialised, TypeOK, Held, Redemption, NEW r \in Calls,
         Consume(r) \/ Rollback(r), UNCHANGED <<accountVars, subs>>
  PROVE  Redemption'
<1>f. call[r] \in Frame
  BY DEF TypeOK
<1>1. CASE Select(r) /\ Redeemable(call[r].item)
  <2>1. \A q \in Calls : call[q].at \notin {"mark", "commit"}
    BY <1>1 DEF Redemption, Exclusive, Select, EngineFree
  <2>2. \A q \in Calls : call'[q] =
          IF q = r THEN [call[r] EXCEPT !.at = "mark"] ELSE call[q]
    BY <1>1 DEF Select, Goto, Become, TypeOK
  <2>3. Exclusive'
    BY <1>1, <1>f, <2>1, <2>2 DEF Exclusive, Select, Redeemable, Frame
  <2>4. SpentOnce'
    BY <1>1 DEF Redemption, SpentOnce, Select
  <2> QED BY <2>3, <2>4 DEF Redemption
<1>2. CASE Select(r) /\ ~Redeemable(call[r].item)
  BY <1>2, AnswerKeeps DEF Select
<1>3. CASE Mark(r)
  <2>1. \A q \in Calls : call'[q] =
          IF q = r THEN [call[r] EXCEPT !.at = "commit"] ELSE call[q]
    BY <1>3 DEF Mark, Goto, Become, TypeOK
  <2>2. Exclusive'
    BY <1>3, <1>f, <2>1 DEF Redemption, Exclusive, Mark, Frame
  <2>3. SpentOnce'
    BY <1>3 DEF Redemption, SpentOnce, Mark
  <2> QED BY <2>2, <2>3 DEF Redemption
\* Either way the call leaves the transaction, and it was the only one in one.
<1>4. ASSUME Commit(r) \/ Rollback(r)
      PROVE  Exclusive'
  <2>1. \A q \in Calls : q # r => call[q].at \notin {"mark", "commit"}
    BY <1>4 DEF Redemption, Exclusive, Commit, Rollback
  <2>2. \A q \in Calls : q # r => call'[q] = call[q]
    BY <1>4 DEF Commit, Rollback, Goto, Answer, Become, TypeOK
  <2>3. call'[r].at \in {"exchange", "idle"}
    <3>1. Goto(r, "exchange") \/ Answer(r)
      BY <1>4 DEF Commit, Rollback
    <3> QED BY <1>f, <3>1 DEF Goto, Answer, Become, Idle, Frame, TypeOK
  <2> QED BY <2>1, <2>2, <2>3 DEF Exclusive
<1>5. CASE Commit(r)
  <2> DEFINE s == call[r].item
  <2>1. s \in DOMAIN pkce /\ ~pkce[s].spent /\ pkce[s].redeemed = 0
    BY <1>5 DEF Commit, Held, Redemption, Exclusive, SpentOnce
  <2>2. /\ DOMAIN pkce' = DOMAIN pkce /\ pkce'[s].spent /\ pkce'[s].redeemed \in {0, 1}
        /\ \A t \in DOMAIN pkce : t # s => pkce'[t] = pkce[t]
    BY <1>5, <2>1, CommitRows DEF accountVars
  <2> HIDE DEF s
  <2>3. SpentOnce'
    BY <2>2 DEF Redemption, SpentOnce
  <2> QED BY <1>4, <1>5, <2>3 DEF Redemption
<1>6. CASE Rollback(r)
  BY <1>4, <1>6 DEF Redemption, SpentOnce, Rollback
<1> QED BY <1>1, <1>2, <1>3, <1>5, <1>6 DEF Consume

\* So the steps outside PkceStore: where they leave their call, it is in no
\* transaction.
LEMMA LogInKeeps ==
  ASSUME TypeOK, Redemption, NEW r \in Calls, LogIn(r)
  PROVE  Redemption'
<1>f. call[r] \in Frame
  BY DEF TypeOK
<1>1. UNCHANGED <<pkce, engine>>
  BY DEF LogIn, Identify, Lookup, InsertUser, LinkIdentity, OpenSession
<1>2. ASSUME NEW f \in Frame, f.at \notin {"mark", "commit"}, Become(r, f)
      PROVE  Redemption'
  BY <1>1, <1>2, MoveKeeps
<1>3. ASSUME Answer(r)
      PROVE  Redemption'
  BY <1>1, <1>3, AnswerKeeps
<1>4. ASSUME NEW a \in {"session", "newUser"}, Goto(r, a)
      PROVE  Redemption'
  <2>1. /\ [call[r] EXCEPT !.at = a].at \notin {"mark", "commit"}
        /\ [call[r] EXCEPT !.at = a] \in Frame
    BY <1>f, <1>4 DEF Frame, At
  <2> QED BY <1>2, <1>4, <2>1 DEF Goto
<1>5. ASSUME NEW e \in Externals, Identify(r, e)
      PROVE  Redemption'
  <2> DEFINE f == [call[r] EXCEPT !.at = "lookup", !.ext = e]
  <2>1. f.at = "lookup"
    BY <1>f DEF Frame
  <2>2. Become(r, f)
    BY <1>5 DEF Identify
  <2> HIDE DEF f
  <2> QED BY <1>1, <2>1, <2>2, MoveKeeps
<1>6. CASE Lookup(r)
  <2> DEFINE f == [call[r] EXCEPT !.at = "session", !.user = identities[call[r].ext]]
  <2>1. f.at = "session"
    BY <1>f DEF Frame
  <2>2. Become(r, f) \/ Goto(r, "newUser")
    BY <1>6 DEF Lookup
  <2> HIDE DEF f
  <2> QED BY <1>1, <1>4, <2>1, <2>2, MoveKeeps
<1>7. CASE InsertUser(r)
  <2> DEFINE f == [call[r] EXCEPT !.at = "identity", !.user = users + 1]
  <2>1. f.at = "identity"
    BY <1>f DEF Frame
  <2>2. Become(r, f)
    BY <1>7 DEF InsertUser
  <2> HIDE DEF f
  <2> QED BY <1>1, <2>1, <2>2, MoveKeeps
<1>8. CASE LinkIdentity(r) \/ OpenSession(r)
  BY <1>3, <1>4, <1>8 DEF LinkIdentity, OpenSession
<1> QED BY <1>5, <1>6, <1>7, <1>8 DEF LogIn

LEMMA LinkKeeps ==
  ASSUME TypeOK, Redemption, NEW r \in Calls, Link(r)
  PROVE  Redemption'
<1>f. call[r] \in Frame
  BY DEF TypeOK
<1>1. UNCHANGED <<pkce, engine>>
  BY DEF Link, Grant, ExchangeFails, Verify, AddSubscription, Disable
<1>2. ASSUME NEW good \in BOOLEAN, Grant(r, good)
      PROVE  Redemption'
  <2> DEFINE f == [call[r] EXCEPT !.at = "verify", !.good = good]
  <2>1. f.at = "verify"
    BY <1>f DEF Frame
  <2>2. Become(r, f)
    BY <1>2 DEF Grant
  <2> HIDE DEF f
  <2> QED BY <1>1, <2>1, <2>2, MoveKeeps
<1>3. ASSUME NEW v, Verify(r, v)
      PROVE  Redemption'
  <2> DEFINE f == [call[r] EXCEPT !.tries = @ + 1]
             g == [call[r] EXCEPT !.at = "add"]
  <2>1. f.at = "verify" /\ g.at = "add"
    BY <1>f, <1>3 DEF Frame, Verify
  <2>2. Become(r, f) \/ Become(r, g) \/ Answer(r)
    BY <1>3 DEF Verify, Goto
  <2> HIDE DEF f, g
  <2> QED BY <1>1, <2>1, <2>2, MoveKeeps, AnswerKeeps
<1>4. Answer(r) => Redemption'
  BY <1>1, AnswerKeeps
<1> QED BY <1>2, <1>3, <1>4 DEF Link, ExchangeFails, AddSubscription, Disable

LEMMA AskKeeps ==
  ASSUME TypeOK, Held, Redemption, NEW r \in Calls, Ask(r)
  PROVE  Redemption'
<1>f. call[r] \in Frame
  BY DEF TypeOK
<1>1. ASSUME NEW pool \in {"user", "donor"}, BeginLink(r, pool)
      PROVE  Redemption'
  BY <1>1, NewStateKeeps DEF BeginLink, accountVars
<1>2. ASSUME NEW s \in 1..MaxStates, CompleteLink(r, s)
      PROVE  Redemption'
  <2> DEFINE f == [call[r] EXCEPT !.at = "consume", !.kind = "subscription", !.item = s]
  <2>1. f.at = "consume"
    BY <1>f DEF Frame
  <2>2. Become(r, f) /\ UNCHANGED <<pkce, engine>>
    BY <1>2 DEF CompleteLink
  <2> HIDE DEF f
  <2> QED BY <2>1, <2>2, MoveKeeps
<1>3. ASSUME NEW i \in DOMAIN subs, FindSub(r, i)
      PROVE  Redemption'
  <2> DEFINE f == [call[r] EXCEPT !.at = "disable", !.item = i]
  <2>1. f.at = "disable"
    BY <1>f DEF Frame
  <2>2. (Become(r, f) \/ Answer(r)) /\ UNCHANGED <<pkce, engine>>
    BY <1>3 DEF FindSub
  <2> HIDE DEF f
  <2> QED BY <2>1, <2>2, MoveKeeps, AnswerKeeps
<1> QED BY <1>1, <1>2, <1>3 DEF Ask

LEMMA ArriveKeeps ==
  ASSUME TypeOK, Redemption, NEW r \in Calls, Arrive(r)
  PROVE  Redemption'
<1>1. ASSUME NEW s, Callback(r, s)
      PROVE  Redemption'
  <2> DEFINE f == [Idle EXCEPT !.at = "consume", !.kind = "login", !.item = s]
  <2>1. f.at = "consume"
    BY DEF Idle
  <2>2. Become(r, f) /\ UNCHANGED <<pkce, engine>>
    BY <1>1 DEF Callback
  <2> HIDE DEF f
  <2> QED BY <2>1, <2>2, MoveKeeps
<1>2. ASSUME NEW i, Authenticate(r, i)
      PROVE  Redemption'
  <2> DEFINE f == [Idle EXCEPT !.at = "body", !.kind = "api", !.user = sessions[i].user]
  <2>1. f.at = "body"
    BY DEF Idle
  <2>2. Become(r, f) /\ UNCHANGED <<pkce, engine>>
    BY <1>2 DEF Authenticate
  <2> HIDE DEF f
  <2> QED BY <2>1, <2>2, MoveKeeps
<1> QED BY <1>1, <1>2 DEF Arrive

LEMMA RedemptionStep ==
  ASSUME Serialised, Sound, Redemption, [Next]_vars
  PROVE  Redemption'
<1>1. TypeOK /\ Held
  BY FramesHeld DEF Sound
<1>2. CASE BeginLogin /\ UNCHANGED subs
  BY <1>1, <1>2, NewStateKeeps DEF BeginLogin, accountVars
<1>3. ASSUME NEW r \in Calls, Proceed(r)
      PROVE  Redemption'
  BY <1>1, <1>3, ConsumeKeeps, LogInKeeps, LinkKeeps, AnswerKeeps
     DEF Proceed, OtherRequest
<1>4. ASSUME NEW r \in Calls, StorageFails(r)
      PROVE  Redemption'
  BY <1>1, <1>4, AnswerKeeps DEF StorageFails
<1>5. CASE Crash
  <2>1. SpentOnce'
    BY <1>5 DEF Crash, Redemption, SpentOnce
  <2>2. Exclusive'
    BY <1>5 DEF Crash, Exclusive, Idle
  <2> QED BY <2>1, <2>2 DEF Redemption
<1>6. CASE (\E i \in DOMAIN sessions : EndSession(i)) \/ UNCHANGED vars
  BY <1>6, RestKeeps DEF EndSession, vars
<1> QED
  BY <1>1, <1>2, <1>3, <1>4, <1>5, <1>6, ArriveKeeps, AskKeeps, ConsumeKeeps DEF Next

LEMMA RedemptionInit == Init => Redemption
<1> SUFFICES ASSUME Init PROVE Redemption
  OBVIOUS
<1>1. DOMAIN pkce = {} /\ \A r \in Calls : call[r].at = "idle"
  BY DEF Init, Idle
<1> QED BY <1>1 DEF Redemption, Exclusive, SpentOnce

\* On SQLite, where a transaction is one operation of the chain, a state is
\* redeemed once (SqlitePkceSessionRepository.consume under SqliteEngine.enqueue),
\* whatever fails and wherever the process dies.
THEOREM RedeemedOnceHolds ==
  ASSUME Serialised
  PROVE  Spec => []RedeemedOnce
<1>1. Init => Redemption
  BY RedemptionInit
<1>2. Sound /\ Redemption /\ [Next]_vars => Redemption'
  BY RedemptionStep
<1>3. Redemption => RedeemedOnce
  BY DEF Redemption, SpentOnce, RedeemedOnce
<1> QED BY <1>1, <1>2, <1>3, AlwaysSound, PTL DEF Spec

-----------------------------------------------------------------------------
(* What a redeemed state is good for: Management implements OneTimeState.   *)
(* Tickets says who may still make something of a state: at most one call,  *)
(* of the flow the state was made for, and none once it has yielded a row.  *)

LoginStages == {"lookup", "newUser", "identity", "session"}

Ticket(f) ==
  /\ f.item \in DOMAIN pkce /\ pkce[f.item].spent /\ pkce[f.item].kind = f.kind
  /\ f.at \in LoginStages => f.kind = "login"
  /\ ~Yielded(f.item)

OneCarrier == \A q, r \in Calls :
  call[q].at \in UnderWay /\ call[r].at \in UnderWay /\ call[q].item = call[r].item
    => q = r

SessionsFromLogins == \A i \in DOMAIN sessions :
  LET s == sessions[i].from IN
  s \in DOMAIN pkce /\ pkce[s].spent /\ pkce[s].kind = "login"

\* Two sessions come from two states, and so do two subscriptions: a state that is
\* brought back again, at the same time or later, yields nothing more.
OneYield ==
  /\ \A i, j \in DOMAIN sessions : sessions[i].from = sessions[j].from => i = j
  /\ \A i, j \in DOMAIN subs : subs[i].from = subs[j].from => i = j

Tickets ==
  /\ DOMAIN pkce \subseteq 1..MaxStates
  /\ \A r \in Calls : call[r].at \in UnderWay => Ticket(call[r])
  /\ OneCarrier /\ SessionsFromLogins /\ OneYield

fates == [s \in 1..MaxStates |-> Fate(s)]
flows == [s \in 1..MaxStates |-> FlowOf(s)]

\* The abstract steps, read off the mapped state.
LEMMA DropMapped ==
  ASSUME NEW dropped \in SUBSET (1..MaxStates), \A s \in dropped : Fate(s) = "held",
         \A s \in 1..MaxStates : Fate(s)' = IF s \in dropped THEN "void" ELSE Fate(s),
         flows' = flows, UNCHANGED <<opened, added>>
  PROVE  States!Next
<1>1. States!Drop(dropped)
  BY DEF States!Drop, flows
<1> QED BY <1>1 DEF States!Next

LEMMA IssueMapped ==
  ASSUME NEW t \in 1..MaxStates, NEW kind \in {"login", "subscription"},
         Fate(t) = "unmade",
         \A s \in 1..MaxStates : Fate(s)' = IF s = t THEN "open" ELSE Fate(s),
         \A s \in 1..MaxStates : FlowOf(s)' = IF s = t THEN kind ELSE FlowOf(s),
         UNCHANGED <<opened, added>>
  PROVE  States!Next
<1>1. States!Issue(t, kind)
  BY DEF States!Issue
<1> QED BY <1>1 DEF States!Next, States!Flow

LEMMA RedeemMapped ==
  ASSUME NEW t \in 1..MaxStates, NEW f \in {"held", "void"}, Fate(t) = "open",
         \A s \in 1..MaxStates : Fate(s)' = IF s = t THEN f ELSE Fate(s),
         flows' = flows, UNCHANGED <<opened, added>>
  PROVE  States!Next
<1>1. States!Redeem(t)
  BY DEF States!Redeem, flows
<1> QED BY <1>1 DEF States!Next

LEMMA YieldMapped ==
  ASSUME NEW t \in 1..MaxStates, Fate(t) = "held",
         \A s \in 1..MaxStates : Fate(s)' = IF s = t THEN "used" ELSE Fate(s),
         flows' = flows,
         \/ FlowOf(t) = "login" /\ opened' = Append(opened, t) /\ UNCHANGED added
         \/ FlowOf(t) = "subscription" /\ added' = Append(added, t) /\ UNCHANGED opened
  PROVE  States!Next
<1>1. States!Yield(t)
  BY DEF States!Yield, flows
<1> QED BY <1>1 DEF States!Next

\* A step that redeems nothing and adds no row: the calls it lets go of drop theirs.
Narrows == \A r \in Calls :
  call'[r].at \in UnderWay =>
    /\ call[r].at \in UnderWay
    /\ call'[r].item = call[r].item /\ call'[r].kind = call[r].kind
    /\ call'[r].at \in LoginStages => call'[r].kind = "login"

RowsKept ==
  /\ UNCHANGED pkce
  /\ DOMAIN sessions' = DOMAIN sessions /\ DOMAIN subs' = DOMAIN subs
  /\ \A i \in DOMAIN sessions : sessions'[i].from = sessions[i].from
  /\ \A i \in DOMAIN subs : subs'[i].from = subs[i].from

LEMMA QuietTickets ==
  ASSUME Tickets, Narrows, RowsKept
  PROVE  Tickets'
<1>1. \A s : Yielded(s)' <=> Yielded(s)
  BY DEF RowsKept, Yielded
<1>2. \A r \in Calls : call'[r].at \in UnderWay => Ticket(call[r])
  BY DEF Narrows, Tickets
<1>3. ASSUME NEW r \in Calls, call'[r].at \in UnderWay
      PROVE  Ticket(call[r])'
  BY <1>1, <1>2, <1>3 DEF Narrows, RowsKept, Ticket
<1>4. OneCarrier'
  BY DEF Narrows, Tickets, OneCarrier
<1>5. SessionsFromLogins' /\ OneYield'
  BY DEF RowsKept, Tickets, SessionsFromLogins, OneYield
<1> QED BY <1>3, <1>4, <1>5 DEF Tickets, RowsKept

LEMMA QuietMaps ==
  ASSUME Tickets, Narrows, RowsKept
  PROVE  States!Next
<1> DEFINE dropped == {s \in 1..MaxStates : Fate(s) = "held" /\ ~Carried(s)'}
<1>1. \A s : Yielded(s)' <=> Yielded(s)
  BY DEF RowsKept, Yielded
<1>2. \A s : Carried(s)' => Carried(s)
  BY DEF Narrows, Carried
<1>3. \A s \in 1..MaxStates : Fate(s)' = IF s \in dropped THEN "void" ELSE Fate(s)
  BY <1>1, <1>2 DEF Fate, RowsKept
<1>4. flows' = flows
  BY DEF RowsKept, flows, FlowOf
<1>5. UNCHANGED <<opened, added>>
  BY DEF RowsKept, opened, added
<1>6. dropped \in SUBSET (1..MaxStates) /\ \A s \in dropped : Fate(s) = "held"
  OBVIOUS
<1> HIDE DEF dropped
<1> QED BY <1>3, <1>4, <1>5, <1>6, DropMapped

LEMMA NarrowsTo ==
  ASSUME TypeOK, Tickets, NEW r \in Calls, NEW f, Become(r, f),
         f.at \in UnderWay =>
           /\ call[r].at \in UnderWay
           /\ f.item = call[r].item /\ f.kind = call[r].kind
           /\ f.at \in LoginStages => f.kind = "login"
  PROVE  Narrows
<1> SUFFICES ASSUME NEW q \in Calls, call'[q].at \in UnderWay
             PROVE  /\ call[q].at \in UnderWay
                    /\ call'[q].item = call[q].item /\ call'[q].kind = call[q].kind
                    /\ call'[q].at \in LoginStages => call'[q].kind = "login"
  BY DEF Narrows
<1>1. call'[q] = IF q = r THEN f ELSE call[q]
  BY DEF TypeOK, Become
<1>2. CASE q = r
  BY <1>1, <1>2
<1>3. CASE q # r
  BY <1>1, <1>3 DEF Tickets, Ticket
<1> QED BY <1>2, <1>3

LEMMA NarrowsAnswer ==
  ASSUME TypeOK, Tickets, NEW r \in Calls, Answer(r)
  PROVE  Narrows
<1>1. Idle.at \notin UnderWay
  BY DEF Idle, UnderWay
<1> QED BY <1>1, NarrowsTo DEF Answer

\* A call that leaves for a step outside the flow, or has not redeemed anything yet.
LEMMA NarrowsOut ==
  ASSUME TypeOK, Tickets, NEW r \in Calls, NEW a \in At \ UnderWay, Goto(r, a)
  PROVE  Narrows
<1> DEFINE f == [call[r] EXCEPT !.at = a]
<1>1. f.at = a
  BY DEF TypeOK, Frame
<1>2. Become(r, f)
  BY DEF Goto
<1> HIDE DEF f
<1> QED BY <1>1, <1>2, NarrowsTo

LEMMA NarrowsSame ==
  ASSUME Tickets, UNCHANGED call
  PROVE  Narrows
  BY DEF Narrows, Tickets, Ticket

LEMMA QuietConsume ==
  ASSUME Sound, Tickets, NEW r \in Calls,
         Select(r) \/ Mark(r) \/ Rollback(r), UNCHANGED <<accountVars, subs>>
  PROVE  Narrows /\ RowsKept
<1>1. TypeOK
  BY DEF Sound
<1>2. Answer(r) \/ Goto(r, "mark") \/ Goto(r, "commit")
  BY DEF Select, Mark, Rollback
<1>3. {"mark", "commit"} \subseteq At \ UnderWay
  BY DEF At, UnderWay
<1>4. RowsKept
  BY DEF Select, Mark, Rollback, RowsKept, accountVars
<1> QED BY <1>1, <1>2, <1>3, <1>4, NarrowsAnswer, NarrowsOut

LEMMA QuietLogIn ==
  ASSUME Sound, Tickets, NEW r \in Calls, LogIn(r), ~OpenSession(r), UNCHANGED subs
  PROVE  Narrows /\ RowsKept
<1>f. TypeOK /\ call[r] \in Frame /\ (call[r].at \in UnderWay => Ticket(call[r]))
  BY DEF Sound, TypeOK, Tickets
<1>1. RowsKept
  BY DEF LogIn, Identify, Lookup, InsertUser, LinkIdentity, RowsKept, accountVars
<1>2. ASSUME NEW e \in Externals, Identify(r, e)
      PROVE  Narrows
  <2> DEFINE f == [call[r] EXCEPT !.at = "lookup", !.ext = e]
  <2>1. f.item = call[r].item /\ f.kind = call[r].kind
    BY <1>f DEF Frame
  <2>2. Become(r, f) /\ call[r].at = "exchange" /\ call[r].kind = "login"
    BY <1>2 DEF Identify
  <2> HIDE DEF f
  <2> QED BY <1>f, <2>1, <2>2, NarrowsTo DEF UnderWay
<1>3. CASE Lookup(r)
  <2> DEFINE f == [call[r] EXCEPT !.at = "session", !.user = identities[call[r].ext]]
             g == [call[r] EXCEPT !.at = "newUser"]
  <2>1. /\ f.item = call[r].item /\ f.kind = call[r].kind
        /\ g.item = call[r].item /\ g.kind = call[r].kind
    BY <1>f DEF Frame
  <2>2. (Become(r, f) \/ Become(r, g)) /\ call[r].at = "lookup"
    BY <1>3 DEF Lookup, Goto
  <2>3. call[r].at \in UnderWay /\ call[r].kind = "login"
    BY <1>f, <2>2 DEF UnderWay, Ticket, LoginStages
  <2> HIDE DEF f, g
  <2> QED BY <1>1, <1>f, <2>1, <2>2, <2>3, NarrowsTo
<1>4. CASE InsertUser(r)
  <2> DEFINE f == [call[r] EXCEPT !.at = "identity", !.user = users + 1]
  <2>1. f.item = call[r].item /\ f.kind = call[r].kind
    BY <1>f DEF Frame
  <2>2. Become(r, f) /\ call[r].at = "newUser"
    BY <1>4 DEF InsertUser
  <2>3. call[r].at \in UnderWay /\ call[r].kind = "login"
    BY <1>f, <2>2 DEF UnderWay, Ticket, LoginStages
  <2> HIDE DEF f
  <2> QED BY <1>1, <1>f, <2>1, <2>2, <2>3, NarrowsTo
<1>5. CASE LinkIdentity(r)
  <2> DEFINE f == [call[r] EXCEPT !.at = "session"]
  <2>1. f.item = call[r].item /\ f.kind = call[r].kind
    BY <1>f DEF Frame
  <2>2. (Become(r, f) \/ Answer(r)) /\ call[r].at = "identity"
    BY <1>5 DEF LinkIdentity, Goto
  <2>3. call[r].at \in UnderWay /\ call[r].kind = "login"
    BY <1>f, <2>2 DEF UnderWay, Ticket, LoginStages
  <2> HIDE DEF f
  <2> QED BY <1>1, <1>f, <2>1, <2>2, <2>3, NarrowsTo, NarrowsAnswer
<1> QED BY <1>1, <1>2, <1>3, <1>4, <1>5 DEF LogIn

LEMMA QuietLink ==
  ASSUME Sound, Tickets, NEW r \in Calls, Link(r), ~AddSubscription(r)
  PROVE  Narrows /\ RowsKept
<1>f. TypeOK /\ Held /\ call[r] \in Frame
  BY FramesHeld DEF Sound, TypeOK
<1>1. ASSUME NEW good \in BOOLEAN, Grant(r, good)
      PROVE  Narrows /\ RowsKept
  <2> DEFINE f == [call[r] EXCEPT !.at = "verify", !.good = good]
  <2>1. f.at = "verify" /\ f.item = call[r].item /\ f.kind = call[r].kind
    BY <1>f DEF Frame
  <2>2. Become(r, f) /\ call[r].at = "exchange"
    BY <1>1 DEF Grant
  <2>3. RowsKept
    BY <1>1 DEF Grant, RowsKept, accountVars
  <2> HIDE DEF f
  <2> QED BY <1>f, <2>1, <2>2, <2>3, NarrowsTo DEF UnderWay, LoginStages
<1>2. ASSUME NEW v, Verify(r, v)
      PROVE  Narrows /\ RowsKept
  <2> DEFINE f == [call[r] EXCEPT !.tries = @ + 1]
             g == [call[r] EXCEPT !.at = "add"]
  <2>1. /\ f.at = call[r].at /\ f.item = call[r].item /\ f.kind = call[r].kind
        /\ g.at = "add" /\ g.item = call[r].item /\ g.kind = call[r].kind
    BY <1>f DEF Frame
  <2>2. (Become(r, f) \/ Become(r, g) \/ Answer(r)) /\ call[r].at = "verify"
    BY <1>2 DEF Verify, Goto
  <2>3. RowsKept
    BY <1>2 DEF Verify, RowsKept, accountVars
  <2> HIDE DEF f, g
  <2> QED BY <1>f, <2>1, <2>2, <2>3, NarrowsTo, NarrowsAnswer DEF UnderWay, LoginStages
<1>3. CASE ExchangeFails(r)
  BY <1>f, <1>3, NarrowsAnswer DEF ExchangeFails, RowsKept, accountVars
<1>4. CASE Disable(r)
  <2>1. \A i \in DOMAIN subs : subs[i] \in SubRow
    BY <1>f, SubType
  <2>2. /\ DOMAIN subs' = DOMAIN subs
        /\ \A i \in DOMAIN subs : subs'[i].from = subs[i].from
    BY <1>f, <1>4, <2>1, DisableRows DEF RowsStay
  <2>3. Narrows
    BY <1>f, <1>4, NarrowsAnswer DEF Disable
  <2> QED BY <1>4, <2>2, <2>3 DEF Disable, RowsKept, accountVars
<1> QED BY <1>1, <1>2, <1>3, <1>4 DEF Link

\* Requests that arrive, ask for something else, are refused or cut off.
LEMMA QuietRest ==
  ASSUME Sound, Tickets,
         \/ \E r \in Calls : /\ OtherRequest(r) \/ StorageFails(r) \/ Arrive(r)
                             /\ UNCHANGED subs
         \/ \E r \in Calls, s \in 1..MaxStates : CompleteLink(r, s)
         \/ \E r \in Calls, i \in DOMAIN subs : FindSub(r, i)
         \/ \E i \in DOMAIN sessions : EndSession(i) /\ UNCHANGED subs
         \/ Crash \/ UNCHANGED vars
  PROVE  Narrows /\ RowsKept
<1>f. TypeOK /\ \A r \in Calls : call[r] \in Frame
  BY DEF Sound, TypeOK
<1>1. ASSUME NEW r \in Calls, OtherRequest(r) \/ StorageFails(r)
      PROVE  Narrows /\ RowsKept
  BY <1>f, <1>1, NarrowsAnswer DEF OtherRequest, StorageFails, RowsKept, accountVars
<1>2. ASSUME NEW r \in Calls, NEW s, Callback(r, s), UNCHANGED subs
      PROVE  Narrows /\ RowsKept
  <2> DEFINE f == [Idle EXCEPT !.at = "consume", !.kind = "login", !.item = s]
  <2>1. f.at \notin UnderWay
    BY DEF Idle, UnderWay
  <2>2. Become(r, f)
    BY <1>2 DEF Callback
  <2>3. RowsKept
    BY <1>2 DEF Callback, RowsKept, accountVars
  <2> HIDE DEF f
  <2> QED BY <1>f, <2>1, <2>2, <2>3, NarrowsTo
<1>3. ASSUME NEW r \in Calls, NEW i, Authenticate(r, i), UNCHANGED subs
      PROVE  Narrows /\ RowsKept
  <2> DEFINE f == [Idle EXCEPT !.at = "body", !.kind = "api", !.user = sessions[i].user]
  <2>1. f.at \notin UnderWay
    BY DEF Idle, UnderWay
  <2>2. Become(r, f)
    BY <1>3 DEF Authenticate
  <2>3. RowsKept
    BY <1>3 DEF Authenticate, RowsKept, accountVars
  <2> HIDE DEF f
  <2> QED BY <1>f, <2>1, <2>2, <2>3, NarrowsTo
<1>4. ASSUME NEW r \in Calls, NEW s \in 1..MaxStates, CompleteLink(r, s)
      PROVE  Narrows /\ RowsKept
  <2> DEFINE f == [call[r] EXCEPT !.at = "consume", !.kind = "subscription", !.item = s]
  <2>1. f.at \notin UnderWay
    BY <1>f DEF Frame, UnderWay
  <2>2. Become(r, f)
    BY <1>4 DEF CompleteLink
  <2>3. RowsKept
    BY <1>4 DEF CompleteLink, RowsKept, accountVars
  <2> HIDE DEF f
  <2> QED BY <1>f, <2>1, <2>2, <2>3, NarrowsTo
<1>5. ASSUME NEW r \in Calls, NEW i \in DOMAIN subs, FindSub(r, i)
      PROVE  Narrows /\ RowsKept
  <2> DEFINE f == [call[r] EXCEPT !.at = "disable", !.item = i]
  <2>1. f.at \notin UnderWay
    BY <1>f DEF Frame, UnderWay
  <2>2. Become(r, f) \/ Answer(r)
    BY <1>5 DEF FindSub
  <2>3. RowsKept
    BY <1>5 DEF FindSub, RowsKept, accountVars
  <2> HIDE DEF f
  <2> QED BY <1>f, <2>1, <2>2, <2>3, NarrowsTo, NarrowsAnswer
<1>6. ASSUME NEW i \in DOMAIN sessions, EndSession(i), UNCHANGED subs
      PROVE  Narrows /\ RowsKept
  <2>1. \A j \in DOMAIN sessions : sessions[j] \in SessionRow
    BY <1>f, SessionType
  <2>2. /\ DOMAIN sessions' = DOMAIN sessions
        /\ \A j \in DOMAIN sessions : sessions'[j].from = sessions[j].from
    BY <1>6, <2>1 DEF EndSession, SessionRow
  <2>3. RowsKept
    BY <1>6, <2>2 DEF EndSession, RowsKept
  <2> QED BY <1>6, <2>3, NarrowsSame DEF EndSession
<1>7. CASE Crash
  <2>1. Narrows
    BY <1>7 DEF Crash, Narrows, Idle, UnderWay
  <2> QED BY <1>7, <2>1 DEF Crash, RowsKept, accountVars
<1>8. CASE UNCHANGED vars
  BY <1>8, NarrowsSame DEF vars, RowsKept, accountVars
<1> QED BY <1>1, <1>2, <1>3, <1>4, <1>5, <1>6, <1>7, <1>8 DEF Arrive

LEMMA AnswerCalls ==
  ASSUME TypeOK, NEW r \in Calls, Answer(r)
  PROVE  /\ \A q \in Calls : q # r => call'[q] = call[q]
         /\ call'[r].at = "idle" /\ call'[r].at \notin UnderWay
<1>1. Idle.at = "idle"
  BY DEF Idle
<1>2. call' = [call EXCEPT ![r] = Idle]
  BY DEF Answer, Become
<1> QED BY <1>1, <1>2 DEF TypeOK, UnderWay

\* A new state is open, and nobody carries it or has got anything for it.
LEMMA IssueMaps ==
  ASSUME Sound, Tickets, NEW kind \in {"login", "subscription"}, NEW pool, NEW owner,
         NewState(kind, pool, owner), UNCHANGED <<identities, sessions, subs>>,
         UNCHANGED call \/ \E r \in Calls : call[r].at = "body" /\ Answer(r)
  PROVE  Tickets' /\ States!Next
<1> DEFINE row == [kind |-> kind, pool |-> pool, owner |-> owner,
                   spent |-> FALSE, redeemed |-> 0]
           t == Len(pkce) + 1
<1> HIDE DEF row
<1>1. /\ DOMAIN pkce' = DOMAIN pkce \cup {t} /\ t \notin DOMAIN pkce
      /\ t \in 1..MaxStates
      /\ \A s \in DOMAIN pkce : pkce'[s] = pkce[s]
      /\ pkce'[t] = row
  <2>1. pkce \in Seq(StateRow) /\ pkce' = Append(pkce, row) /\ Len(pkce) < MaxStates
    BY DEF NewState, row, Sound, TypeOK
  <2> QED BY <2>1
<1>2. row.kind = kind /\ ~row.spent
  BY DEF row
<1> HIDE DEF t
<1>3. \A r \in Calls :
        /\ call'[r].at \in UnderWay <=> call[r].at \in UnderWay
        /\ call'[r].at \in UnderWay => call'[r] = call[r]
  <2>1. CASE UNCHANGED call
    BY <2>1
  <2>2. ASSUME NEW r \in Calls, call[r].at = "body", Answer(r)
        PROVE  \A q \in Calls :
                 /\ call'[q].at \in UnderWay <=> call[q].at \in UnderWay
                 /\ call'[q].at \in UnderWay => call'[q] = call[q]
    BY <2>2, AnswerCalls DEF Sound, UnderWay
  <2> QED BY <2>1, <2>2
<1>4. \A s : (Yielded(s)' <=> Yielded(s)) /\ (Carried(s)' <=> Carried(s))
  BY <1>3 DEF Yielded, Carried
<1>5. ASSUME NEW r \in Calls, call'[r].at \in UnderWay
      PROVE  Ticket(call[r])'
  <2>1. Ticket(call[r]) /\ call'[r] = call[r]
    BY <1>3, <1>5 DEF Tickets
  <2> QED BY <1>1, <1>4, <2>1 DEF Ticket
<1>6. OneCarrier' /\ OneYield'
  BY <1>3 DEF Tickets, OneCarrier, OneYield
<1>7. SessionsFromLogins'
  BY <1>1 DEF Tickets, SessionsFromLogins
<1>8. Tickets'
  BY <1>1, <1>5, <1>6, <1>7 DEF Tickets
<1>9. \A s \in 1..MaxStates : Fate(s)' = IF s = t THEN "open" ELSE Fate(s)
  BY <1>1, <1>2, <1>4 DEF Fate
<1>10. \A s \in 1..MaxStates : FlowOf(s)' = IF s = t THEN kind ELSE FlowOf(s)
  BY <1>1, <1>2 DEF FlowOf
<1>11. Fate(t) = "unmade" /\ UNCHANGED <<opened, added>>
  BY <1>1 DEF Fate, opened, added
<1> QED BY <1>1, <1>8, <1>9, <1>10, <1>11, IssueMapped

\* What has yielded a row has been redeemed.
LEMMA YieldedSpent ==
  ASSUME Sound, Tickets, NEW s, Yielded(s)
  PROVE  s \in DOMAIN pkce /\ pkce[s].spent
  BY DEF Sound, Linked, LandsInItsPool, Tickets, SessionsFromLogins, Yielded

\* A commit redeems a state that was open: nobody else carries it.
LEMMA CommitMaps ==
  ASSUME Sound, Redemption, Tickets, NEW r \in Calls, Commit(r),
         UNCHANGED <<accountVars, subs>>
  PROVE  Tickets' /\ States!Next
<1> DEFINE mine == pkce[call[r].item].kind = call[r].kind
<1>t. PICK t : t = call[r].item
  OBVIOUS
<1>f. TypeOK /\ Held /\ call[r] \in Frame
  BY FramesHeld DEF Sound, TypeOK
<1>1. t \in DOMAIN pkce /\ ~pkce[t].spent /\ call[r].at = "commit"
  BY <1>f, <1>t DEF Commit, Held, Redemption, Exclusive
<1>2. /\ DOMAIN pkce' = DOMAIN pkce
      /\ pkce'[t].spent
      /\ \A s \in DOMAIN pkce : s # t => pkce'[s] = pkce[s]
      /\ \A s \in DOMAIN pkce : pkce'[s].kind = pkce[s].kind
      /\ \A s \in DOMAIN pkce : pkce[s].spent => pkce'[s].spent
  BY <1>f, <1>t, <1>1, CommitRows DEF RowsStay, accountVars
<1>3. \A s : Yielded(s)' <=> Yielded(s)
  BY DEF Yielded, accountVars
<1>4. ~Yielded(t)
  BY <1>1, YieldedSpent
<1>5. \A q \in Calls : q # r => call'[q] = call[q]
  <2>1. Goto(r, "exchange") \/ Answer(r)
    BY DEF Commit
  <2> QED BY <1>f, <2>1, AnswerCalls DEF Goto, Become, TypeOK
<1>6. \A q \in Calls : call[q].at \in UnderWay => q # r /\ call[q].item # t
  BY <1>1 DEF Tickets, Ticket, UnderWay
<1>7. /\ mine => /\ call'[r].at = "exchange" /\ call'[r].item = t
                 /\ call'[r].kind = call[r].kind
      /\ ~mine => call'[r].at \notin UnderWay
  <2>1. CASE mine
    <3>1. call' = [call EXCEPT ![r] = [call[r] EXCEPT !.at = "exchange"]]
      BY <2>1 DEF Commit, Goto, Become
    <3> QED BY <1>f, <1>t, <2>1, <3>1 DEF TypeOK, Frame
  <2>2. CASE ~mine
    <3>1. Answer(r)
      BY <2>2 DEF Commit
    <3> QED BY <1>f, <2>2, <3>1, AnswerCalls
  <2> QED BY <2>1, <2>2
<1>8. ASSUME NEW q \in Calls, call'[q].at \in UnderWay
      PROVE  Ticket(call[q])'
  <2>1. CASE q = r
    BY <1>t, <1>1, <1>2, <1>3, <1>4, <1>7, <1>8, <2>1 DEF Ticket, LoginStages
  <2>2. CASE q # r
    <3>1. call'[q] = call[q] /\ Ticket(call[q])
      BY <1>5, <1>8, <2>2 DEF Tickets
    <3> QED BY <1>2, <1>3, <3>1 DEF Ticket
  <2> QED BY <2>1, <2>2
<1>9. OneCarrier'
  BY <1>5, <1>6, <1>7 DEF Tickets, OneCarrier
<1>10. SessionsFromLogins' /\ OneYield'
  BY <1>2 DEF Tickets, SessionsFromLogins, OneYield, accountVars
<1>11. Tickets'
  BY <1>2, <1>8, <1>9, <1>10 DEF Tickets
<1>12. \A s : s # t => (Carried(s)' <=> Carried(s))
  BY <1>5, <1>6, <1>7 DEF Carried
<1>13. Carried(t)' <=> mine
  BY <1>5, <1>6, <1>7 DEF Carried, UnderWay
<1>14. Fate(t) = "open" /\ Fate(t)' = IF mine THEN "held" ELSE "void"
  BY <1>1, <1>2, <1>3, <1>4, <1>13 DEF Fate
<1>15. \A s \in 1..MaxStates : s # t => Fate(s)' = Fate(s)
  BY <1>2, <1>3, <1>12 DEF Fate
<1>16. flows' = flows /\ UNCHANGED <<opened, added>>
  BY <1>2 DEF flows, FlowOf, opened, added, accountVars
<1>17. t \in 1..MaxStates
  BY <1>1 DEF Tickets
<1> HIDE DEF mine
<1> QED BY <1>11, <1>14, <1>15, <1>16, <1>17, RedeemMapped

\* A call that has its row added is the only one that carries the state, and it
\* is answered: the state is used.
LEMMA YieldMaps ==
  ASSUME Sound, Tickets, NEW r \in Calls, call[r].at \in UnderWay, Answer(r),
         UNCHANGED pkce,
         \A s : Yielded(s)' <=> Yielded(s) \/ s = call[r].item
  PROVE  LET t == call[r].item IN
         /\ \A q \in Calls : call'[q].at \in UnderWay => Ticket(call[q])'
         /\ OneCarrier'
         /\ t \in 1..MaxStates /\ ~Yielded(t) /\ t \in DOMAIN pkce /\ pkce[t].spent
         /\ Fate(t) = "held"
         /\ \A s \in 1..MaxStates : Fate(s)' = IF s = t THEN "used" ELSE Fate(s)
         /\ flows' = flows
<1>t. PICK t : t = call[r].item
  OBVIOUS
<1>1. Ticket(call[r])
  BY DEF Tickets
<1>2. t \in 1..MaxStates /\ ~Yielded(t) /\ t \in DOMAIN pkce /\ pkce[t].spent
  BY <1>t, <1>1 DEF Ticket, Tickets
<1>3. /\ \A q \in Calls : q # r => call'[q] = call[q]
      /\ call'[r].at \notin UnderWay
  BY AnswerCalls DEF Sound
<1>4. \A q \in Calls : q # r /\ call[q].at \in UnderWay => call[q].item # t
  BY <1>t DEF Tickets, OneCarrier
<1>5. ASSUME NEW q \in Calls, call'[q].at \in UnderWay
      PROVE  Ticket(call[q])'
  <2>1. q # r /\ call'[q] = call[q] /\ Ticket(call[q]) /\ call[q].item # t
    BY <1>3, <1>4, <1>5 DEF Tickets
  <2> QED BY <1>t, <2>1 DEF Ticket
<1>6. OneCarrier'
  BY <1>3 DEF Tickets, OneCarrier
<1>7. \A s : s # t => (Carried(s)' <=> Carried(s)) /\ (Yielded(s)' <=> Yielded(s))
  BY <1>t, <1>3, <1>4 DEF Carried
<1>8. Fate(t) = "held" /\ Fate(t)' = "used"
  <2>1. Carried(t) /\ Yielded(t)'
    BY <1>t DEF Carried
  <2> QED BY <1>2, <2>1 DEF Fate
<1>9. \A s \in 1..MaxStates : s # t => Fate(s)' = Fate(s)
  BY <1>7 DEF Fate
<1>10. flows' = flows
  BY DEF flows, FlowOf
<1> QED BY <1>t, <1>2, <1>5, <1>6, <1>8, <1>9, <1>10

LEMMA AppendIs ==
  ASSUME NEW S, NEW q \in Seq(S), NEW e \in S, NEW p,
         DOMAIN p = 1..(Len(q) + 1), p = [i \in DOMAIN p |-> p[i]],
         \A i \in 1..Len(q) : p[i] = q[i], p[Len(q) + 1] = e
  PROVE  p = Append(q, e)
<1> DEFINE a == Append(q, e)
<1>1. /\ a \in Seq(S) /\ Len(a) = Len(q) + 1
      /\ \A i \in 1..Len(q) : a[i] = q[i]
      /\ a[Len(q) + 1] = e
  BY AppendProperties
<1>2. Len(q) \in Nat /\ \A i \in 1..Len(q) : q[i] \in S
  BY ElementOfSeq, LenProperties
<1> HIDE DEF a
<1>3. \A i \in 1..(Len(q) + 1) : p[i] = a[i] /\ p[i] \in S
  BY <1>1, <1>2
<1>4. p \in Seq(S) /\ Len(p) = Len(q) + 1
  BY <1>2, <1>3
<1>5. p = a
  BY <1>1, <1>2, <1>3, <1>4, SeqEqual
<1> QED BY <1>5 DEF a

LEMMA OpenMaps ==
  ASSUME Sound, Tickets, NEW r \in Calls, OpenSession(r), UNCHANGED subs
  PROVE  Tickets' /\ States!Next
<1> DEFINE row == [user |-> call[r].user, ext |-> call[r].ext, from |-> call[r].item,
                   ended |-> FALSE]
<1>t. PICK t : t = call[r].item
  OBVIOUS
<1>1. row.from = t /\ sessions' = Append(sessions, row)
  BY <1>t DEF OpenSession
<1> HIDE DEF row
<1>2. call[r].at \in UnderWay /\ Ticket(call[r]) /\ call[r].kind = "login"
  BY DEF OpenSession, UnderWay, Tickets, Ticket, LoginStages
<1>n. PICK n \in Nat : n = Len(sessions)
  BY DEF Sound, TypeOK
<1>3. /\ DOMAIN sessions = 1..n /\ DOMAIN sessions' = 1..(n + 1)
      /\ \A i \in 1..n : sessions'[i] = sessions[i]
      /\ sessions'[n + 1] = row
  <2>1. sessions \in Seq(SessionRow)
    BY DEF Sound, TypeOK
  <2> QED BY <1>1, <1>n, <2>1
<1>4. \A s : Yielded(s)' <=> Yielded(s) \/ s = t
  <2>1. \A i \in 1..(n + 1) : i \in 1..n \/ i = n + 1
    OBVIOUS
  <2>2. n + 1 \in 1..(n + 1) /\ 1..n \subseteq 1..(n + 1)
    OBVIOUS
  <2>3. \A s : (\E i \in DOMAIN sessions' : sessions'[i].from = s)
                 <=> (\E i \in DOMAIN sessions : sessions[i].from = s) \/ s = t
    BY <1>1, <1>3, <2>1, <2>2
  <2> QED BY <2>3 DEF Yielded
<1>5. /\ \A q \in Calls : call'[q].at \in UnderWay => Ticket(call[q])'
      /\ OneCarrier'
      /\ t \in 1..MaxStates /\ ~Yielded(t) /\ t \in DOMAIN pkce /\ pkce[t].spent
      /\ Fate(t) = "held"
      /\ \A s \in 1..MaxStates : Fate(s)' = IF s = t THEN "used" ELSE Fate(s)
      /\ flows' = flows
  BY <1>t, <1>2, <1>4, YieldMaps DEF OpenSession
<1>6. FlowOf(t) = "login"
  BY <1>t, <1>2, <1>5 DEF FlowOf, Ticket
<1>7. SessionsFromLogins'
  <2>1. \A i \in DOMAIN sessions' :
          (i \in DOMAIN sessions /\ sessions'[i] = sessions[i]) \/ sessions'[i] = row
    BY <1>3
  <2> QED BY <1>1, <1>5, <1>6, <2>1 DEF Tickets, SessionsFromLogins, FlowOf, OpenSession
<1>8. OneYield'
  <2>1. \A i \in DOMAIN sessions' :
          \/ i \in DOMAIN sessions /\ sessions'[i] = sessions[i] /\ sessions[i].from # t
          \/ i = n + 1 /\ i \notin DOMAIN sessions /\ sessions'[i].from = t
    BY <1>1, <1>3, <1>5 DEF Yielded
  <2> QED BY <2>1 DEF Tickets, OneYield
<1>9. Tickets'
  BY <1>5, <1>7, <1>8 DEF Tickets, OpenSession
<1>10. opened' = Append(opened, t) /\ UNCHANGED added
  <2>1. opened = [i \in 1..n |-> sessions[i].from]
    BY <1>3 DEF opened
  <2>2. opened' = [i \in 1..(n + 1) |-> sessions'[i].from]
    BY <1>3 DEF opened
  <2>3. \A i \in 1..n : sessions[i].from \in Nat
    <3>1. \A i \in DOMAIN sessions : sessions[i] \in SessionRow
      BY SessionType DEF Sound
    <3> QED BY <1>3, <3>1 DEF SessionRow
  <2>4. opened \in Seq(Nat) /\ Len(opened) = n
    BY <2>1, <2>3
  <2>5. t \in Nat
    BY <1>5
  <2>6. /\ DOMAIN opened' = 1..(n + 1) /\ opened' = [i \in DOMAIN opened' |-> opened'[i]]
        /\ \A i \in 1..n : opened'[i] = opened[i]
        /\ opened'[n + 1] = t
    BY <1>1, <1>3, <2>1, <2>2
  <2>7. opened' = Append(opened, t)
    BY <2>4, <2>5, <2>6, AppendIs
  <2> QED BY <2>7 DEF added
<1> QED BY <1>5, <1>6, <1>9, <1>10, YieldMapped

LEMMA AddMaps ==
  ASSUME Sound, Tickets, NEW r \in Calls, AddSubscription(r)
  PROVE  Tickets' /\ States!Next
<1> DEFINE s == call[r].item
           row == [pool |-> pkce[s].pool, owner |-> OwnerOf(r), from |-> s,
                   good |-> call[r].good, active |-> TRUE]
<1>t. PICK t : t = call[r].item
  OBVIOUS
<1>1. row.from = t /\ subs' = Append(subs, row)
  BY <1>t DEF AddSubscription
<1> HIDE DEF row, s
<1>2. /\ call[r].at \in UnderWay /\ Ticket(call[r])
      /\ t \in DOMAIN pkce /\ pkce[t].kind = "subscription"
  BY <1>t DEF AddSubscription, UnderWay, Tickets, Sound, Frames, Fits
<1>n. PICK n \in Nat : n = Len(subs)
  BY DEF Sound, TypeOK
<1>3. /\ DOMAIN subs = 1..n /\ DOMAIN subs' = 1..(n + 1)
      /\ \A i \in 1..n : subs'[i] = subs[i]
      /\ subs'[n + 1] = row
  <2>1. subs \in Seq(SubRow)
    BY DEF Sound, TypeOK
  <2> QED BY <1>1, <1>n, <2>1
<1>4. \A u : Yielded(u)' <=> Yielded(u) \/ u = t
  <2>1. \A i \in 1..(n + 1) : i \in 1..n \/ i = n + 1
    OBVIOUS
  <2>2. n + 1 \in 1..(n + 1) /\ 1..n \subseteq 1..(n + 1)
    OBVIOUS
  <2>3. \A u : (\E i \in DOMAIN subs' : subs'[i].from = u)
                 <=> (\E i \in DOMAIN subs : subs[i].from = u) \/ u = t
    BY <1>1, <1>3, <2>1, <2>2
  <2>4. UNCHANGED sessions
    BY DEF AddSubscription, accountVars
  <2> QED BY <2>3, <2>4 DEF Yielded
<1>5. /\ \A q \in Calls : call'[q].at \in UnderWay => Ticket(call[q])'
      /\ OneCarrier'
      /\ t \in 1..MaxStates /\ ~Yielded(t) /\ t \in DOMAIN pkce /\ pkce[t].spent
      /\ Fate(t) = "held"
      /\ \A u \in 1..MaxStates : Fate(u)' = IF u = t THEN "used" ELSE Fate(u)
      /\ flows' = flows
  BY <1>t, <1>2, <1>4, YieldMaps DEF AddSubscription
<1>6. FlowOf(t) = "subscription"
  BY <1>2 DEF FlowOf
<1>7. SessionsFromLogins'
  BY DEF Tickets, SessionsFromLogins, AddSubscription, accountVars
<1>8. OneYield'
  <2>1. \A i \in DOMAIN subs' :
          \/ i \in DOMAIN subs /\ subs'[i] = subs[i] /\ subs[i].from # t
          \/ i = n + 1 /\ i \notin DOMAIN subs /\ subs'[i].from = t
    BY <1>1, <1>3, <1>5 DEF Yielded
  <2> QED BY <2>1 DEF Tickets, OneYield, AddSubscription, accountVars
<1>9. Tickets'
  BY <1>5, <1>7, <1>8 DEF Tickets, AddSubscription
<1>10. added' = Append(added, t) /\ UNCHANGED opened
  <2>1. added = [i \in 1..n |-> subs[i].from]
    BY <1>3 DEF added
  <2>2. added' = [i \in 1..(n + 1) |-> subs'[i].from]
    BY <1>3 DEF added
  <2>3. \A i \in 1..n : subs[i].from \in Nat
    <3>1. \A i \in DOMAIN subs : subs[i] \in SubRow
      BY SubType DEF Sound
    <3> QED BY <1>3, <3>1 DEF SubRow
  <2>4. added \in Seq(Nat) /\ Len(added) = n
    BY <2>1, <2>3
  <2>5. t \in Nat
    BY <1>5
  <2>6. /\ DOMAIN added' = 1..(n + 1) /\ added' = [i \in DOMAIN added' |-> added'[i]]
        /\ \A i \in 1..n : added'[i] = added[i]
        /\ added'[n + 1] = t
    BY <1>1, <1>3, <2>1, <2>2
  <2>7. added' = Append(added, t)
    BY <2>4, <2>5, <2>6, AppendIs
  <2> QED BY <2>7 DEF opened, AddSubscription, accountVars
<1> QED BY <1>5, <1>6, <1>9, <1>10, YieldMapped

LEMMA TicketsStep ==
  ASSUME Sound, Redemption, Tickets, [Next]_vars
  PROVE  Tickets' /\ States!Next
<1>1. Narrows /\ RowsKept => Tickets' /\ States!Next
  BY QuietTickets, QuietMaps
<1>2. CASE BeginLogin /\ UNCHANGED subs
  BY <1>2, IssueMaps DEF BeginLogin, accountVars
<1>3. ASSUME NEW r \in Calls, Ask(r)
      PROVE  Tickets' /\ States!Next
  <2>1. ASSUME NEW pool \in {"user", "donor"}, BeginLink(r, pool)
        PROVE  Tickets' /\ States!Next
    BY <2>1, IssueMaps DEF BeginLink, accountVars
  <2> QED BY <1>1, <1>3, <2>1, QuietRest DEF Ask
<1>4. ASSUME NEW r \in Calls, Consume(r) \/ Rollback(r), UNCHANGED <<accountVars, subs>>
      PROVE  Tickets' /\ States!Next
  BY <1>1, <1>4, QuietConsume, CommitMaps DEF Consume
<1>5. ASSUME NEW r \in Calls, LogIn(r), UNCHANGED subs
      PROVE  Tickets' /\ States!Next
  BY <1>1, <1>5, QuietLogIn, OpenMaps
<1>6. ASSUME NEW r \in Calls, Link(r)
      PROVE  Tickets' /\ States!Next
  BY <1>1, <1>6, QuietLink, AddMaps
<1>7. ASSUME NEW r \in Calls, OtherRequest(r) \/ StorageFails(r)
      PROVE  Tickets' /\ States!Next
  BY <1>1, <1>7, QuietRest DEF OtherRequest, StorageFails
<1>8. ASSUME NEW r \in Calls, Proceed(r)
      PROVE  Tickets' /\ States!Next
  BY <1>4, <1>5, <1>6, <1>7, <1>8 DEF Proceed
<1> QED
  BY <1>1, <1>2, <1>3, <1>4, <1>7, <1>8, QuietRest DEF Next

LEMMA TicketsInit == Init => Tickets /\ States!Init
<1> SUFFICES ASSUME Init PROVE Tickets /\ States!Init
  OBVIOUS
<1>1. /\ DOMAIN pkce = {} /\ DOMAIN sessions = {} /\ DOMAIN subs = {}
      /\ \A r \in Calls : call[r].at \notin UnderWay
  BY DEF Init, Idle, UnderWay
<1>2. Tickets
  BY <1>1 DEF Tickets, OneCarrier, SessionsFromLogins, OneYield
<1>3. opened = <<>> /\ added = <<>>
  BY DEF Init, opened, added
<1> QED BY <1>1, <1>2, <1>3 DEF States!Init, Fate, FlowOf

\* On SQLite, what is behind the redemption of states: a session or a subscription
\* is the only one its state has yielded.
THEOREM OneYieldHolds ==
  ASSUME Serialised
  PROVE  Spec => []OneYield
<1>1. Sound /\ Redemption /\ Tickets /\ [Next]_vars => Redemption' /\ Tickets'
  BY RedemptionStep, TicketsStep
<1>2. Init => Tickets
  BY TicketsInit
<1>3. Tickets => OneYield
  BY DEF Tickets
<1> QED BY <1>1, <1>2, <1>3, RedemptionInit, AlwaysSound, PTL DEF Spec

\* On SQLite, logins and links implement the promise of one-time states, whatever
\* the calls bring back, however they interleave and wherever they are cut off.
THEOREM ImplementsStates ==
  ASSUME Serialised
  PROVE  Spec => KeepsStates
<1>1. Sound /\ Redemption /\ Tickets /\ [Next]_vars => Redemption' /\ Tickets'
  BY RedemptionStep, TicketsStep
<1>2. Sound /\ Redemption /\ Tickets /\ [Next]_vars => [States!Next]_(States!stateVars)
  BY TicketsStep
<1>3. Init => Tickets /\ States!Init
  BY TicketsInit
<1> QED
  BY <1>1, <1>2, <1>3, RedemptionInit, AlwaysSound, PTL DEF Spec, KeepsStates, States!Spec

-----------------------------------------------------------------------------
(* Why a call is answered: the variant behind CallAnswered *)

\* Steps a call still takes at most, from where its frame is.  Each inconclusive
\* verdict costs verifyGrant one of its attempts.
CallLeft(f) ==
  IF f.at = "idle" THEN 0
  ELSE IF f.at \in {"session", "add", "disable"} THEN 1
  ELSE IF f.at = "verify" THEN VerifyAttempts - f.tries + 1
  ELSE IF f.at = "identity" THEN 2
  ELSE IF f.at = "newUser" THEN 3
  ELSE IF f.at = "lookup" THEN 4
  ELSE VerifyAttempts + (IF f.at = "exchange" THEN 5
                         ELSE IF f.at = "commit" THEN 6
                         ELSE IF f.at = "mark" THEN 7
                         ELSE IF f.at = "consume" THEN 8 ELSE 9)

OwnMove(r) ==
  \/ Ask(r) \/ Proceed(r) \/ StorageFails(r)
  \/ Rollback(r) /\ UNCHANGED <<accountVars, subs>>

\* A call that is under way is left where it is by the steps of all others, or is
\* cut off by a crash; each step of its own brings it nearer to its answer, so it
\* has at most VerifyAttempts + 9 of them: the loop of verifyGrant, the flows and
\* the transactions of the store never start over.
CallsAdvance ==
  [][\A r \in Calls : call[r].at # "idle" =>
       /\ call'[r] = call[r] \/ CallLeft(call'[r]) < CallLeft(call[r])
       /\ OwnMove(r) => CallLeft(call'[r]) < CallLeft(call[r])]_vars

CallsBounded == \A r \in Calls : CallLeft(call[r]) \in 0..(VerifyAttempts + 9)

LEMMA LeftRange ==
  ASSUME NEW f \in Frame
  PROVE  CallLeft(f) \in 0..(VerifyAttempts + 9) /\ (f.at # "idle" => CallLeft(f) > 0)
  BY DEF Frame, At, CallLeft

LEMMA CallLeftIs ==
  ASSUME NEW f \in Frame
  PROVE  /\ f.at = "body" => CallLeft(f) = VerifyAttempts + 9
         /\ f.at = "consume" => CallLeft(f) = VerifyAttempts + 8
         /\ f.at = "mark" => CallLeft(f) = VerifyAttempts + 7
         /\ f.at = "commit" => CallLeft(f) = VerifyAttempts + 6
         /\ f.at = "exchange" => CallLeft(f) = VerifyAttempts + 5
         /\ f.at = "lookup" => CallLeft(f) = 4
         /\ f.at = "newUser" => CallLeft(f) = 3
         /\ f.at = "identity" => CallLeft(f) = 2
         /\ f.at = "verify" => CallLeft(f) = VerifyAttempts - f.tries + 1
         /\ f.at \in {"session", "add", "disable"} => CallLeft(f) = 1
         /\ f.tries \in 0..(VerifyAttempts - 1) /\ VerifyAttempts \in Nat \ {0}
  BY DEF Frame, CallLeft

LEMMA AnswerNears ==
  ASSUME TypeOK, NEW r \in Calls, Answer(r), call[r].at # "idle"
  PROVE  CallLeft(call'[r]) < CallLeft(call[r])
<1>1. call'[r] = Idle /\ CallLeft(Idle) = 0
  BY DEF TypeOK, Answer, Become, Idle, CallLeft
<1>2. call[r] \in Frame
  BY DEF TypeOK
<1> QED BY <1>1, <1>2, LeftRange

\* A call goes on to a later stage, where it has no more to do with verification.
LEMMA StageNears ==
  ASSUME TypeOK, NEW r \in Calls, NEW f \in Frame, Become(r, f),
         \/ call[r].at = "body" /\ f.at \in {"consume", "disable"}
         \/ call[r].at = "consume" /\ f.at = "mark"
         \/ call[r].at = "mark" /\ f.at = "commit"
         \/ call[r].at = "commit" /\ f.at = "exchange"
         \/ call[r].at = "exchange" /\ f.at = "lookup"
         \/ call[r].at = "exchange" /\ f.at = "verify"
         \/ call[r].at = "lookup" /\ f.at \in {"newUser", "session"}
         \/ call[r].at = "newUser" /\ f.at = "identity"
         \/ call[r].at = "identity" /\ f.at = "session"
         \/ call[r].at = "verify" /\ f.at = "add"
         \/ call[r].at = "verify" /\ f.at = "verify" /\ f.tries = call[r].tries + 1
  PROVE  CallLeft(call'[r]) < CallLeft(call[r])
<1>1. call'[r] = f /\ call[r] \in Frame
  BY DEF TypeOK, Become
<1>2. PICK g \in Frame : g = call[r]
  BY <1>1
<1>3. /\ f.at = "consume" => CallLeft(f) = VerifyAttempts + 8
      /\ f.at = "mark" => CallLeft(f) = VerifyAttempts + 7
      /\ f.at = "commit" => CallLeft(f) = VerifyAttempts + 6
      /\ f.at = "exchange" => CallLeft(f) = VerifyAttempts + 5
      /\ f.at = "lookup" => CallLeft(f) = 4
      /\ f.at = "newUser" => CallLeft(f) = 3
      /\ f.at = "identity" => CallLeft(f) = 2
      /\ f.at = "verify" => CallLeft(f) = VerifyAttempts - f.tries + 1
      /\ f.at \in {"session", "add", "disable"} => CallLeft(f) = 1
      /\ f.tries \in 0..(VerifyAttempts - 1) /\ VerifyAttempts \in Nat \ {0}
  BY CallLeftIs
<1>4. /\ g.at = "body" => CallLeft(g) = VerifyAttempts + 9
      /\ g.at = "consume" => CallLeft(g) = VerifyAttempts + 8
      /\ g.at = "mark" => CallLeft(g) = VerifyAttempts + 7
      /\ g.at = "commit" => CallLeft(g) = VerifyAttempts + 6
      /\ g.at = "exchange" => CallLeft(g) = VerifyAttempts + 5
      /\ g.at = "lookup" => CallLeft(g) = 4
      /\ g.at = "newUser" => CallLeft(g) = 3
      /\ g.at = "identity" => CallLeft(g) = 2
      /\ g.at = "verify" => CallLeft(g) = VerifyAttempts - g.tries + 1
      /\ g.tries \in 0..(VerifyAttempts - 1)
  BY CallLeftIs
<1>5. CallLeft(f) < CallLeft(g)
  <2>1. CASE g.at = "body" /\ f.at \in {"consume", "disable"}
    BY <1>3, <1>4, <2>1
  <2>2. CASE g.at \in {"consume", "mark", "commit"} /\ f.at \in {"mark", "commit", "exchange"}
    BY <1>2, <1>3, <1>4, <2>2
  <2>3. CASE g.at = "exchange" /\ f.at \in {"lookup", "verify"}
    BY <1>3, <1>4, <2>3
  <2>4. CASE g.at = "lookup" /\ f.at \in {"newUser", "session"}
    BY <1>3, <1>4, <2>4
  <2>5. CASE g.at \in {"newUser", "identity"} /\ f.at \in {"identity", "session"}
    BY <1>2, <1>3, <1>4, <2>5
  <2>6. CASE g.at = "verify" /\ f.at = "add"
    BY <1>3, <1>4, <2>6
  <2>7. CASE g.at = "verify" /\ f.at = "verify" /\ f.tries = g.tries + 1
    BY <1>3, <1>4, <2>7
  <2> QED BY <1>2, <2>1, <2>2, <2>3, <2>4, <2>5, <2>6, <2>7
<1> QED BY <1>1, <1>2, <1>5

LEMMA GotoNears ==
  ASSUME TypeOK, NEW r \in Calls, NEW a \in At, Goto(r, a),
         \/ call[r].at = "consume" /\ a = "mark"
         \/ call[r].at = "mark" /\ a = "commit"
         \/ call[r].at = "commit" /\ a = "exchange"
         \/ call[r].at = "lookup" /\ a = "newUser"
         \/ call[r].at = "identity" /\ a = "session"
         \/ call[r].at = "verify" /\ a = "add"
  PROVE  CallLeft(call'[r]) < CallLeft(call[r])
<1>1. call[r] \in Frame
  BY DEF TypeOK
<1> DEFINE f == [call[r] EXCEPT !.at = a]
<1>2. f \in Frame /\ f.at = a
  BY <1>1 DEF Frame
<1>3. Become(r, f)
  BY DEF Goto
<1> HIDE DEF f
<1> QED BY <1>2, <1>3, StageNears

LEMMA ConsumeNears ==
  ASSUME TypeOK, NEW r \in Calls, Consume(r) \/ Rollback(r)
  PROVE  CallLeft(call'[r]) < CallLeft(call[r])
<1>1. CASE Select(r)
  BY <1>1, AnswerNears, GotoNears DEF Select, At
<1>2. CASE Mark(r)
  BY <1>2, GotoNears DEF Mark, At
<1>3. CASE Commit(r)
  BY <1>3, AnswerNears, GotoNears DEF Commit, At
<1>4. CASE Rollback(r)
  BY <1>4, AnswerNears DEF Rollback
<1> QED BY <1>1, <1>2, <1>3, <1>4 DEF Consume

LEMMA LogInNears ==
  ASSUME TypeOK, Held, NEW r \in Calls, LogIn(r)
  PROVE  CallLeft(call'[r]) < CallLeft(call[r])
<1>f. call[r] \in Frame
  BY DEF TypeOK
<1>1. ASSUME NEW e \in Externals, Identify(r, e)
      PROVE  CallLeft(call'[r]) < CallLeft(call[r])
  <2> DEFINE f == [call[r] EXCEPT !.at = "lookup", !.ext = e]
  <2>1. f \in Frame /\ f.at = "lookup"
    BY <1>f DEF Frame, At
  <2>2. Become(r, f)
    BY <1>1 DEF Identify
  <2> HIDE DEF f
  <2> QED BY <1>1, <2>1, <2>2, StageNears DEF Identify
<1>2. CASE Lookup(r)
  <2> DEFINE known == identities[call[r].ext]
  <2>1. CASE known # 0
    <3>1. known \in Nat
      BY <1>2 DEF TypeOK, Lookup, Held
    <3> DEFINE f == [call[r] EXCEPT !.at = "session", !.user = known]
    <3>2. f \in Frame /\ f.at = "session"
      BY <1>f, <3>1 DEF Frame, At
    <3>3. Become(r, f)
      BY <1>2, <2>1 DEF Lookup
    <3> HIDE DEF f
    <3> QED BY <1>2, <2>1, <3>2, <3>3, StageNears DEF Lookup
  <2>2. CASE known = 0
    BY <1>2, <2>2, GotoNears DEF Lookup, At
  <2> QED BY <2>1, <2>2
<1>3. CASE InsertUser(r)
  <2>1. users + 1 \in Nat
    BY DEF TypeOK
  <2> DEFINE f == [call[r] EXCEPT !.at = "identity", !.user = users + 1]
  <2>2. f \in Frame /\ f.at = "identity"
    BY <1>f, <2>1 DEF Frame, At
  <2>3. Become(r, f)
    BY <1>3 DEF InsertUser
  <2> HIDE DEF f
  <2> QED BY <1>3, <2>2, <2>3, StageNears DEF InsertUser
<1>4. CASE LinkIdentity(r)
  BY <1>4, AnswerNears, GotoNears DEF LinkIdentity, At
<1>5. CASE OpenSession(r)
  BY <1>5, AnswerNears DEF OpenSession
<1> QED BY <1>1, <1>2, <1>3, <1>4, <1>5 DEF LogIn

LEMMA LinkNears ==
  ASSUME TypeOK, NEW r \in Calls, Link(r)
  PROVE  CallLeft(call'[r]) < CallLeft(call[r])
<1>f. call[r] \in Frame
  BY DEF TypeOK
<1>1. ASSUME NEW good \in BOOLEAN, Grant(r, good)
      PROVE  CallLeft(call'[r]) < CallLeft(call[r])
  <2> DEFINE f == [call[r] EXCEPT !.at = "verify", !.good = good]
  <2>1. f \in Frame /\ f.at = "verify"
    BY <1>f DEF Frame, At
  <2>2. Become(r, f)
    BY <1>1 DEF Grant
  <2> HIDE DEF f
  <2> QED BY <1>1, <2>1, <2>2, StageNears DEF Grant
<1>2. CASE ExchangeFails(r) \/ AddSubscription(r) \/ Disable(r)
  BY <1>2, AnswerNears DEF ExchangeFails, AddSubscription, Disable
<1>3. ASSUME NEW v, Verify(r, v)
      PROVE  CallLeft(call'[r]) < CallLeft(call[r])
  <2>1. CASE TriesAgain(r) /\ Become(r, [call[r] EXCEPT !.tries = @ + 1])
    <3> DEFINE f == [call[r] EXCEPT !.tries = @ + 1]
    <3>1. call[r].tries + 1 \in 0..(VerifyAttempts - 1)
      BY <1>f, <2>1 DEF TriesAgain, Frame
    <3>2. f \in Frame /\ f.at = call[r].at /\ f.tries = call[r].tries + 1
      BY <1>f, <3>1 DEF Frame
    <3>3. Become(r, f) /\ call[r].at = "verify"
      BY <1>3, <2>1 DEF Verify
    <3> HIDE DEF f
    <3> QED BY <3>2, <3>3, StageNears
  <2>2. CASE Goto(r, "add") \/ Answer(r)
    BY <1>3, <2>2, AnswerNears, GotoNears DEF Verify, At
  <2> QED BY <1>3, <2>1, <2>2 DEF Verify
<1> QED BY <1>1, <1>2, <1>3 DEF Link

LEMMA AskNears ==
  ASSUME TypeOK, NEW r \in Calls, Ask(r)
  PROVE  CallLeft(call'[r]) < CallLeft(call[r])
<1>f. call[r] \in Frame
  BY DEF TypeOK
<1>1. ASSUME NEW pool \in {"user", "donor"}, BeginLink(r, pool)
      PROVE  CallLeft(call'[r]) < CallLeft(call[r])
  BY <1>1, AnswerNears DEF BeginLink
<1>2. ASSUME NEW s \in 1..MaxStates, CompleteLink(r, s)
      PROVE  CallLeft(call'[r]) < CallLeft(call[r])
  <2> DEFINE f == [call[r] EXCEPT !.at = "consume", !.kind = "subscription", !.item = s]
  <2>1. f \in Frame /\ f.at = "consume"
    <3>1. s \in Nat
      OBVIOUS
    <3> QED BY <1>f, <3>1 DEF Frame, At
  <2>2. Become(r, f)
    BY <1>2 DEF CompleteLink
  <2> HIDE DEF f
  <2> QED BY <1>2, <2>1, <2>2, StageNears DEF CompleteLink
<1>3. ASSUME NEW i \in DOMAIN subs, FindSub(r, i)
      PROVE  CallLeft(call'[r]) < CallLeft(call[r])
  <2>1. i \in Nat
    BY LenProperties DEF TypeOK
  <2> DEFINE f == [call[r] EXCEPT !.at = "disable", !.item = i]
  <2>2. f \in Frame /\ f.at = "disable"
    BY <1>f, <2>1 DEF Frame, At
  <2>3. Become(r, f) \/ Answer(r)
    BY <1>3 DEF FindSub
  <2> HIDE DEF f
  <2> QED BY <1>3, <2>2, <2>3, AnswerNears, StageNears DEF FindSub
<1> QED BY <1>1, <1>2, <1>3 DEF Ask

LEMMA OwnNears ==
  ASSUME TypeOK, Held, NEW r \in Calls, OwnMove(r)
  PROVE  /\ CallLeft(call'[r]) < CallLeft(call[r])
         /\ \A q \in Calls \ {r} : call'[q] = call[q]
<1>1. CallLeft(call'[r]) < CallLeft(call[r])
  <2>1. CASE OtherRequest(r) \/ StorageFails(r)
    BY <2>1, AnswerNears DEF OtherRequest, StorageFails
  <2> QED BY <2>1, AskNears, ConsumeNears, LogInNears, LinkNears DEF OwnMove, Proceed
<1>2. \A q \in Calls \ {r} : call'[q] = call[q]
  <2>1. ASSUME NEW f, Become(r, f) PROVE \A q \in Calls \ {r} : call'[q] = call[q]
    BY <2>1 DEF Become, TypeOK
  <2>2. CASE \E a : Goto(r, a) \/ Answer(r)
    BY <2>1, <2>2 DEF Goto, Answer
  <2>3. CASE \/ BeginLink(r, "user") \/ BeginLink(r, "donor") \/ OtherRequest(r)
             \/ StorageFails(r) \/ Consume(r) \/ Rollback(r) \/ LinkIdentity(r)
             \/ OpenSession(r) \/ ExchangeFails(r) \/ AddSubscription(r) \/ Disable(r)
    BY <2>2, <2>3 DEF BeginLink, OtherRequest, StorageFails, Consume, Select, Mark, Commit,
         Rollback, LinkIdentity, OpenSession, ExchangeFails, AddSubscription, Disable
  <2>4. ASSUME NEW s \in 1..MaxStates, CompleteLink(r, s)
        PROVE  \A q \in Calls \ {r} : call'[q] = call[q]
    BY <2>1, <2>4 DEF CompleteLink
  <2>5. ASSUME NEW i \in DOMAIN subs, FindSub(r, i)
        PROVE  \A q \in Calls \ {r} : call'[q] = call[q]
    BY <2>1, <2>2, <2>5 DEF FindSub
  <2>6. ASSUME NEW e \in Externals, Identify(r, e)
        PROVE  \A q \in Calls \ {r} : call'[q] = call[q]
    BY <2>1, <2>6 DEF Identify
  <2>7. CASE Lookup(r) \/ InsertUser(r)
    BY <2>1, <2>2, <2>7 DEF Lookup, InsertUser
  <2>8. ASSUME NEW good \in BOOLEAN, Grant(r, good)
        PROVE  \A q \in Calls \ {r} : call'[q] = call[q]
    BY <2>1, <2>8 DEF Grant
  <2>9. ASSUME NEW v, Verify(r, v)
        PROVE  \A q \in Calls \ {r} : call'[q] = call[q]
    BY <2>1, <2>2, <2>9 DEF Verify
  <2> QED BY <2>3, <2>4, <2>5, <2>6, <2>7, <2>8, <2>9
          DEF OwnMove, Ask, Proceed, LogIn, Link
<1> QED BY <1>1, <1>2

LEMMA NearsStep ==
  ASSUME TypeOK, Held, [Next]_vars, NEW r \in Calls, call[r].at # "idle"
  PROVE  /\ call'[r] = call[r] \/ CallLeft(call'[r]) < CallLeft(call[r])
         /\ OwnMove(r) => CallLeft(call'[r]) < CallLeft(call[r])
<1>1. OwnMove(r) => CallLeft(call'[r]) < CallLeft(call[r])
  BY OwnNears
<1>2. ASSUME NEW q \in Calls, OwnMove(q)
      PROVE  call'[r] = call[r] \/ CallLeft(call'[r]) < CallLeft(call[r])
  <2>1. CASE q = r
    BY <1>1, <1>2, <2>1
  <2>2. CASE q # r
    BY <1>2, <2>2, OwnNears
  <2> QED BY <2>1, <2>2
<1>3. ASSUME NEW q \in Calls, Arrive(q) PROVE call'[r] = call[r]
  <2>1. CASE \E s \in 1..MaxStates : Callback(q, s)
    BY <2>1 DEF Callback, Become, TypeOK
  <2>2. CASE \E i \in DOMAIN sessions : Authenticate(q, i)
    BY <2>2 DEF Authenticate, Become, TypeOK
  <2> QED BY <1>3, <2>1, <2>2 DEF Arrive
<1>4. CASE Crash
  <2>1. call'[r] = Idle /\ CallLeft(Idle) = 0
    BY <1>4 DEF Crash, Idle, CallLeft
  <2>2. call[r] \in Frame
    BY DEF TypeOK
  <2> QED BY <1>1, <2>1, <2>2, LeftRange
<1>5. ASSUME \/ BeginLogin \/ \E i \in DOMAIN sessions : EndSession(i)
             \/ UNCHANGED vars
      PROVE  call'[r] = call[r]
  BY <1>5 DEF BeginLogin, EndSession, vars
<1> QED BY <1>1, <1>2, <1>3, <1>4, <1>5 DEF Next, OwnMove

\* However many callbacks, links and faults interleave, a call is answered within
\* VerifyAttempts + 9 steps of its own: the variant behind CallAnswered.
THEOREM CallsFinish == Spec => []CallsBounded /\ CallsAdvance
<1> DEFINE Nears == \A r \in Calls : call[r].at # "idle" =>
      /\ call'[r] = call[r] \/ CallLeft(call'[r]) < CallLeft(call[r])
      /\ OwnMove(r) => CallLeft(call'[r]) < CallLeft(call[r])
<1>1. Sound /\ [Next]_vars => [Nears]_vars
  BY NearsStep, FramesHeld DEF Sound
<1> HIDE DEF Nears
<1>2. [][Nears]_vars => CallsAdvance
  BY PTL DEF Nears, CallsAdvance
<1>3. Sound => CallsBounded
  BY LeftRange DEF Sound, TypeOK, CallsBounded
<1> QED BY <1>1, <1>2, <1>3, AlwaysSound, PTL DEF Spec

-----------------------------------------------------------------------------
(* Why the chain moves on: no operation waits for ever behind a transaction  *)

\* A transaction that has the engine can take its next step: nobody it waits for
\* waits for it (SqliteEngine.enqueue, the lock of the row).
ChainMoves ==
  engine # None =>
    \/ call[engine].at = "commit"
    \/ /\ call[engine].at = "mark"
       /\ \A q \in Calls : call[q].at = "commit" => call[q].item # call[engine].item

\* Whoever has the engine is in its transaction; only SQLite has one engine.
EngineHeld ==
  engine # None => Serialised /\ call[engine].at \in {"mark", "commit"}

LEMMA TransactionMoves ==
  ASSUME TypeOK, NEW r \in Calls, Consume(r) \/ Rollback(r)
  PROVE  \/ engine' = None
         \/ Serialised /\ engine' = r /\ call'[r].at \in {"mark", "commit"}
         \/ /\ call[r].at = "mark" /\ call'[r].at = "commit" /\ UNCHANGED engine
<1>f. call[r] \in Frame
  BY DEF TypeOK
<1>1. ASSUME NEW a \in {"mark", "commit"}, Goto(r, a)
      PROVE  call'[r].at = a
  BY <1>f, <1>1 DEF Goto, Become, TypeOK, Frame
<1>2. CASE Select(r)
  BY <1>1, <1>2 DEF Select, EngineFree
<1>3. CASE Mark(r)
  BY <1>1, <1>3 DEF Mark
<1>4. CASE Commit(r) \/ Rollback(r)
  BY <1>4 DEF Commit, Rollback, EngineAfterFailure
<1> QED BY <1>2, <1>3, <1>4 DEF Consume

LEMMA EngineStep ==
  ASSUME TypeOK, Held, EngineHeld, [Next]_vars
  PROVE  EngineHeld'
<1>n. None \notin Calls
  BY PkceStoreAssumption
\* Outside its transaction a call neither takes the engine nor is who has it.
<1>1. ASSUME NEW r \in Calls, OwnMove(r), UNCHANGED engine,
             call[r].at \notin {"mark", "commit"}
      PROVE  EngineHeld'
  <2>1. engine # r
    BY <1>1, <1>n DEF EngineHeld
  <2>2. \A q \in Calls \ {r} : call'[q] = call[q]
    BY <1>1, OwnNears
  <2> QED BY <1>1, <2>1, <2>2 DEF EngineHeld, TypeOK
<1>2. ASSUME NEW r \in Calls, OwnMove(r), Consume(r) \/ Rollback(r)
      PROVE  EngineHeld'
  <2>1. CASE engine' = None
    BY <2>1 DEF EngineHeld
  <2>2. CASE Serialised /\ engine' = r /\ call'[r].at \in {"mark", "commit"}
    BY <2>2 DEF EngineHeld
  <2>3. CASE call[r].at = "mark" /\ call'[r].at = "commit" /\ UNCHANGED engine
    <3>1. \A q \in Calls \ {r} : call'[q] = call[q]
      BY <1>2, OwnNears
    <3> QED BY <2>3, <3>1 DEF EngineHeld, TypeOK
  <2> QED BY <1>2, <2>1, <2>2, <2>3, TransactionMoves
<1>3. ASSUME NEW r \in Calls, LogIn(r) \/ Link(r) \/ OtherRequest(r) \/ StorageFails(r)
                              \/ Ask(r)
      PROVE  UNCHANGED engine /\ call[r].at \notin {"mark", "commit"}
  <2> DEFINE Outside == UNCHANGED engine /\ call[r].at \notin {"mark", "commit"}
  <2>1. \A e : Identify(r, e) => Outside
    BY DEF Identify
  <2>2. Lookup(r) \/ InsertUser(r) \/ LinkIdentity(r) \/ OpenSession(r) => Outside
    BY DEF Lookup, InsertUser, LinkIdentity, OpenSession
  <2>3. \A g : Grant(r, g) \/ Verify(r, g) => Outside
    BY DEF Grant, Verify
  <2>4. ExchangeFails(r) \/ AddSubscription(r) \/ Disable(r) => Outside
    BY DEF ExchangeFails, AddSubscription, Disable
  <2>5. \A x : BeginLink(r, x) \/ CompleteLink(r, x) \/ FindSub(r, x) => Outside
    BY DEF BeginLink, CompleteLink, FindSub
  <2>6. OtherRequest(r) \/ StorageFails(r) => Outside
    BY DEF OtherRequest, StorageFails
  <2> HIDE DEF Outside
  <2>7. Outside
    BY <1>3, <2>1, <2>2, <2>3, <2>4, <2>5, <2>6 DEF LogIn, Link, Ask
  <2> QED BY <2>7 DEF Outside
<1>4. ASSUME NEW r \in Calls, OwnMove(r)
      PROVE  EngineHeld'
  BY <1>1, <1>2, <1>3, <1>4 DEF OwnMove, Proceed
<1>5. ASSUME NEW r \in Calls, Arrive(r)
      PROVE  EngineHeld'
  <2>1. ASSUME NEW f, Become(r, f), UNCHANGED engine, call[r].at = "idle"
        PROVE  EngineHeld'
    BY <2>1 DEF EngineHeld, Become, TypeOK
  <2>2. ASSUME NEW s, Callback(r, s)
        PROVE  EngineHeld'
    BY <2>1, <2>2 DEF Callback
  <2>3. ASSUME NEW i, Authenticate(r, i)
        PROVE  EngineHeld'
    BY <2>1, <2>3 DEF Authenticate
  <2> QED BY <1>5, <2>2, <2>3 DEF Arrive
<1>6. CASE Crash
  BY <1>6 DEF Crash, EngineHeld
<1>7. CASE \/ BeginLogin \/ \E i \in DOMAIN sessions : EndSession(i)
           \/ UNCHANGED vars
  BY <1>7 DEF BeginLogin, EndSession, vars, EngineHeld
<1> QED BY <1>4, <1>5, <1>6, <1>7 DEF Next, OwnMove

\* No transaction is ever stuck with the engine, whatever failed or died before it:
\* the operations behind it get their turn (SqliteEngine.enqueue; CallAnswered).
THEOREM ChainNeverStuck == Spec => []ChainMoves
<1> DEFINE Alone == EngineHeld /\ (Serialised => Redemption)
<1>1. Init => Alone
  BY RedemptionInit DEF Init, EngineHeld
<1>2. Sound /\ Alone /\ [Next]_vars => Alone'
  BY EngineStep, RedemptionStep, FramesHeld DEF Sound
<1>3. Alone => ChainMoves
  BY DEF EngineHeld, Redemption, Exclusive, ChainMoves
<1> HIDE DEF Alone
<1> QED BY <1>1, <1>2, <1>3, AlwaysSound, PTL DEF Spec
=============================================================================
