--------------------------------- MODULE Linking ---------------------------------
(***************************************************************************)
(* SubscriptionOAuthService and SubscriptionsService: a user begins a link *)
(* for the own or the donor pool; whoever brings the state back has the    *)
(* code exchanged, the grant verified and the subscription added; its      *)
(* owner may disable it.  The provider decides what a credential is worth. *)
(***************************************************************************)
EXTENDS Accounts, Verdicts

CONSTANTS
  VerifyAttempts,  \* verifyAttempts
  MaxSubs          \* bound on subscription rows

ASSUME LinkingAssumption == VerifyAttempts \in Nat \ {0} /\ MaxSubs \in Nat

VARIABLE subs  \* subscriptions; from and good are history: its state, and whether
               \* the provider accepts its access token

Completing == {q \in Calls : call[q].kind = "subscription"}

\* POST /api/subscriptions/login: a donor link has no owner.
BeginLink(r, pool) ==
  /\ call[r].at = "body"
  /\ EngineFree
  /\ NewState("subscription", pool, IF pool = "user" THEN call[r].user ELSE 0)
  /\ Answer(r)
  /\ UNCHANGED <<engine, faults, accountVars, subs>>

\* POST /api/subscriptions/complete: any user may bring any state.
CompleteLink(r, s) ==
  /\ call[r].at = "body"
  /\ Len(subs) + Cardinality(Completing) < MaxSubs
  /\ Become(r, [call[r] EXCEPT !.at = "consume", !.kind = "subscription", !.item = s])
  /\ UNCHANGED <<pkce, engine, faults, accountVars, subs>>

\* exchangeCode: a grant, whose access token the provider accepts or not.
Grant(r, good) ==
  /\ call[r].at = "exchange" /\ call[r].kind = "subscription"
  /\ Become(r, [call[r] EXCEPT !.at = "verify", !.good = good])
  /\ UNCHANGED <<pkce, engine, faults, accountVars, subs>>

ReopensState(r) ==
  /\ call[r].at = "exchange"
  /\ Answer(r)
  /\ pkce' = [pkce EXCEPT ![call[r].item].spent = FALSE]
  /\ UNCHANGED <<engine, faults, accountVars, subs>>

\* exchangeCode throws, in either flow: the state stays spent.
ExchangeFails(r) ==
  /\ call[r].at = "exchange"
  /\ Answer(r)
  /\ UNCHANGED <<pkce, engine, faults, accountVars, subs>>

NotRefused(verdict) == verdict # "invalid"

\* completeLink returns a grant on this verdict only.
Accepted(verdict) == verdict = "valid"

OneAttemptMore(r) == call[r].tries + 1 <= VerifyAttempts

\* verifyGrant's loop
TriesAgain(r) == call[r].tries + 1 < VerifyAttempts

Verify(r, verdict) ==
  /\ call[r].at = "verify"
  /\ verdict \in Verdicts(call[r].good)
  /\ \/ /\ verdict = "inconclusive" /\ TriesAgain(r)
        /\ Become(r, [call[r] EXCEPT !.tries = @ + 1])
     \/ /\ ~(verdict = "inconclusive" /\ TriesAgain(r))
        /\ IF Accepted(verdict) THEN Goto(r, "add") ELSE Answer(r)
  /\ UNCHANGED <<pkce, engine, faults, accountVars, subs>>

CallersOwn(r) == call[r].user

\* The owner the state was created with, not who completes it.
OwnerOf(r) == pkce[call[r].item].owner

\* subscriptions.add, whose validatedOwner the state's row satisfies.
AddSubscription(r) ==
  LET s == call[r].item IN
  /\ call[r].at = "add"
  /\ EngineFree
  /\ subs' = Append(subs, [pool |-> pkce[s].pool, owner |-> OwnerOf(r), from |-> s,
                           good |-> call[r].good, active |-> TRUE])
  /\ Answer(r)
  /\ UNCHANGED <<pkce, engine, faults, accountVars>>

AnyUser(r, i) == TRUE

\* The owner check of disable; a donor row has no owner.
MayDisable(r, i) == subs[i].owner = call[r].user

\* disable: findById and the check ...
FindSub(r, i) ==
  /\ call[r].at = "body"
  /\ EngineFree
  /\ IF MayDisable(r, i)
       THEN Become(r, [call[r] EXCEPT !.at = "disable", !.item = i])
       ELSE Answer(r)
  /\ UNCHANGED <<pkce, engine, faults, accountVars, subs>>

\* ... then setStatus.
Disable(r) ==
  /\ call[r].at = "disable"
  /\ EngineFree
  /\ subs' = [subs EXCEPT ![call[r].item].active = FALSE]
  /\ Answer(r)
  /\ UNCHANGED <<pkce, engine, faults, accountVars>>

Link(r) ==
  \/ \E good \in BOOLEAN : Grant(r, good)
  \/ ExchangeFails(r)
  \/ \E v \in {"valid", "invalid", "inconclusive"} : Verify(r, v)
  \/ AddSubscription(r) \/ Disable(r)
=============================================================================
