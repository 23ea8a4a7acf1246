----------------------------- MODULE GrantCustody -----------------------------
(***************************************************************************)
(* What the token lifecycle promises of a subscription's grant.  A grant   *)
(* has one redeemable refresh token at a time, and it is in the row, in    *)
(* the hand of the process between the provider's reply and the write, or  *)
(* lost.  Only a mishap loses it, and a subscription once out of service   *)
(* stays out.                                                              *)
(***************************************************************************)
EXTENDS Naturals

CONSTANT Subs

VARIABLES place, inService, mishaps
custodyVars == <<place, inService, mishaps>>

Init ==
  /\ place = [s \in Subs |-> "row"]
  /\ inService = Subs
  /\ mishaps = 0

\* The token in the row is exchanged for the next one.
Redeem(s) ==
  /\ place[s] = "row"
  /\ place' = [place EXCEPT ![s] = "hand"]
  /\ UNCHANGED <<inService, mishaps>>

Persist(s) ==
  /\ place[s] = "hand"
  /\ place' = [place EXCEPT ![s] = "row"]
  /\ UNCHANGED <<inService, mishaps>>

\* One mishap may cost several subscriptions their token, or none.
Mishap(hit) ==
  /\ mishaps' = mishaps + 1
  /\ place' = [s \in Subs |-> IF s \in hit THEN "lost" ELSE place[s]]
  /\ UNCHANGED inService

Retire(s) ==
  /\ s \in inService
  /\ inService' = inService \ {s}
  /\ UNCHANGED <<place, mishaps>>

Next ==
  \/ \E s \in Subs : Redeem(s) \/ Persist(s) \/ Retire(s)
  \/ \E hit \in SUBSET Subs : Mishap(hit)

Spec == Init /\ [][Next]_custodyVars
=============================================================================
