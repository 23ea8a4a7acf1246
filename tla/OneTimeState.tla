----------------------------- MODULE OneTimeState -----------------------------
(***************************************************************************)
(* What the management server promises of the states it hands out with its *)
(* login and link URLs.  A state is good for one try: whoever redeems it   *)
(* ends up with one session or one subscription, or it comes to nothing,   *)
(* and either way it is never open again.                                  *)
(***************************************************************************)
EXTENDS Sequences

CONSTANT States

VARIABLES
  flow,    \* what each state was made for: "none" before it is made
  fate,    \* what has become of it
  opened,  \* the sessions: the state each comes from
  added    \* the subscriptions: the state each comes from

stateVars == <<flow, fate, opened, added>>

Flow == {"login", "subscription"}

Init ==
  /\ flow = [s \in States |-> "none"]
  /\ fate = [s \in States |-> "unmade"]
  /\ opened = <<>> /\ added = <<>>

Issue(s, f) ==
  /\ fate[s] = "unmade"
  /\ flow' = [flow EXCEPT ![s] = f]
  /\ fate' = [fate EXCEPT ![s] = "open"]
  /\ UNCHANGED <<opened, added>>

\* It is brought back: to the endpoint of its flow, or to the other one.
Redeem(s) ==
  /\ fate[s] = "open"
  /\ \E f \in {"held", "void"} : fate' = [fate EXCEPT ![s] = f]
  /\ UNCHANGED <<flow, opened, added>>

\* It is good for one row, of the kind it was made for.
Yield(s) ==
  /\ fate[s] = "held"
  /\ fate' = [fate EXCEPT ![s] = "used"]
  /\ \/ flow[s] = "login" /\ opened' = Append(opened, s) /\ UNCHANGED added
     \/ flow[s] = "subscription" /\ added' = Append(added, s) /\ UNCHANGED opened
  /\ UNCHANGED flow

\* A refusal or an error ends one flow, a crash all that are under way.
Drop(dropped) ==
  /\ \A s \in dropped : fate[s] = "held"
  /\ fate' = [s \in States |-> IF s \in dropped THEN "void" ELSE fate[s]]
  /\ UNCHANGED <<flow, opened, added>>

Next ==
  \/ \E s \in States, f \in Flow : Issue(s, f)
  \/ \E s \in States : Redeem(s) \/ Yield(s)
  \/ \E dropped \in SUBSET States : Drop(dropped)

Spec == Init /\ [][Next]_stateVars
=============================================================================
