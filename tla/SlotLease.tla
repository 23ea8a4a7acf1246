------------------------------ MODULE SlotLease ------------------------------
(***************************************************************************)
(* What the failover loop promises about subscriptions: a request holds at *)
(* most one slot at a time, never comes back to a subscription it has had, *)
(* takes at most MaxAttempts of them, and the in-flight counter of a       *)
(* subscription is moved in the same step that takes or gives back a slot. *)
(***************************************************************************)
EXTENDS Naturals, FiniteSets

CONSTANTS Requests, Subs, None, MaxAttempts

VARIABLES
  holder,  \* the subscription a request holds a slot of
  spent,   \* the subscriptions it has had so far
  count    \* slots taken of each subscription

leaseVars == <<holder, spent, count>>

Init ==
  /\ holder = [r \in Requests |-> None]
  /\ spent = [r \in Requests |-> {}]
  /\ count = [s \in Subs |-> 0]

Take(r, s) ==
  /\ holder[r] = None
  /\ s \notin spent[r]
  /\ Cardinality(spent[r]) < MaxAttempts
  /\ holder' = [holder EXCEPT ![r] = s]
  /\ spent' = [spent EXCEPT ![r] = @ \cup {s}]
  /\ count' = [count EXCEPT ![s] = @ + 1]

\* The slot is given back; `over` when the request ends with it.
GiveBack(r, over) ==
  /\ holder[r] # None
  /\ count[holder[r]] > 0
  /\ holder' = [holder EXCEPT ![r] = None]
  /\ spent' = IF over THEN [spent EXCEPT ![r] = {}] ELSE spent
  /\ count' = [count EXCEPT ![holder[r]] = @ - 1]

\* A request that holds nothing ends.
End(r) ==
  /\ holder[r] = None
  /\ spent' = [spent EXCEPT ![r] = {}]
  /\ UNCHANGED <<holder, count>>

Next == \E r \in Requests :
  \/ \E s \in Subs : Take(r, s)
  \/ \E over \in BOOLEAN : GiveBack(r, over)
  \/ End(r)

Spec == Init /\ [][Next]_leaseVars
=============================================================================
