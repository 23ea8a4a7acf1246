------------------------------- MODULE PkceStore -------------------------------
(***************************************************************************)
(* The one-time states of logins and subscription links, and the           *)
(* transaction that redeems one, on both storage engines.                  *)
(*                                                                         *)
(* SQLite: SqliteEngine runs one operation at a time off a promise chain,  *)
(* and a transaction is one operation however often it awaits.  Postgres:  *)
(* every transaction has a connection of its own at the default isolation  *)
(* level (read committed), and an UPDATE waits for the row lock only.      *)
(*                                                                         *)
(* A state is the index of its row; a call is a request in progress.       *)
(***************************************************************************)
EXTENDS Naturals, Sequences

CONSTANTS
  Calls,       \* requests the management server works on at a time
  None,        \* no call, no identity
  Serialised,  \* TRUE: SqliteEngine; FALSE: PostgresEngine
  MaxStates,   \* bound on the states ever created
  MaxFaults    \* bound on failing storage operations and crashes

ASSUME PkceStoreAssumption ==
  /\ None \notin Calls
  /\ Serialised \in BOOLEAN
  /\ MaxStates \in Nat /\ MaxFaults \in Nat

VARIABLES
  pkce,    \* pkce_sessions
  call,    \* the frame of each call: where it is and what it holds
  engine,  \* SqliteEngine.chain: the call whose transaction it is running
  faults   \* faults so far

Idle == [at |-> "idle", kind |-> "none", user |-> 0, item |-> 0,
         ext |-> None, good |-> FALSE, tries |-> 0]

Become(r, frame) == call' = [call EXCEPT ![r] = frame]
Goto(r, a) == Become(r, [call[r] EXCEPT !.at = a])
Answer(r) == Become(r, Idle)

Fault == faults < MaxFaults /\ faults' = faults + 1

\* An operation outside a transaction runs when the chain has come to it.
EngineFree == engine = None

\* create: the row of a new state.  redeemed is history: the calls it admitted.
NewState(kind, pool, owner) ==
  /\ Len(pkce) < MaxStates
  /\ pkce' = Append(pkce, [kind |-> kind, pool |-> pool, owner |-> owner,
                           spent |-> FALSE, redeemed |-> 0])

AnyRow(s) == s \in DOMAIN pkce

\* The SELECT of consume: a row that is there and not consumed.
Redeemable(s) == s \in DOMAIN pkce /\ ~pkce[s].spent

\* BEGIN and the SELECT; without a row the call is told "invalid or already used".
Select(r) ==
  /\ call[r].at = "consume"
  /\ EngineFree
  /\ IF Redeemable(call[r].item)
       THEN /\ Goto(r, "mark")
            /\ engine' = IF Serialised THEN r ELSE None
       ELSE Answer(r) /\ UNCHANGED engine
  /\ UNCHANGED <<pkce, faults>>

\* The UPDATE, which waits while another transaction holds the lock of the row.
Mark(r) ==
  /\ call[r].at = "mark"
  /\ \A q \in Calls : call[q].at = "commit" => call[q].item # call[r].item
  /\ Goto(r, "commit")
  /\ UNCHANGED <<pkce, engine, faults>>

\* The COMMIT: the UPDATE shows, the chain moves on, and the service goes on
\* with the row unless it belongs to the other kind of flow.
Commit(r) ==
  LET s == call[r].item
      row == pkce[s]
      mine == row.kind = call[r].kind
  IN
  /\ call[r].at = "commit"
  /\ pkce' = [pkce EXCEPT ![s] = [row EXCEPT !.spent = TRUE,
                                            !.redeemed = IF mine THEN @ + 1 ELSE @]]
  /\ IF mine THEN Goto(r, "exchange") ELSE Answer(r)
  /\ engine' = None
  /\ UNCHANGED faults

EngineStuck == engine

\* The chain's second handler: the next operation runs after a failed one too.
EngineAfterFailure == None

\* The UPDATE or the COMMIT throws: ROLLBACK, and the error goes to the caller.
Rollback(r) ==
  /\ call[r].at \in {"mark", "commit"}
  /\ Fault
  /\ Answer(r)
  /\ engine' = EngineAfterFailure
  /\ UNCHANGED pkce

Consume(r) == Select(r) \/ Mark(r) \/ Commit(r)
=============================================================================
