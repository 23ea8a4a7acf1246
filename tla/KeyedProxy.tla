------------------------------- MODULE KeyedProxy -------------------------------
(***************************************************************************)
(* AccessKeysService in front of the inference path: a request enters with *)
(* a proxy key, which alone decides whose pool serves it.  Keys are issued *)
(* and revoked while requests that they admitted are being served.         *)
(***************************************************************************)
EXTENDS Proxy

CONSTANTS
  Keys,   \* ids of proxy keys, which stand for their secrets too
  Users,  \* people; the own pool of a user has the user's name
  Donor   \* the donor pool

KeyRow == [user : Users, target : {"own", "donor"}, active : BOOLEAN]

ASSUME KeyedProxyAssumption == None \notin Keys /\ None \notin KeyRow

VARIABLES
  keys,      \* proxy_keys: the row of each key, None before it is issued
  revoking,  \* keys whose revocation has passed the owner check
  bearer     \* the key of each request

keyVars == <<keys, revoking, bearer>>

KeysOK ==
  /\ keys \in [Keys -> KeyRow \cup {None}]
  /\ revoking \subseteq Keys
  /\ bearer \in [Requests -> Keys \cup {None}]

KeyedInit ==
  /\ Init
  /\ keys = [k \in Keys |-> None]
  /\ revoking = {}
  /\ bearer = [r \in Requests |-> None]

Issued == {k \in Keys : keys[k] # None}

\* SelectionRequest: the pool a principal draws from.
PoolKindOf(row) == IF row.target = "own" THEN row.user ELSE Donor

\* issueKey, by the owner's session or the command line.  A pool without
\* subscriptions refuses at once: its keys are left out.
IssueKey(k, row) ==
  /\ keys[k] = None
  /\ row.active /\ PoolKindOf(row) \in Pools
  /\ keys' = [keys EXCEPT ![k] = row]
  /\ UNCHANGED <<vars, revoking, bearer>>

\* revokeKey: findById and the owner check ...
FindKey(u, k) ==
  /\ k \in Issued /\ keys[k].user = u
  /\ revoking' = revoking \cup {k}
  /\ UNCHANGED <<vars, keys, bearer>>

\* ... then the UPDATE.
RevokeKey(k) ==
  /\ k \in revoking
  /\ keys' = [keys EXCEPT ![k].active = FALSE]
  /\ revoking' = revoking \ {k}
  /\ UNCHANGED <<vars, bearer>>

Known(k) == k \in Issued

\* resolvePrincipal's condition
Resolves(k) == k \in Issued /\ keys[k].active

FirstDonor(k) == IF Donor \in Pools THEN Donor ELSE PoolKindOf(keys[k])
PoolOfKey(k) == PoolKindOf(keys[k])

\* The key resolves, to a principal that handle keeps over all its attempts.
Admit(r, k, provider) ==
  /\ Resolves(k)
  /\ Arrive(r, <<PoolOfKey(k), provider>>)
  /\ bearer' = [bearer EXCEPT ![r] = k]
  /\ UNCHANGED <<keys, revoking>>

\* The request ends, and its principal with it.
Depart(r) ==
  /\ EndRelay(r) \/ EndError(r)
  /\ bearer' = [bearer EXCEPT ![r] = None]
  /\ UNCHANGED <<keys, revoking>>

KeyedNext ==
  \/ \E k \in Keys, row \in KeyRow : IssueKey(k, row)
  \/ \E k \in Keys : RevokeKey(k) \/ \E u \in Users : FindKey(u, k)
  \/ \E r \in Requests, k \in Keys, provider \in Providers : Admit(r, k, provider)
  \/ \E r \in Requests : Depart(r)
  \/ \E r \in Requests : (Selecting(r) \/ Attempting(r)) /\ UNCHANGED keyVars
  \/ \E s \in Subs : Disable(s) /\ UNCHANGED keyVars
  \/ \E s \in Subs, reply \in Replies : Probe(s, reply) /\ UNCHANGED keyVars
  \/ Tick /\ UNCHANGED keyVars

KeyedSpec == KeyedInit /\ [][KeyedNext]_<<vars, keyVars>>

\* As in Proxy: what a request awaits comes.
KeyedFairSpec ==
  /\ KeyedSpec
  /\ \A r \in Requests : WF_<<vars, keyVars>>((Selecting(r) \/ Attempting(r)) /\ UNCHANGED keyVars)

-----------------------------------------------------------------------------
(* Properties *)

\* The pool of a key is all it opens: through every retry and failover, and
\* whatever becomes of the key meanwhile, a request is served by a subscription
\* of the pool its key was issued for and of its model's provider
\* (spp-access-keys:INV-001, proxy.md:177).
KeyOpensItsPool == \A r \in Requests : held[r] # None =>
  /\ bearer[r] \in Issued
  /\ PoolOf[held[r]] = IF keys[bearer[r]].target = "own" THEN keys[bearer[r]].user ELSE Donor
  /\ ProviderOf[held[r]] = want[r][2]

\* A revoked key drains: the requests it admitted, failing over as they may, come
\* to their answers, and no other enters (BEH-003: it "stops resolving").
RevokedKeyDrains == \A k \in Keys :
  k \in Issued /\ ~keys[k].active
    ~> [](\A r \in Requests : bearer[r] = k => pc[r] \in Answered)
=============================================================================
