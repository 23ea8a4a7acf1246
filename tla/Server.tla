--------------------------------- MODULE Server ---------------------------------
(***************************************************************************)
(* The life of a process: a server opens the engine, wires the slices,     *)
(* listens on its two ports and starts the prober; on a signal it stops    *)
(* the prober, closes the listeners one after the other and the engine     *)
(* last.  Two processes may overlap, over one SQLite database.             *)
(*                                                                         *)
(* A unit of work is a request or a sweep.  It queues operations on its    *)
(* process's SqliteEngine; in between it may have a provider rotate a      *)
(* grant, or link one, which the process then holds until it has stored    *)
(* it.  Rows are sealed by the key ring of the process that writes them.   *)
(***************************************************************************)
EXTENDS Migrations, KeyRing, Sequences

CONSTANTS
  Workers,  \* units of work in progress at a time
  Subs,     \* the subscriptions of a pool
  None,     \* no work, no row
  Close     \* the operation queued by SqliteEngine.close

VARIABLES
  ring,     \* tokenCryptKeys of each process
  chain,    \* SqliteEngine.chain: operations that have not settled
  work,     \* each unit of work
  sealed,   \* the stored tokens of each subscription
  newest,   \* the process started last
  careful,  \* history: it was started with every key in use
  cutOff    \* history: what orderly stops have cut off

life == <<ring, newest, careful>>
vars == <<schemaVars, at, life, chain, work, sealed, cutOff>>

Stopping == {"closeProxy", "closeMgmt", "closeEngine", "closed"}

At == {"down", Opened, "listenProxy", "listenMgmt", "serving"} \cup Opening \cup Stopping

StaysOpen(p) == at[p] \in {"serving", "closeProxy", "closeMgmt"}

OnProxyPort(p) == at[p] \in {"listenMgmt", "serving"}
OnMgmtPort(p) == at[p] \in {"serving", "closeProxy"}

\* client: somebody waits for the response; late: its operation was queued
\* behind the one that closes the engine.
Work == [proc : Procs, kind : {"proxy", "mgmt", "sweep"}, client : BOOLEAN,
         step : {"read", "provider", "write", "answer"}, late : BOOLEAN]

ASSUME ServerAssumption ==
  /\ None \notin Workers /\ Close \notin Workers
  /\ None \notin Rings \cup Cryptogram \cup Work

TypeOK ==
  /\ done \in 0..Script /\ torn \in BOOLEAN
  /\ at \in [Procs -> At]
  /\ ring \in [Procs -> Rings \cup {None}]
  /\ newest \in Procs /\ careful \in BOOLEAN
  /\ chain \in [Procs -> Seq(Workers \cup {Close})]
  /\ work \in [Workers -> Work \cup {None}]
  /\ sealed \in [Subs -> Cryptogram \cup {None}]
  /\ cutOff \subseteq [client : BOOLEAN, late : BOOLEAN]

Init ==
  /\ done = 0 /\ torn = FALSE
  /\ at = [p \in Procs |-> "down"]
  /\ ring = [p \in Procs |-> None]
  /\ newest \in Procs /\ careful = FALSE
  /\ chain = [p \in Procs |-> <<>>]
  /\ work = [w \in Workers |-> None]
  /\ sealed = [s \in Subs |-> None]
  /\ cutOff = {}

-----------------------------------------------------------------------------
(* The engine's promise chain *)

WorkOf(p) == {w \in Workers : work[w] # None /\ work[w].proc = p}

\* The queued operation of w is its next step.
Enqueue(w, job, step) ==
  LET p == job.proc IN
  /\ work' = [work EXCEPT ![w] = [job EXCEPT !.step = step,
                                    !.late = at[p] \in {"closeEngine", "closed"}]]
  /\ chain' = [chain EXCEPT ![p] = Append(@, w)]

\* Whether the operation resolves or rejects, the next one follows it.
Settled(queue) == Tail(queue)

Proceed(w, step) == work' = [work EXCEPT ![w].step = step]
End(w) == work' = [work EXCEPT ![w] = None]

Cut(w) == [client |-> work[w].client, late |-> work[w].late \/ work[w].step = "provider"]

RunClose(p) ==
  /\ chain[p] # <<>> /\ Head(chain[p]) = Close
  /\ Stage(p, "closed")
  /\ chain' = [chain EXCEPT ![p] = Tail(@)]
  /\ UNCHANGED <<schemaVars, life, work, sealed, cutOff>>

AtHead(p, w) == chain[p] # <<>> /\ Head(chain[p]) = w

Stored == {s \in Subs : sealed[s] # None}

\* toSubscription decrypts every row of a listing.
Readable(p) == \A s \in Stored : CanDecrypt(ring[p], sealed[s])

\* The rows that w may write: a link inserts one, a refresh updates one.
Writes(w) == IF work[w].kind = "mgmt" THEN Subs \ Stored ELSE Stored

\* The operation at the head of the chain.  A listing, which throws if a row
\* cannot be decrypted, and the check of a session send w to the provider or
\* leave nothing to do but answer; a write seals a row, or throws.
RunOperation(p, w) ==
  /\ AtHead(p, w) /\ at[p] # "closed"
  /\ chain' = [chain EXCEPT ![p] = Settled(@)]
  /\ \/ /\ work[w].step = "read"
        /\ Writes(w) # {} /\ (work[w].kind = "mgmt" \/ Readable(p))
        /\ Proceed(w, "provider")
        /\ UNCHANGED sealed
     \/ /\ work[w].step = "write"
        /\ \E s \in Writes(w) : sealed' = [sealed EXCEPT ![s] = Encrypt(ring[p])]
        /\ Proceed(w, "answer")
     \/ /\ Proceed(w, "answer")
        /\ UNCHANGED sealed
  /\ UNCHANGED <<schemaVars, at, life, cutOff>>

\* The database is closed: the operation throws.
RejectOperation(p, w) ==
  /\ AtHead(p, w) /\ at[p] = "closed"
  /\ chain' = [chain EXCEPT ![p] = Settled(@)]
  /\ Proceed(w, "answer")
  /\ cutOff' = cutOff \cup {Cut(w)}
  /\ UNCHANGED <<schemaVars, at, life, sealed>>

-----------------------------------------------------------------------------
(* Units of work *)

\* A request, or a tick of the prober's timer.
Accept(p, w, kind) ==
  /\ work[w] = None
  /\ \/ kind = "proxy" /\ OnProxyPort(p)
     \/ kind = "mgmt" /\ OnMgmtPort(p)
     \/ kind = "sweep" /\ at[p] = "serving" /\ \A v \in WorkOf(p) : work[v].kind # "sweep"
  /\ Enqueue(w, [proc |-> p, kind |-> kind, client |-> kind # "sweep",
                 step |-> "read", late |-> FALSE], "read")
  /\ UNCHANGED <<schemaVars, at, life, sealed, cutOff>>

\* The provider hands over tokens, to be stored ...
Granted(w) ==
  /\ work[w] # None /\ work[w].step = "provider"
  /\ Enqueue(w, work[w], "write")
  /\ UNCHANGED <<schemaVars, at, life, sealed, cutOff>>

\* ... or says no.
NoTokens(w) ==
  /\ work[w] # None /\ work[w].step = "provider"
  /\ Proceed(w, "answer")
  /\ UNCHANGED <<schemaVars, at, life, chain, sealed, cutOff>>

\* w goes on: a handler with its next operation, a sweep with its next
\* subscription, a client with its next request on a connection kept alive.
GoOn(w) ==
  /\ work[w] # None /\ work[w].step = "answer"
  /\ Enqueue(w, work[w], "read")
  /\ UNCHANGED <<schemaVars, at, life, sealed, cutOff>>

\* The response ends and its connection, or the sweep.
Answer(w) ==
  /\ work[w] # None /\ work[w].step = "answer"
  /\ End(w)
  /\ UNCHANGED <<schemaVars, at, life, chain, sealed, cutOff>>

\* The client closes its connection; the handler goes on.
Leave(w) ==
  /\ work[w] # None /\ work[w].client
  /\ work' = [work EXCEPT ![w].client = FALSE]
  /\ UNCHANGED <<schemaVars, at, life, chain, sealed, cutOff>>

-----------------------------------------------------------------------------
(* The process *)

\* The process is gone, and with it what it was working on.
Gone(p) ==
  /\ Stage(p, "down")
  /\ ring' = [ring EXCEPT ![p] = None]
  /\ chain' = [chain EXCEPT ![p] = <<>>]
  /\ work' = [w \in Workers |-> IF w \in WorkOf(p) THEN None ELSE work[w]]
  /\ UNCHANGED <<newest, careful, sealed>>

Running == {p \in Procs : at[p] # "down"}

\* The keys of the rows, and the highest of each process, which it writes with.
InUse ==
  {sealed[s] : s \in Stored}
    \cup {c \in Cryptogram : \E p \in Running :
            CanDecrypt(ring[p], c) /\ \A id \in DOMAIN ring[p] : id <= c.id}

\* loadConfig and openEngine
Start(p, r) ==
  /\ at[p] = "down"
  /\ Stage(p, "table")
  /\ ring' = [ring EXCEPT ![p] = r]
  /\ newest' = p
  /\ careful' = \A c \in InUse : CanDecrypt(r, c)
  /\ UNCHANGED <<schemaVars, chain, work, sealed, cutOff>>

Open(p) ==
  /\ Migrate(p)
  /\ ring' = [ring EXCEPT ![p] = IF at'[p] = "down" THEN None ELSE @]
  /\ UNCHANGED <<newest, careful, chain, work, sealed, cutOff>>

\* wire: the crypter refuses an empty ring, and main exits.
Wire(p) ==
  /\ at[p] = Opened /\ ~NoKeys(ring[p])
  /\ Stage(p, "listenProxy")
  /\ UNCHANGED <<schemaVars, life, chain, work, sealed, cutOff>>

\* migrate and the admin commands end here, and so does a server without keys.
EndCommand(p) ==
  /\ at[p] = Opened
  /\ Gone(p)
  /\ UNCHANGED <<schemaVars, cutOff>>

\* listen; a port in use rejects, and main exits.
ListenProxy(p) ==
  /\ at[p] = "listenProxy"
  /\ IF \E q \in Procs : OnProxyPort(q)
       THEN Gone(p)
       ELSE Stage(p, "listenMgmt") /\ UNCHANGED <<life, chain, work, sealed>>
  /\ UNCHANGED <<schemaVars, cutOff>>

\* The proxy's port takes requests already; the prober starts last.
ListenMgmt(p) ==
  /\ at[p] = "listenMgmt"
  /\ IF \E q \in Procs : OnMgmtPort(q)
       THEN Gone(p)
       ELSE Stage(p, "serving") /\ UNCHANGED <<life, chain, work, sealed>>
  /\ UNCHANGED <<schemaVars, cutOff>>

\* SIGINT or SIGTERM: stop.  A second one waits for the same events.
Signal(p) ==
  /\ at[p] = "serving"
  /\ Stage(p, "closeProxy")
  /\ UNCHANGED <<schemaVars, life, chain, work, sealed, cutOff>>

Anyhow(p, kind) == TRUE

\* server.close calls back when the last connection has ended.
NoConnections(p, kind) ==
  \A w \in WorkOf(p) : ~(work[w].kind = kind /\ work[w].client)

ProxyClosed(p) ==
  /\ at[p] = "closeProxy" /\ NoConnections(p, "proxy")
  /\ Stage(p, "closeMgmt")
  /\ UNCHANGED <<schemaVars, life, chain, work, sealed, cutOff>>

\* SqliteEngine.close queues like any other operation.
WithClose(queue) == Append(queue, Close)

MgmtClosed(p) ==
  /\ at[p] = "closeMgmt" /\ NoConnections(p, "mgmt")
  /\ Stage(p, "closeEngine")
  /\ chain' = [chain EXCEPT ![p] = WithClose(@)]
  /\ UNCHANGED <<schemaVars, life, work, sealed, cutOff>>

\* process.exit(0), which waits for nothing.
Exit(p) ==
  /\ at[p] = "closed"
  /\ cutOff' = cutOff \cup {Cut(w) : w \in {v \in WorkOf(p) :
                               work[v].client \/ work[v].step # "answer"}}
  /\ Gone(p)
  /\ UNCHANGED schemaVars

\* The process is killed, at any moment.
Die(p) ==
  /\ at[p] # "down"
  /\ torn' = (torn \/ Tears(p))
  /\ Gone(p)
  /\ UNCHANGED <<done, cutOff>>

Chain(p) == RunClose(p) \/ \E w \in Workers : RunOperation(p, w) \/ RejectOperation(p, w)

Serve(w) ==
  \/ \E p \in Procs, kind \in {"proxy", "mgmt", "sweep"} : Accept(p, w, kind)
  \/ Granted(w) \/ NoTokens(w) \/ GoOn(w) \/ Answer(w) \/ Leave(w)

Rise(p) ==
  \/ \E r \in Rings : Start(p, r)
  \/ Open(p) \/ Wire(p) \/ EndCommand(p) \/ ListenProxy(p) \/ ListenMgmt(p)

Stop(p) == Signal(p) \/ ProxyClosed(p) \/ MgmtClosed(p) \/ Exit(p)

Next ==
  \/ \E p \in Procs : Chain(p) \/ Rise(p) \/ Stop(p) \/ Die(p)
  \/ \E w \in Workers : Serve(w)

Spec == Init /\ [][Next]_vars

\* Operations settle, providers answer or time out, handlers are done and clients
\* close their connections in the end; nothing is assumed of starts and signals.
Fairness ==
  /\ \A p \in Procs : WF_vars(Chain(p)) /\ WF_vars(ProxyClosed(p) \/ MgmtClosed(p) \/ Exit(p))
  /\ \A w \in Workers : WF_vars(Granted(w) \/ NoTokens(w)) /\ SF_vars(Answer(w))

FairSpec == Spec /\ Fairness

-----------------------------------------------------------------------------
(* Properties *)

\* Past openEngine the schema is complete, whoever else starts or dies, except
\* while another process is still at work on the script, and ever after one has
\* died in it: "up to date" means no more (Connection.ts openEngine).
SchemaWhole ==
  \A p \in Running : at[p] \notin Opening =>
    done = Script \/ torn \/ \E q \in Procs : at[q] = "statement"

\* An orderly stop cuts off nobody who waits for an answer, and no operation
\* queued before the engine's close: at most a sweep or a handler whose client
\* has left loses what it had not queued by then (Server.stop, SqliteEngine.close).
StopIsOrderly == \A c \in cutOff : ~c.client /\ c.late

\* A server started with every key in use reads every row for as long as no other
\* is started after it, whatever processes with older rings still write
\* (SecretCrypter: new keys rotate writes, old rows stay readable).
NewestReadsAll == at[newest] \notin Opening \cup {"down"} /\ careful => Readable(newest)

\* A server that is told to stop ends (Server.stop, SqliteEngine.enqueue).
StopEnds == \A p \in Procs : at[p] \in Stopping ~> at[p] = "down"
=============================================================================
