----------------------------- MODULE ServerProofs -----------------------------
(***************************************************************************)
(* Proofs about Server for any number of processes, units of work and      *)
(* rows, any set of key rings and any length of the migration script.      *)
(*                                                                         *)
(* Steps tells what a step does to the chains and the work, whichever      *)
(* action it is.  Three invariants follow: Schema (how far the script is   *)
(* and who is in it), Orderly (a chain holds what is queued and once, and  *)
(* what is behind the engine's close is late) and Reach (the newest        *)
(* process reads what anybody may have written).  StopGoesOn is the way of *)
(* a stop to its end.                                                      *)
(***************************************************************************)
EXTENDS Server, SequenceTheorems, TLAPS

USE MigrationsAssumption, KeyRingAssumption, ServerAssumption
USE DEF MigrationsAssumption, KeyRingAssumption, ServerAssumption, IsRing

\* Where a process may have work.
Live == {"listenMgmt", "serving"} \cup Stopping

Ended == {"closeEngine", "closed"}

\* w has an operation on the chain of p.
Queued(p, w) ==
  w \in Workers /\ work[w] # None /\ work[w].proc = p /\ work[w].step \in {"read", "write"}

-----------------------------------------------------------------------------
(* The steps, by what they do *)

\* p goes on, within its life.
Moves(p, a) ==
  /\ at[p] # "down" /\ a \in At \ {"down"} /\ a \notin Ended
  /\ a \in Live => at[p] \in Live \cup {"listenProxy"}
  /\ a = "listenProxy" => ~NoKeys(ring[p])
  /\ at[p] \in Live => a \in Live
  /\ a = "closeMgmt" => NoConnections(p, "proxy")
  /\ at[p] \notin Ended
  /\ at[p] \in {"closeProxy", "closeMgmt"} => a = "closeMgmt"
  /\ at' = [at EXCEPT ![p] = a]
  /\ UNCHANGED <<ring, newest, careful, chain, work, sealed, cutOff>>

\* The operation at the head has settled.
Settles(p, w, job) ==
  /\ AtHead(p, w)
  /\ chain' = [chain EXCEPT ![p] = Tail(@)]
  /\ job = [work[w] EXCEPT !.step = job.step] /\ job.step \in {"provider", "answer"}
  /\ work' = [work EXCEPT ![w] = job]
  /\ UNCHANGED <<at, life>>

\* w queues an operation, as a new unit of work or after a wait.
Queues(w, job) ==
  /\ \/ /\ work[w] = None
        /\ job.client => job.kind # "sweep" /\ at[job.proc] \notin Ended \cup {"closeMgmt"}
        /\ at[job.proc] \in Live
     \/ /\ work[w] # None /\ work[w].step \in {"provider", "answer"}
        /\ job.proc = work[w].proc /\ job.kind = work[w].kind /\ job.client = work[w].client
  /\ job \in Work /\ job.step \in {"read", "write"}
  /\ job.late <=> at[job.proc] \in Ended
  /\ chain' = [chain EXCEPT ![job.proc] = Append(@, w)]
  /\ work' = [work EXCEPT ![w] = job]
  /\ UNCHANGED <<at, life, sealed, cutOff>>

\* w is answered, is left by its client, or has its provider's no.
Changes(w, job) ==
  /\ work[w] # None
  /\ \/ job = None /\ work[w].step = "answer"
     \/ job = [work[w] EXCEPT !.step = "answer"] /\ work[w].step = "provider"
     \/ job = [work[w] EXCEPT !.client = FALSE]
  /\ work' = [work EXCEPT ![w] = job]
  /\ UNCHANGED <<at, life, chain, sealed, cutOff>>

LEMMA JobType ==
  ASSUME TypeOK, NEW w \in Workers, work[w] # None
  PROVE  work[w] \in Work
  BY DEF TypeOK

LEMMA AcceptQueues ==
  ASSUME TypeOK, NEW p \in Procs, NEW w \in Workers, NEW kind \in {"proxy", "mgmt", "sweep"},
         Accept(p, w, kind)
  PROVE  \E job \in Work : Queues(w, job)
<1> DEFINE client == kind # "sweep"
           late == at[p] \in {"closeEngine", "closed"}
           first == [proc |-> p, kind |-> kind, client |-> client, step |-> "read",
                     late |-> FALSE]
           job == [first EXCEPT !.step = "read", !.late = late]
<1>b. /\ client \in BOOLEAN /\ late \in BOOLEAN
      /\ client => kind # "sweep"
      /\ late <=> at[p] \in Ended
  BY DEF Ended
<1>2. /\ work' = [work EXCEPT ![w] = job] /\ chain' = [chain EXCEPT ![p] = Append(@, w)]
      /\ UNCHANGED <<at, life, sealed, cutOff>> /\ work[w] = None
  BY DEF Accept, Enqueue
<1>3. /\ at[p] \in Live
      /\ at[p] \notin Ended \cup {"closeMgmt"}
  BY DEF Accept, OnProxyPort, OnMgmtPort, Live, Ended, Stopping
<1> HIDE DEF client, late
<1>1. /\ job \in Work /\ job.proc = p /\ job.step = "read" /\ job.kind = kind
      /\ job.client = client /\ job.late = late
  BY <1>b DEF Work
<1> HIDE DEF job
<1>4. Queues(w, job)
  BY <1>b, <1>1, <1>2, <1>3 DEF Queues
<1> QED BY <1>1, <1>4

LEMMA EnqueueQueues ==
  ASSUME TypeOK, NEW w \in Workers, NEW step \in {"read", "write"},
         work[w] # None, work[w].step \in {"provider", "answer"},
         Enqueue(w, work[w], step), UNCHANGED <<at, life, sealed, cutOff>>
  PROVE  \E job \in Work : Queues(w, job)
<1> DEFINE late == at[work[w].proc] \in {"closeEngine", "closed"}
           job == [work[w] EXCEPT !.step = step, !.late = late]
<1>b. late \in BOOLEAN /\ (late <=> at[work[w].proc] \in Ended)
  BY DEF Ended
<1>1. work[w] \in Work
  BY JobType
<1>3. work' = [work EXCEPT ![w] = job]
      /\ chain' = [chain EXCEPT ![work[w].proc] = Append(@, w)]
  BY DEF Enqueue
<1> HIDE DEF late
<1>2. /\ job \in Work /\ job.step = step /\ job.proc = work[w].proc
      /\ job.kind = work[w].kind /\ job.client = work[w].client /\ job.late = late
  BY <1>b, <1>1 DEF Work
<1> HIDE DEF job
<1>4. Queues(w, job)
  BY <1>b, <1>2, <1>3 DEF Queues
<1> QED BY <1>2, <1>4

LEMMA ServeSteps ==
  ASSUME TypeOK, NEW w \in Workers, Serve(w)
  PROVE  (\E job \in Work : Queues(w, job)) \/ (\E job \in Work \cup {None} : Changes(w, job))
<1>1. ASSUME NEW p \in Procs, NEW kind \in {"proxy", "mgmt", "sweep"}, Accept(p, w, kind)
      PROVE  \E job \in Work : Queues(w, job)
  BY <1>1, AcceptQueues
<1>2. CASE Granted(w) \/ GoOn(w)
  BY <1>2, EnqueueQueues DEF Granted, GoOn
<1>3. CASE Answer(w)
  BY <1>3 DEF Answer, End, Changes
<1>4. CASE NoTokens(w)
  <2>1. [work[w] EXCEPT !.step = "answer"] \in Work
    BY <1>4, JobType DEF NoTokens, Work
  <2>2. work' = [work EXCEPT ![w] = [work[w] EXCEPT !.step = "answer"]]
    BY <1>4 DEF NoTokens, Proceed
  <2> QED BY <1>4, <2>1, <2>2 DEF NoTokens, Changes
<1>5. CASE Leave(w)
  <2>1. [work[w] EXCEPT !.client = FALSE] \in Work
    BY <1>5, JobType DEF Leave, Work
  <2>2. work' = [work EXCEPT ![w] = [work[w] EXCEPT !.client = FALSE]]
    BY <1>5 DEF Leave
  <2> QED BY <1>5, <2>1, <2>2 DEF Leave, Changes
<1> QED BY <1>1, <1>2, <1>3, <1>4, <1>5 DEF Serve

LEMMA OperationSettles ==
  ASSUME TypeOK, NEW p \in Procs, NEW w \in Workers, work[w] # None,
         RunOperation(p, w) \/ RejectOperation(p, w)
  PROVE  \E job \in Work : Settles(p, w, job)
<1>1. work[w] \in Work
  BY JobType
<1>2. PICK step \in {"provider", "answer"} : Proceed(w, step)
  BY DEF RunOperation, RejectOperation
<1> DEFINE job == [work[w] EXCEPT !.step = step]
<1>3. /\ job \in Work /\ job.step = step /\ job = [work[w] EXCEPT !.step = job.step]
      /\ work' = [work EXCEPT ![w] = job]
  BY <1>1, <1>2 DEF Work, Proceed
<1> HIDE DEF job
<1>4. /\ AtHead(p, w) /\ chain' = [chain EXCEPT ![p] = Tail(@)] /\ UNCHANGED <<at, life>>
  BY DEF RunOperation, RejectOperation, Settled
<1> QED BY <1>3, <1>4 DEF Settles

-----------------------------------------------------------------------------
(* What a process, its chain and its work have to do with each other *)

ProcFacts(p) ==
  /\ at[p] = "down" <=> ring[p] = None
  /\ at[p] \in Live \cup {"listenProxy"} => ~NoKeys(ring[p])
  /\ at[p] \notin Live => chain[p] = <<>>

\* Queued once, and behind the close of the engine only what is late.
ChainFacts(p) ==
  /\ \A i \in DOMAIN chain[p] : chain[p][i] = Close \/ Queued(p, chain[p][i])
  /\ \A i, j \in DOMAIN chain[p] : i # j => chain[p][i] # chain[p][j]
  /\ (\E i \in DOMAIN chain[p] : chain[p][i] = Close) <=> at[p] = "closeEngine"
  /\ \A i, j \in DOMAIN chain[p] : chain[p][i] = Close /\ j > i => work[chain[p][j]].late
  /\ at[p] = "closed" => \A j \in DOMAIN chain[p] : work[chain[p][j]].late

\* Nobody waits for an answer once the listeners are closed.
WorkFacts(w) ==
  work[w] # None =>
    LET p == work[w].proc IN
    /\ at[p] \in Live
    /\ work[w].client => /\ work[w].kind # "sweep" /\ at[p] \notin Ended
                         /\ at[p] = "closeMgmt" => work[w].kind = "mgmt"
    /\ Queued(p, w) => \E i \in DOMAIN chain[p] : chain[p][i] = w

Orderly ==
  /\ \A p \in Procs : ProcFacts(p) /\ ChainFacts(p)
  /\ \A w \in Workers : WorkFacts(w)

LEMMA QueuedIsWork ==
  ASSUME TypeOK, Orderly, NEW p \in Procs, NEW w \in Workers, AtHead(p, w)
  PROVE  work[w] # None /\ work[w].proc = p /\ work[w].step \in {"read", "write"}
<1>1. 1 \in DOMAIN chain[p] /\ chain[p][1] = w
  BY DEF AtHead, TypeOK
<1> QED BY <1>1 DEF Orderly, ChainFacts, Queued

LEMMA IdleHasNoWork ==
  ASSUME TypeOK, Orderly, NEW p \in Procs, at[p] \notin Live
  PROVE  WorkOf(p) = {} /\ chain[p] = <<>>
  BY DEF WorkOf, Orderly, WorkFacts, ProcFacts

LEMMA ChainSteps ==
  ASSUME TypeOK, Orderly, NEW p \in Procs, Chain(p)
  PROVE  RunClose(p) \/ \E w \in Workers, job \in Work : Settles(p, w, job)
<1>1. ASSUME NEW w \in Workers, RunOperation(p, w) \/ RejectOperation(p, w)
      PROVE  \E job \in Work : Settles(p, w, job)
  <2>1. work[w] # None
    BY <1>1, QueuedIsWork DEF RunOperation, RejectOperation
  <2> QED BY <1>1, <2>1, OperationSettles
<1> QED BY <1>1 DEF Chain

\* A step of the process, of its chain, of some work, or of the schema alone.
LEMMA Steps ==
  ASSUME TypeOK, Orderly, [Next]_vars
  PROVE  \/ \E p \in Procs, a \in At : Moves(p, a)
         \/ \E p \in Procs, r \in Rings : Start(p, r)
         \/ \E p \in Procs : at[p] # "down" /\ Gone(p)
         \/ \E p \in Procs : MgmtClosed(p) \/ RunClose(p)
         \/ \E p \in Procs, w \in Workers, job \in Work : Settles(p, w, job)
         \/ \E w \in Workers, job \in Work : Queues(w, job)
         \/ \E w \in Workers, job \in Work \cup {None} : Changes(w, job)
         \/ UNCHANGED <<at, life, chain, work, sealed, cutOff>>
<1> USE DEF Stage, At, Opening, Opened, Stopping, Live, Ended
<1>1. ASSUME NEW p \in Procs, Open(p)
      PROVE  (\E a \in At : Moves(p, a)) \/ (at[p] # "down" /\ Gone(p))
  <2>1. PICK a \in Opening \cup {Opened, "down"} :
          at' = [at EXCEPT ![p] = a] /\ at[p] \in Opening
    BY <1>1 DEF Open, Migrate, FindTable, ReadVersion, ExecScript, Statement, Exit1
  <2>2. ring' = [ring EXCEPT ![p] = IF a = "down" THEN None ELSE ring[p]]
        /\ UNCHANGED <<newest, careful, chain, work, sealed, cutOff>>
    BY <1>1, <2>1 DEF Open, TypeOK
  <2>3. CASE a = "down"
    <3>1. WorkOf(p) = {} /\ chain[p] = <<>>
      BY <2>1, IdleHasNoWork
    <3>2. chain = [chain EXCEPT ![p] = <<>>]
          /\ work = [w \in Workers |-> IF w \in WorkOf(p) THEN None ELSE work[w]]
      BY <3>1 DEF TypeOK
    <3> QED BY <2>1, <2>2, <2>3, <3>2 DEF Gone
  <2>4. CASE a # "down"
    <3>1. ring' = ring
      BY <2>2, <2>4 DEF TypeOK
    <3> QED BY <2>1, <2>2, <2>4, <3>1 DEF Moves
  <2> QED BY <2>3, <2>4
<1>2. ASSUME NEW p \in Procs, Rise(p)
      PROVE  \/ \E a \in At : Moves(p, a)
             \/ at[p] # "down" /\ Gone(p)
             \/ \E r \in Rings : Start(p, r)
  <2>1. CASE EndCommand(p)
    BY <2>1 DEF EndCommand
  <2>2. CASE Wire(p)
    BY <2>2 DEF Wire, Moves, life
  <2>3. CASE ListenProxy(p) \/ ListenMgmt(p)
    BY <2>3 DEF ListenProxy, ListenMgmt, Moves, life
  <2> QED BY <1>1, <1>2, <2>1, <2>2, <2>3 DEF Rise
<1>3. ASSUME NEW p \in Procs, Signal(p) \/ ProxyClosed(p)
      PROVE  \E a \in At : Moves(p, a)
  BY <1>3 DEF Signal, ProxyClosed, Moves, life
<1>4. ASSUME NEW p \in Procs, Stop(p) \/ Die(p)
      PROVE  \/ \E a \in At : Moves(p, a)
             \/ at[p] # "down" /\ Gone(p)
             \/ MgmtClosed(p)
  BY <1>3, <1>4 DEF Stop, Exit, Die
<1> QED BY <1>2, <1>4, ChainSteps, ServeSteps DEF Next, vars

-----------------------------------------------------------------------------
(* The schema *)

\* Past the statement that records the version, a script that is not done has
\* somebody in it, or has had.
Schema ==
  /\ \A p \in Procs : at[p] = "statement" => done \in Table..(Script - 1) /\ ~Atomic
  /\ \A p, q \in Procs : at[p] = "statement" /\ at[q] = "statement" => p = q
  /\ done \in Version..(Script - 1) => torn \/ \E p \in Procs : at[p] = "statement"
  /\ \A p \in Procs : at[p] \notin Opening \cup {"down"} => done >= Version
  /\ Atomic => done \in {0, Script} /\ ~torn

\* What everything but the migration does: nobody enters the script.
Elsewhere(p, a) ==
  /\ at' = [at EXCEPT ![p] = a]
  /\ a # "statement"
  /\ a \notin Opening \cup {"down"} => at[p] \notin Opening \cup {"down"}
  /\ done' = done
  /\ torn' = (torn \/ Tears(p))

LEMMA ElsewhereKeepsSchema ==
  ASSUME TypeOK, Schema, NEW p \in Procs, NEW a \in At, Elsewhere(p, a)
  PROVE  Schema'
<1>1. /\ \A q \in Procs : at'[q] = IF q = p THEN a ELSE at[q]
      /\ done' = done /\ a # "statement"
  BY DEF TypeOK, Elsewhere
<1>2. \A q \in Procs : at'[q] = "statement" => at[q] = "statement"
  BY <1>1
<1>3. torn' <=> torn \/ (at[p] = "statement" /\ done >= Version)
  BY Zenon DEF Elsewhere, Tears
<1>4. (\E q \in Procs : at[q] = "statement") /\ done >= Version
        => torn' \/ \E q \in Procs : at'[q] = "statement"
  BY <1>1, <1>3
<1>5. (\A q \in Procs : at[q] # "statement") => (torn' <=> torn)
  BY <1>3
<1>6. \A q \in Procs : at'[q] \notin Opening \cup {"down"} => done' >= Version
  BY <1>1 DEF Elsewhere, Schema
<1>7. done' \in Version..(Script - 1) => torn' \/ \E q \in Procs : at'[q] = "statement"
  BY <1>1, <1>3, <1>4 DEF Schema, TypeOK, Version
<1>8. Atomic => ~torn'
  BY <1>5 DEF Schema
<1> QED BY <1>1, <1>2, <1>6, <1>7, <1>8 DEF Schema

LEMMA MigrateKeepsSchema ==
  ASSUME TypeOK, Schema, NEW p \in Procs, Migrate(p)
  PROVE  Schema' /\ done' \in 0..Script
<1> USE DEF TypeOK, Schema, Opening, Opened, Table, Version, Stage
<1>1. CASE FindTable(p)
  BY <1>1 DEF FindTable, schemaVars
<1>2. CASE ReadVersion(p)
  BY <1>2 DEF ReadVersion, UpToDate, schemaVars
<1>3. CASE ExecScript(p)
  <2>1. PICK a \in {"down", Opened, "statement"} :
          \A q \in Procs : at'[q] = IF q = p THEN a ELSE at[q]
    BY <1>3 DEF ExecScript, Exit1
  <2>2. CASE done >= Table
    <3>1. done' = done /\ torn' = torn /\ at' = [at EXCEPT ![p] = "down"] /\ at[p] = "script"
      BY <1>3, <2>2 DEF ExecScript, Exit1
    <3>2. \A q \in Procs : at'[q] = IF q = p THEN "down" ELSE at[q]
      BY <3>1
    <3> QED BY <3>1, <3>2
  <2>3. CASE done < Table
    <3>1. done = 0 /\ torn' = torn /\ (\A q \in Procs : at[q] # "statement")
      BY <1>3, <2>3 DEF ExecScript
    <3>2. CASE Atomic
      <4>1. done' = Script /\ at' = [at EXCEPT ![p] = Opened]
        BY <1>3, <2>3, <3>2 DEF ExecScript
      <4> QED BY <3>1, <3>2, <4>1
    <3>3. CASE ~Atomic
      <4>1. done' = Table /\ at' = [at EXCEPT ![p] = "statement"]
        BY <1>3, <2>3, <3>3 DEF ExecScript
      <4> QED BY <3>1, <3>3, <4>1
    <3> QED BY <3>2, <3>3
  <2> QED BY <2>2, <2>3
<1>4. CASE Statement(p)
  BY <1>4 DEF Statement, Complete
<1> QED BY <1>1, <1>2, <1>3, <1>4 DEF Migrate

LEMMA SchemaStep ==
  ASSUME TypeOK, Orderly, Schema, [Next]_vars
  PROVE  Schema' /\ done' \in 0..Script
<1> USE DEF Stage, schemaVars
<1>1. ASSUME NEW p \in Procs, NEW a \in At, Elsewhere(p, a)
      PROVE  Schema' /\ done' \in 0..Script
  BY <1>1, ElsewhereKeepsSchema DEF TypeOK, Elsewhere
<1>2. CASE UNCHANGED <<schemaVars, at>>
  BY <1>2 DEF TypeOK, Schema
<1>3. ASSUME NEW p \in Procs, Chain(p)
      PROVE  UNCHANGED <<schemaVars, at>> \/ \E a \in At : Elsewhere(p, a)
  <2>1. CASE RunClose(p)
    <3>1. at[p] \in Live
      BY <2>1 DEF RunClose, Orderly, ProcFacts
    <3>2. "closed" \in At /\ at[p] \notin Opening \cup {"down"} /\ "closed" # "statement"
      BY <3>1 DEF Live, At, Stopping, Opening
    <3>3. torn' = (torn \/ Tears(p))
      <4>1. ~Tears(p) /\ torn' = torn /\ torn \in BOOLEAN
        BY <2>1, <3>2 DEF RunClose, Tears, Opening, TypeOK
      <4> QED BY Zenon, <4>1
    <3> QED BY <2>1, <3>2, <3>3 DEF RunClose, Elsewhere
  <2> QED BY <1>3, <2>1 DEF Chain, RunOperation, RejectOperation
<1>4. ASSUME NEW p \in Procs, Rise(p)
      PROVE  Migrate(p) \/ \E a \in At : Elsewhere(p, a)
  BY <1>4 DEF Rise, Start, Open, Wire, EndCommand, ListenProxy, ListenMgmt, Gone, Elsewhere,
     Tears, Opening, Opened, At, TypeOK
<1>5. ASSUME NEW p \in Procs, Stop(p) \/ Die(p)
      PROVE  \E a \in At : Elsewhere(p, a)
  BY <1>5 DEF Stop, Signal, ProxyClosed, MgmtClosed, Exit, Die, Gone, Elsewhere, Tears,
     Opening, At, Stopping, TypeOK
<1>6. ASSUME NEW w \in Workers, Serve(w)
      PROVE  UNCHANGED <<schemaVars, at>>
  BY <1>6 DEF Serve, Accept, Granted, NoTokens, GoOn, Answer, Leave
<1> QED BY <1>1, <1>2, <1>3, <1>4, <1>5, <1>6, MigrateKeepsSchema DEF Next, vars

LEMMA SchemaIsWhole ==
  ASSUME TypeOK, Schema
  PROVE  SchemaWhole
  BY DEF TypeOK, Schema, SchemaWhole, Running, Version

-----------------------------------------------------------------------------
(* The order of a chain *)

LEMMA TailFacts ==
  ASSUME NEW S, NEW s \in Seq(S), s # <<>>
  PROVE  /\ Tail(s) \in Seq(S)
         /\ 1 \in DOMAIN s
         /\ \A i \in DOMAIN Tail(s) : i + 1 \in DOMAIN s /\ Tail(s)[i] = s[i + 1]
         /\ \A i \in DOMAIN s : i > 1 => i - 1 \in DOMAIN Tail(s) /\ Tail(s)[i - 1] = s[i]
         /\ DOMAIN s \subseteq Nat \ {0} /\ DOMAIN Tail(s) \subseteq Nat \ {0}
  OBVIOUS

LEMMA AppendFacts ==
  ASSUME NEW S, NEW s \in Seq(S), NEW e \in S
  PROVE  /\ Append(s, e) \in Seq(S)
         /\ DOMAIN Append(s, e) \subseteq Nat /\ DOMAIN s \subseteq DOMAIN Append(s, e)
         /\ \A i \in DOMAIN s : Append(s, e)[i] = s[i]
         /\ \E n \in DOMAIN Append(s, e) :
              /\ Append(s, e)[n] = e
              /\ \A i \in DOMAIN Append(s, e) \ {n} : i \in DOMAIN s /\ i < n
              /\ n \notin DOMAIN s
  OBVIOUS

\* Nothing in the facts about other processes and other work changes.
LEMMA OthersKeepOrder ==
  ASSUME TypeOK, Orderly, NEW p \in Procs,
         at'[p] = at[p], ring'[p] = ring[p], chain'[p] = chain[p],
         \A w \in Workers : Queued(p, w) => work'[w] = work[w]
  PROVE  ProcFacts(p)' /\ ChainFacts(p)'
<1>1. ProcFacts(p)'
  BY DEF Orderly, ProcFacts
<1>2. \A i \in DOMAIN chain[p] : chain[p][i] # Close =>
        /\ Queued(p, chain[p][i]) /\ work'[chain[p][i]] = work[chain[p][i]]
  <2>1. \A i \in DOMAIN chain[p] : chain[p][i] # Close => Queued(p, chain[p][i])
    BY DEF Orderly, ChainFacts
  <2>2. \A w : Queued(p, w) => w \in Workers
    BY DEF Queued
  <2> QED BY <2>1, <2>2
<1>3. (\A i \in DOMAIN chain[p] : chain[p][i] = Close \/ Queued(p, chain[p][i]))'
  BY <1>2 DEF Queued
<1>4. \A i, j \in DOMAIN chain[p] : chain[p][i] = Close /\ chain[p][j] = Close => i = j
  BY DEF Orderly, ChainFacts
<1>5. DOMAIN chain[p] \subseteq Nat
  BY DEF TypeOK
<1>6. (\A i, j \in DOMAIN chain[p] : chain[p][i] = Close /\ j > i => work[chain[p][j]].late)'
  BY <1>2, <1>4, <1>5 DEF Orderly, ChainFacts
<1>7. (at[p] = "closed" => \A j \in DOMAIN chain[p] : work[chain[p][j]].late)'
  BY <1>2 DEF Orderly, ChainFacts
<1>8. (\A i, j \in DOMAIN chain[p] : i # j => chain[p][i] # chain[p][j])'
      /\ ((\E i \in DOMAIN chain[p] : chain[p][i] = Close) <=> at[p] = "closeEngine")'
  BY DEF Orderly, ChainFacts
<1> QED BY <1>1, <1>3, <1>6, <1>7, <1>8 DEF ChainFacts

LEMMA MovesKeepsOrder ==
  ASSUME TypeOK, Orderly, NEW p \in Procs, NEW a \in At, Moves(p, a)
  PROVE  Orderly'
<1>1. /\ \A q \in Procs : at'[q] = IF q = p THEN a ELSE at[q]
      /\ UNCHANGED <<ring, chain, work>>
  BY DEF Moves, TypeOK
<1>2. \A q \in Procs : ProcFacts(q)'
  BY <1>1 DEF Moves, Orderly, ProcFacts
<1>3. \A q \in Procs : ChainFacts(q)'
  BY <1>1 DEF Moves, Orderly, ChainFacts, Queued, Ended
<1>4. ASSUME NEW w \in Workers, work[w] # None
      PROVE  WorkFacts(w)'
  <2>1. work[w] \in Work /\ work[w].proc \in Procs
    BY <1>4, JobType DEF Work
  <2>2. CASE work[w].proc # p
    BY <1>1, <1>4, <2>1, <2>2 DEF Orderly, WorkFacts, Queued
  <2>3. CASE work[w].proc = p
    <3>1. at[p] \in Live /\ at'[p] = a /\ a \in Live /\ a \notin Ended
      BY <1>1, <1>4, <2>3 DEF Orderly, WorkFacts, Moves
    <3>2. work[w].client => work[w].kind # "sweep"
      BY <1>4 DEF Orderly, WorkFacts
    <3>3. a = "closeMgmt" /\ work[w].client => work[w].kind = "mgmt"
      BY <1>4, <2>1, <2>3, <3>2 DEF Moves, NoConnections, WorkOf, Work
    <3> QED BY <1>1, <1>4, <2>3, <3>1, <3>2, <3>3 DEF Orderly, WorkFacts, Queued
  <2> QED BY <2>2, <2>3
<1>5. \A w \in Workers : WorkFacts(w)'
  BY <1>1, <1>4 DEF WorkFacts
<1> QED BY <1>2, <1>3, <1>5 DEF Orderly

LEMMA StartKeepsOrder ==
  ASSUME TypeOK, Orderly, NEW p \in Procs, NEW r \in Rings, Start(p, r)
  PROVE  Orderly'
<1>1. /\ \A q \in Procs : at'[q] = IF q = p THEN "table" ELSE at[q]
      /\ \A q \in Procs : ring'[q] = IF q = p THEN r ELSE ring[q]
      /\ UNCHANGED <<chain, work>> /\ at[p] = "down" /\ r # None
  BY DEF Start, TypeOK, Stage
<1>2. "table" \notin Live /\ "down" \notin Live
      /\ "table" \notin Ended \cup {"listenProxy"} /\ "down" \notin Ended
  BY DEF Live, Stopping, Ended
<1>3. \A q \in Procs : ProcFacts(q)'
  BY <1>1, <1>2 DEF Orderly, ProcFacts
<1>4. \A q \in Procs : ChainFacts(q)'
  BY <1>1, <1>2 DEF Orderly, ChainFacts, Queued, Ended
<1>5. \A w \in Workers : WorkFacts(w)'
  BY <1>1, <1>2, JobType DEF Orderly, WorkFacts, Queued, Work
<1> QED BY <1>3, <1>4, <1>5 DEF Orderly

LEMMA GoneKeepsOrder ==
  ASSUME TypeOK, Orderly, NEW p \in Procs, Gone(p)
  PROVE  Orderly'
<1>1. /\ \A q \in Procs : at'[q] = IF q = p THEN "down" ELSE at[q]
      /\ \A q \in Procs : ring'[q] = IF q = p THEN None ELSE ring[q]
      /\ \A q \in Procs : chain'[q] = IF q = p THEN <<>> ELSE chain[q]
  BY DEF Gone, TypeOK, Stage
<1>2. \A w \in Workers : work[w] # None => work'[w] = IF work[w].proc = p THEN None ELSE work[w]
  BY DEF Gone, WorkOf
<1>3. \A w \in Workers : work[w] = None => work'[w] = None
  BY DEF Gone, WorkOf
<1>4. "down" \notin Live \cup {"listenProxy"} \cup Ended
  BY DEF Live, Stopping, Ended
<1>5. ASSUME NEW q \in Procs
      PROVE  ProcFacts(q)' /\ ChainFacts(q)'
  <2>1. CASE q = p
    BY <1>1, <1>4, <2>1 DEF ProcFacts, ChainFacts, Ended
  <2>2. CASE q # p
    BY <1>1, <1>2, <2>2, OthersKeepOrder DEF Queued
  <2> QED BY <2>1, <2>2
<1>6. \A w \in Workers : WorkFacts(w)'
  BY <1>1, <1>2, <1>3, JobType DEF Orderly, WorkFacts, Queued, Work
<1> QED BY <1>5, <1>6 DEF Orderly

LEMMA MgmtClosedKeepsOrder ==
  ASSUME TypeOK, Orderly, NEW p \in Procs, MgmtClosed(p)
  PROVE  Orderly'
<1>1. /\ \A q \in Procs : at'[q] = IF q = p THEN "closeEngine" ELSE at[q]
      /\ \A q \in Procs : chain'[q] = IF q = p THEN Append(chain[p], Close) ELSE chain[q]
      /\ UNCHANGED <<ring, work>> /\ at[p] = "closeMgmt"
  BY DEF MgmtClosed, TypeOK, Stage, WithClose, life
<1>2. "closeMgmt" \in Live /\ "closeEngine" \in Live /\ "closeMgmt" \notin Ended
  BY DEF Live, Stopping, Ended
<1>3. chain[p] \in Seq(Workers \cup {Close})
  BY DEF TypeOK
<1>4. /\ DOMAIN chain[p] \subseteq DOMAIN chain'[p]
      /\ \A i \in DOMAIN chain[p] : chain'[p][i] = chain[p][i]
      /\ \E n \in DOMAIN chain'[p] :
           /\ chain'[p][n] = Close
           /\ \A i \in DOMAIN chain'[p] \ {n} : i \in DOMAIN chain[p] /\ i < n
  <2>1. chain'[p] = Append(chain[p], Close) /\ Close \in Workers \cup {Close}
    BY <1>1
  <2>2. \E n \in DOMAIN Append(chain[p], Close) :
           /\ Append(chain[p], Close)[n] = Close
           /\ \A i \in DOMAIN Append(chain[p], Close) \ {n} : i \in DOMAIN chain[p] /\ i < n
    BY <1>3, AppendFacts
  <2>3. /\ DOMAIN chain[p] \subseteq DOMAIN Append(chain[p], Close)
        /\ \A i \in DOMAIN chain[p] : Append(chain[p], Close)[i] = chain[p][i]
    BY <1>3, AppendFacts
  <2> QED BY <2>1, <2>2, <2>3
<1>5. \A i \in DOMAIN chain[p] : chain[p][i] # Close
  BY <1>1 DEF Orderly, ChainFacts
<1>6. ASSUME NEW q \in Procs
      PROVE  ProcFacts(q)' /\ ChainFacts(q)'
  <2>1. CASE q = p
    <3>1. ProcFacts(p)'
      BY <1>1, <1>2 DEF Orderly, ProcFacts
    <3>2. PICK n \in DOMAIN chain'[p] :
           /\ chain'[p][n] = Close
           /\ \A i \in DOMAIN chain'[p] \ {n} : i \in DOMAIN chain[p] /\ i < n
      BY <1>4
    <3>3. (\A i \in DOMAIN chain[p] : chain[p][i] = Close \/ Queued(p, chain[p][i]))'
      BY <1>1, <1>4, <3>2 DEF Orderly, ChainFacts, Queued
    <3>4. \A i, j \in DOMAIN chain'[p] : i # j => chain'[p][i] # chain'[p][j]
      BY <1>4, <1>5, <3>2 DEF Orderly, ChainFacts
    <3>5. \A i, j \in DOMAIN chain'[p] : chain'[p][i] = Close => ~(j > i)
      <4>1. chain'[p] = Append(chain[p], Close) /\ Close \in Workers \cup {Close}
        BY <1>1
      <4>3. DOMAIN Append(chain[p], Close) \subseteq Nat
        BY <1>3, <4>1, AppendFacts
      <4>2. \A i \in DOMAIN chain'[p] : chain'[p][i] = Close => i = n
        BY <1>4, <1>5, <3>2
      <4> QED BY <3>2, <4>1, <4>2, <4>3
    <3>6. ((\E i \in DOMAIN chain[p] : chain[p][i] = Close) <=> at[p] = "closeEngine")'
      BY <1>1, <3>2
    <3>7. (at[p] # "closed")'
      BY <1>1
    <3> QED BY <2>1, <3>1, <3>3, <3>4, <3>5, <3>6, <3>7 DEF ChainFacts
  <2>2. CASE q # p
    BY <1>1, <2>2, OthersKeepOrder
  <2> QED BY <2>1, <2>2
<1>7. ASSUME NEW w \in Workers, work[w] # None
      PROVE  WorkFacts(w)'
  <2>1. work[w].proc \in Procs
    BY <1>7, JobType DEF Work
  <2>2. work[w].proc = p => ~work[w].client
    BY <1>1, <1>7, <2>1 DEF MgmtClosed, NoConnections, WorkOf, Orderly, WorkFacts
  <2>3. Queued(work[w].proc, w) => \E i \in DOMAIN chain'[work[w].proc] :
                                     chain'[work[w].proc][i] = w
    BY <1>1, <1>4, <1>7, <2>1 DEF Orderly, WorkFacts
  <2> QED BY <1>1, <1>2, <1>7, <2>1, <2>2, <2>3 DEF Orderly, WorkFacts, Queued
<1>8. \A w \in Workers : WorkFacts(w)'
  BY <1>1, <1>7 DEF WorkFacts
<1> QED BY <1>6, <1>8 DEF Orderly

\* The head of p's chain leaves it.
LEMMA TailKeepsOrder ==
  ASSUME TypeOK, Orderly, NEW p \in Procs, chain[p] # <<>>, chain'[p] = Tail(chain[p]),
         \A w \in Workers : Queued(p, w) /\ w # Head(chain[p]) => work'[w] = work[w]
  PROVE  /\ \A i \in DOMAIN chain'[p] :
              \E j \in DOMAIN chain[p] : j > 1 /\ chain'[p][i] = chain[p][j]
         /\ \A j \in DOMAIN chain[p] : j > 1 =>
              \E i \in DOMAIN chain'[p] : chain'[p][i] = chain[p][j]
         /\ \A i \in DOMAIN chain'[p] : chain'[p][i] # Head(chain[p])
         /\ 1 \in DOMAIN chain[p] /\ chain[p][1] = Head(chain[p])
         /\ (\A i \in DOMAIN chain[p] : chain[p][i] = Close \/ Queued(p, chain[p][i]))'
         /\ (\A i, j \in DOMAIN chain[p] : i # j => chain[p][i] # chain[p][j])'
         /\ (\A i, j \in DOMAIN chain[p] : chain[p][i] = Close /\ j > i =>
                                             work[chain[p][j]].late)'
<1>1. /\ DOMAIN chain'[p] \subseteq Nat \ {0} /\ DOMAIN chain[p] \subseteq Nat \ {0}
      /\ 1 \in DOMAIN chain[p] /\ chain[p][1] = Head(chain[p])
      /\ \A i \in DOMAIN chain'[p] : i + 1 \in DOMAIN chain[p] /\ chain'[p][i] = chain[p][i + 1]
      /\ \A j \in DOMAIN chain[p] : j > 1 =>
           j - 1 \in DOMAIN chain'[p] /\ chain'[p][j - 1] = chain[p][j]
  <2>1. chain[p] \in Seq(Workers \cup {Close})
    BY DEF TypeOK
  <2>2. chain[p][1] = Head(chain[p])
    BY <2>1
  <2> QED BY <2>1, <2>2, TailFacts
<1>2. \A i, j \in DOMAIN chain[p] : i # j => chain[p][i] # chain[p][j]
  BY DEF Orderly, ChainFacts
<1>3. \A i \in DOMAIN chain'[p] : i + 1 \in DOMAIN chain[p] /\ i + 1 # 1 /\ i + 1 > 1
  BY <1>1
<1>4. \A i \in DOMAIN chain'[p] : chain'[p][i] # Head(chain[p])
  BY <1>1, <1>2, <1>3
<1>5. \A i \in DOMAIN chain'[p] : chain'[p][i] # Close =>
        Queued(p, chain'[p][i]) /\ work'[chain'[p][i]] = work[chain'[p][i]]
  <2>1. \A i \in DOMAIN chain[p] : chain[p][i] # Close => Queued(p, chain[p][i])
    BY DEF Orderly, ChainFacts
  <2>2. \A w : Queued(p, w) => w \in Workers
    BY DEF Queued
  <2> QED BY <1>1, <1>4, <2>1, <2>2
<1>6. (\A i \in DOMAIN chain[p] : chain[p][i] = Close \/ Queued(p, chain[p][i]))'
  BY <1>5 DEF Queued
<1>7. (\A i, j \in DOMAIN chain[p] : i # j => chain[p][i] # chain[p][j])'
  <2> SUFFICES ASSUME NEW i \in DOMAIN chain'[p], NEW j \in DOMAIN chain'[p], i # j
               PROVE  chain'[p][i] # chain'[p][j]
    OBVIOUS
  <2>1. i + 1 # j + 1
    BY <1>1
  <2>2. chain[p][i + 1] # chain[p][j + 1]
    BY <1>2, <1>3, <2>1
  <2> QED BY <1>1, <2>2
<1>8. (\A i, j \in DOMAIN chain[p] : chain[p][i] = Close /\ j > i => work[chain[p][j]].late)'
  <2>1. \A i, j \in DOMAIN chain'[p] : chain'[p][i] = Close /\ j > i =>
          /\ chain[p][i + 1] = Close /\ j + 1 > i + 1 /\ chain'[p][j] # Close
          /\ chain'[p][j] = chain[p][j + 1]
    <3> SUFFICES ASSUME NEW i \in DOMAIN chain'[p], NEW j \in DOMAIN chain'[p],
                        chain'[p][i] = Close, j > i
                 PROVE  /\ chain[p][i + 1] = Close /\ j + 1 > i + 1 /\ chain'[p][j] # Close
                        /\ chain'[p][j] = chain[p][j + 1]
      OBVIOUS
    <3>1. i \in Nat /\ j \in Nat
      BY <1>1
    <3>2. j + 1 > i + 1 /\ i # j
      BY <3>1
    <3>3. chain'[p][i] = chain[p][i + 1] /\ chain'[p][j] = chain[p][j + 1]
      BY <1>1
    <3>4. chain'[p][j] # chain'[p][i]
      BY <1>7, <3>2
    <3> QED BY <3>2, <3>3, <3>4
  <2>2. \A i, j \in DOMAIN chain'[p] : chain'[p][i] = Close /\ j > i =>
          work[chain[p][j + 1]].late
    BY <1>3, <2>1 DEF Orderly, ChainFacts
  <2> QED BY <1>5, <2>1, <2>2
<1>9. \A j \in DOMAIN chain[p] : j > 1 => \E i \in DOMAIN chain'[p] : chain'[p][i] = chain[p][j]
  BY <1>1
<1>10. \A i \in DOMAIN chain'[p] : \E j \in DOMAIN chain[p] : j > 1 /\ chain'[p][i] = chain[p][j]
  BY <1>1, <1>3
<1> QED BY <1>1, <1>4, <1>6, <1>7, <1>8, <1>9, <1>10

LEMMA RunCloseKeepsOrder ==
  ASSUME TypeOK, Orderly, NEW p \in Procs, RunClose(p)
  PROVE  Orderly'
<1>1. /\ \A q \in Procs : at'[q] = IF q = p THEN "closed" ELSE at[q]
      /\ \A q \in Procs : chain'[q] = IF q = p THEN Tail(chain[p]) ELSE chain[q]
      /\ UNCHANGED <<ring, work>> /\ chain[p] # <<>> /\ Head(chain[p]) = Close
  BY DEF RunClose, TypeOK, Stage, life
<1>2. /\ \A j \in DOMAIN chain[p] : j > 1 =>
           \E i \in DOMAIN chain'[p] : chain'[p][i] = chain[p][j]
      /\ \A i \in DOMAIN chain'[p] :
           \E j \in DOMAIN chain[p] : j > 1 /\ chain'[p][i] = chain[p][j]
      /\ \A i \in DOMAIN chain'[p] : chain'[p][i] # Close
      /\ 1 \in DOMAIN chain[p] /\ chain[p][1] = Close
      /\ (\A i \in DOMAIN chain[p] : chain[p][i] = Close \/ Queued(p, chain[p][i]))'
      /\ (\A i, j \in DOMAIN chain[p] : i # j => chain[p][i] # chain[p][j])'
      /\ (\A i, j \in DOMAIN chain[p] : chain[p][i] = Close /\ j > i =>
                                          work[chain[p][j]].late)'
  BY <1>1, TailKeepsOrder
<1>3. at[p] = "closeEngine" /\ \A j \in DOMAIN chain[p] : j > 1 => work[chain[p][j]].late
  BY <1>2 DEF Orderly, ChainFacts
<1>4. "closed" \in Live /\ "closeEngine" \in Live /\ "closed" # "closeMgmt"
      /\ "closeEngine" \in Ended /\ "closed" \in Ended
  BY DEF Live, Stopping, Ended
<1>5. ASSUME NEW q \in Procs
      PROVE  ProcFacts(q)' /\ ChainFacts(q)'
  <2>1. CASE q = p
    <3>1. ProcFacts(p)'
      BY <1>1, <1>3, <1>4 DEF Orderly, ProcFacts
    <3>2. \A j \in DOMAIN chain'[p] : work'[chain'[p][j]].late
      BY <1>1, <1>2, <1>3
    <3>3. ((\E i \in DOMAIN chain[p] : chain[p][i] = Close) <=> at[p] = "closeEngine")'
      BY <1>1, <1>2
    <3> QED BY <1>2, <2>1, <3>1, <3>2, <3>3 DEF ChainFacts
  <2>2. CASE q # p
    BY <1>1, <2>2, OthersKeepOrder
  <2> QED BY <2>1, <2>2
<1>6. ASSUME NEW w \in Workers, work[w] # None
      PROVE  WorkFacts(w)'
  <2>1. work[w].proc \in Procs
    BY <1>6, JobType DEF Work
  <2>2. work[w].proc = p => ~work[w].client
    BY <1>3, <1>4, <1>6 DEF Orderly, WorkFacts
  <2>3. Queued(work[w].proc, w) => \E i \in DOMAIN chain'[work[w].proc] :
                                     chain'[work[w].proc][i] = w
    <3>1. \A j \in DOMAIN chain[p] : j > 1 \/ j = 1
      BY DEF TypeOK
    <3> QED BY <1>1, <1>2, <1>6, <2>1, <3>1 DEF Orderly, WorkFacts
  <2> QED BY <1>1, <1>4, <1>6, <2>1, <2>2, <2>3 DEF Orderly, WorkFacts, Queued
<1>7. \A w \in Workers : WorkFacts(w)'
  BY <1>1, <1>6 DEF WorkFacts
<1> QED BY <1>5, <1>7 DEF Orderly

LEMMA SettlesKeepsOrder ==
  ASSUME TypeOK, Orderly, NEW p \in Procs, NEW w \in Workers, NEW job \in Work,
         Settles(p, w, job)
  PROVE  Orderly'
<1>1. /\ \A q \in Procs : chain'[q] = IF q = p THEN Tail(chain[p]) ELSE chain[q]
      /\ \A v \in Workers : work'[v] = IF v = w THEN job ELSE work[v]
      /\ UNCHANGED <<at, ring>> /\ chain[p] # <<>> /\ Head(chain[p]) = w
  BY DEF Settles, AtHead, TypeOK, life
<1>2. work[w] # None /\ work[w] \in Work /\ work[w].proc = p
  BY QueuedIsWork, JobType DEF Settles
<1>3. /\ job.proc = p /\ job.kind = work[w].kind /\ job.client = work[w].client
      /\ job.step \notin {"read", "write"} /\ job # None
  BY <1>2 DEF Settles, Work
<1>4. /\ \A j \in DOMAIN chain[p] : j > 1 =>
           \E i \in DOMAIN chain'[p] : chain'[p][i] = chain[p][j]
      /\ \A i \in DOMAIN chain'[p] :
           \E j \in DOMAIN chain[p] : j > 1 /\ chain'[p][i] = chain[p][j]
      /\ \A i \in DOMAIN chain'[p] : chain'[p][i] # w
      /\ 1 \in DOMAIN chain[p] /\ chain[p][1] = w
      /\ (\A i \in DOMAIN chain[p] : chain[p][i] = Close \/ Queued(p, chain[p][i]))'
      /\ (\A i, j \in DOMAIN chain[p] : i # j => chain[p][i] # chain[p][j])'
      /\ (\A i, j \in DOMAIN chain[p] : chain[p][i] = Close /\ j > i =>
                                          work[chain[p][j]].late)'
  BY <1>1, TailKeepsOrder
<1>5. \A j \in DOMAIN chain[p] : j > 1 \/ j = 1
  BY DEF TypeOK
<1>6. ASSUME NEW q \in Procs
      PROVE  ProcFacts(q)' /\ ChainFacts(q)'
  <2>1. CASE q = p
    <3>1. ProcFacts(p)'
      BY <1>1 DEF Orderly, ProcFacts
    <3>2. ((\E i \in DOMAIN chain[p] : chain[p][i] = Close) <=> at[p] = "closeEngine")'
      BY <1>1, <1>4, <1>5 DEF Orderly, ChainFacts
    <3>3. (at[p] = "closed" => \A j \in DOMAIN chain[p] : work[chain[p][j]].late)'
      <4> SUFFICES ASSUME at[p] = "closed", NEW j \in DOMAIN chain'[p]
                   PROVE  work'[chain'[p][j]].late
        BY <1>1
      <4>1. PICK i \in DOMAIN chain[p] : chain'[p][j] = chain[p][i]
        BY <1>4
      <4>2. chain[p][i] # Close /\ work[chain[p][i]].late
        BY DEF Orderly, ChainFacts
      <4>3. chain[p][i] \in Workers
        BY <4>2 DEF TypeOK
      <4> QED BY <1>1, <1>4, <4>1, <4>2, <4>3
    <3> QED BY <1>4, <2>1, <3>1, <3>2, <3>3 DEF ChainFacts
  <2>2. CASE q # p
    BY <1>1, <1>2, <2>2, OthersKeepOrder DEF Queued
  <2> QED BY <2>1, <2>2
<1>7. ASSUME NEW v \in Workers, work'[v] # None
      PROVE  WorkFacts(v)'
  <2>1. CASE v = w
    BY <1>1, <1>2, <1>3, <2>1 DEF Orderly, WorkFacts, Queued
  <2>2. CASE v # w
    <3>1. work[v] = work'[v] /\ work[v].proc \in Procs
      BY <1>1, <1>7, <2>2, JobType DEF Work
    <3>2. Queued(work[v].proc, v) => \E i \in DOMAIN chain'[work[v].proc] :
                                       chain'[work[v].proc][i] = v
      BY <1>1, <1>4, <1>5, <1>7, <2>2, <3>1 DEF Orderly, WorkFacts
    <3> QED BY <1>1, <1>7, <3>1, <3>2 DEF Orderly, WorkFacts, Queued
  <2> QED BY <2>1, <2>2
<1>8. \A v \in Workers : WorkFacts(v)'
  BY <1>7 DEF WorkFacts
<1> QED BY <1>6, <1>8 DEF Orderly

LEMMA QueuesKeepsOrder ==
  ASSUME TypeOK, Orderly, NEW w \in Workers, NEW job \in Work, Queues(w, job)
  PROVE  Orderly'
<1> DEFINE p == job.proc
<1>1. /\ p \in Procs /\ job # None
      /\ \A q \in Procs : chain'[q] = IF q = p THEN Append(chain[p], w) ELSE chain[q]
      /\ \A v \in Workers : work'[v] = IF v = w THEN job ELSE work[v]
      /\ UNCHANGED <<at, ring>> /\ ~Queued(p, w)
      /\ job.step \in {"read", "write"} /\ (job.late <=> at[p] \in Ended)
  BY DEF Queues, TypeOK, life, Work, Queued
<1>2. /\ at[p] \in Live
      /\ job.client => /\ job.kind # "sweep" /\ at[p] \notin Ended
                       /\ at[p] = "closeMgmt" => job.kind = "mgmt"
  BY DEF Queues, Orderly, WorkFacts
<1>3. \A q \in Procs : ~Queued(q, w)
  BY DEF Queues, Queued
<1>4. \A q \in Procs : \A i \in DOMAIN chain[q] : chain[q][i] # w
  BY <1>3 DEF Orderly, ChainFacts
<1> HIDE DEF p
<1>5. /\ DOMAIN chain[p] \subseteq DOMAIN chain'[p] /\ DOMAIN chain'[p] \subseteq Nat
      /\ \A i \in DOMAIN chain[p] : chain'[p][i] = chain[p][i]
      /\ \E n \in DOMAIN chain'[p] :
           /\ chain'[p][n] = w
           /\ \A i \in DOMAIN chain'[p] \ {n} : i \in DOMAIN chain[p] /\ i < n
  <2>1. chain'[p] = Append(chain[p], w) /\ w \in Workers \cup {Close}
        /\ chain[p] \in Seq(Workers \cup {Close})
    BY <1>1 DEF TypeOK
  <2>2. /\ DOMAIN chain[p] \subseteq DOMAIN Append(chain[p], w)
        /\ DOMAIN Append(chain[p], w) \subseteq Nat
        /\ \A i \in DOMAIN chain[p] : Append(chain[p], w)[i] = chain[p][i]
    BY <2>1, AppendFacts
  <2>3. \E n \in DOMAIN Append(chain[p], w) :
          /\ Append(chain[p], w)[n] = w
          /\ \A i \in DOMAIN Append(chain[p], w) \ {n} : i \in DOMAIN chain[p] /\ i < n
    BY <2>1, AppendFacts
  <2> QED BY <2>1, <2>2, <2>3
<1>6. PICK n \in DOMAIN chain'[p] :
        /\ chain'[p][n] = w
        /\ \A i \in DOMAIN chain'[p] \ {n} : i \in DOMAIN chain[p] /\ i < n
  BY <1>5
<1>7. \A i \in DOMAIN chain[p] : chain[p][i] # Close =>
        /\ Queued(p, chain[p][i]) /\ work'[chain[p][i]] = work[chain[p][i]]
  <2>1. \A i \in DOMAIN chain[p] : chain[p][i] # Close => Queued(p, chain[p][i])
    BY <1>1 DEF Orderly, ChainFacts
  <2>2. \A v : Queued(p, v) => v \in Workers
    BY DEF Queued
  <2> QED BY <1>1, <1>4, <2>1, <2>2
<1>8. work'[w] = job /\ w # Close /\ job.proc = p
  BY <1>1 DEF p
<1>9. ProcFacts(p)'
  BY <1>1, <1>2 DEF Orderly, ProcFacts
<1>10. (\A i \in DOMAIN chain[p] : chain[p][i] = Close \/ Queued(p, chain[p][i]))'
  BY <1>1, <1>5, <1>6, <1>7, <1>8 DEF Queued
<1>11. (\A i, j \in DOMAIN chain[p] : i # j => chain[p][i] # chain[p][j])'
  BY <1>1, <1>4, <1>5, <1>6 DEF Orderly, ChainFacts
<1>12. ((\E i \in DOMAIN chain[p] : chain[p][i] = Close) <=> at[p] = "closeEngine")'
  BY <1>1, <1>5, <1>6, <1>8 DEF Orderly, ChainFacts
<1>13. (\A i, j \in DOMAIN chain[p] : chain[p][i] = Close /\ j > i => work[chain[p][j]].late)'
  <2> SUFFICES ASSUME NEW i \in DOMAIN chain'[p], NEW j \in DOMAIN chain'[p],
                      chain'[p][i] = Close, j > i
               PROVE  work'[chain'[p][j]].late
    OBVIOUS
  <2>1. i # n /\ i \in DOMAIN chain[p] /\ chain[p][i] = Close
    BY <1>5, <1>6, <1>8
  <2>2. at[p] \in Ended
    BY <1>1, <2>1 DEF Orderly, ChainFacts, Ended
  <2>3. CASE j = n
    BY <1>1, <1>6, <1>8, <2>2, <2>3
  <2>4. CASE j # n
    <3>1. j \in DOMAIN chain[p] /\ chain'[p][j] = chain[p][j] /\ j # i
      BY <1>5, <1>6, <2>4
    <3>2. work[chain[p][j]].late /\ chain[p][j] # Close
      BY <1>1, <2>1, <3>1 DEF Orderly, ChainFacts
    <3> QED BY <1>7, <3>1, <3>2
  <2> QED BY <2>3, <2>4
<1>14. (at[p] = "closed" => \A j \in DOMAIN chain[p] : work[chain[p][j]].late)'
  <2> SUFFICES ASSUME at[p] = "closed", NEW j \in DOMAIN chain'[p]
               PROVE  work'[chain'[p][j]].late
    BY <1>1
  <2>1. CASE j = n
    BY <1>1, <1>6, <1>8, <2>1 DEF Ended
  <2>2. CASE j # n
    <3>1. j \in DOMAIN chain[p] /\ chain'[p][j] = chain[p][j]
      BY <1>5, <1>6, <2>2
    <3>2. work[chain[p][j]].late /\ chain[p][j] # Close
      BY <1>1, <3>1 DEF Orderly, ChainFacts
    <3> QED BY <1>7, <3>1, <3>2
  <2> QED BY <2>1, <2>2
<1>15. ASSUME NEW q \in Procs
       PROVE  ProcFacts(q)' /\ ChainFacts(q)'
  <2>1. CASE q = p
    BY <1>9, <1>10, <1>11, <1>12, <1>13, <1>14, <2>1 DEF ChainFacts
  <2>2. CASE q # p
    BY <1>1, <1>3, <2>2, OthersKeepOrder
  <2> QED BY <2>1, <2>2
<1>16. ASSUME NEW v \in Workers, work'[v] # None
       PROVE  WorkFacts(v)'
  <2>1. CASE v = w
    BY <1>1, <1>2, <1>6, <1>8, <2>1 DEF WorkFacts, p
  <2>2. CASE v # w
    <3>1. work[v] = work'[v] /\ work[v].proc \in Procs
      BY <1>1, <1>16, <2>2, JobType DEF Work
    <3>2. Queued(work[v].proc, v) => \E i \in DOMAIN chain'[work[v].proc] :
                                       chain'[work[v].proc][i] = v
      BY <1>1, <1>5, <1>16, <3>1 DEF Orderly, WorkFacts
    <3> QED BY <1>1, <1>16, <3>1, <3>2 DEF Orderly, WorkFacts, Queued
  <2> QED BY <2>1, <2>2
<1>17. \A v \in Workers : WorkFacts(v)'
  BY <1>16 DEF WorkFacts
<1> QED BY <1>15, <1>17 DEF Orderly

LEMMA ChangesKeepsOrder ==
  ASSUME TypeOK, Orderly, NEW w \in Workers, NEW job \in Work \cup {None}, Changes(w, job)
  PROVE  Orderly'
<1>1. /\ \A v \in Workers : work'[v] = IF v = w THEN job ELSE work[v]
      /\ UNCHANGED <<at, ring, chain>> /\ work[w] # None /\ work[w] \in Work
  BY JobType DEF Changes, TypeOK, life
<1>2. job # None => /\ job.proc = work[w].proc /\ job.kind = work[w].kind
                    /\ job.client => work[w].client
                    /\ job.late = work[w].late
  BY <1>1 DEF Changes, Work
<1>3. job # None /\ job.step \in {"read", "write"} <=> work[w].step \in {"read", "write"}
  <2>1. CASE job = None /\ work[w].step = "answer"
    BY <2>1
  <2>2. CASE job = [work[w] EXCEPT !.step = "answer"] /\ work[w].step = "provider"
    <3>1. job.step = "answer"
      BY <1>1, <2>2 DEF Work
    <3> QED BY <2>2, <3>1
  <2>3. CASE job = [work[w] EXCEPT !.client = FALSE]
    <3>1. job.step = work[w].step /\ job \in Work
      BY <1>1, <2>3 DEF Work
    <3> QED BY <3>1
  <2> QED BY <2>1, <2>2, <2>3 DEF Changes
<1>4. \A q \in Procs : Queued(q, w) => Queued(q, w)'
  BY <1>1, <1>2, <1>3 DEF Queued
<1>5. ASSUME NEW q \in Procs
      PROVE  ProcFacts(q)' /\ ChainFacts(q)'
  <2>1. ProcFacts(q)'
    BY <1>1 DEF Orderly, ProcFacts
  <2>2. \A i \in DOMAIN chain[q] : chain[q][i] # Close =>
          /\ chain[q][i] \in Workers /\ Queued(q, chain[q][i])
    BY DEF Orderly, ChainFacts, Queued
  <2>3. \A v \in Workers : Queued(q, v) => Queued(q, v)' /\ work'[v].late = work[v].late
    BY <1>1, <1>2, <1>4 DEF Queued
  <2>4. (\A i \in DOMAIN chain[q] : chain[q][i] = Close \/ Queued(q, chain[q][i]))'
    BY <1>1, <2>2, <2>3
  <2>5. (\A i, j \in DOMAIN chain[q] : chain[q][i] = Close /\ j > i =>
                                         work[chain[q][j]].late)'
    <3>1. \A i, j \in DOMAIN chain[q] : chain[q][i] = Close /\ j > i =>
            work[chain[q][j]].late /\ chain[q][j] # Close
      BY DEF Orderly, ChainFacts, TypeOK
    <3> QED BY <1>1, <2>2, <2>3, <3>1
  <2>6. (at[q] = "closed" => \A j \in DOMAIN chain[q] : work[chain[q][j]].late)'
    <3>1. at[q] = "closed" => \A j \in DOMAIN chain[q] :
            work[chain[q][j]].late /\ chain[q][j] # Close
      BY DEF Orderly, ChainFacts
    <3> QED BY <1>1, <2>2, <2>3, <3>1
  <2>7. (\A i, j \in DOMAIN chain[q] : i # j => chain[q][i] # chain[q][j])'
        /\ ((\E i \in DOMAIN chain[q] : chain[q][i] = Close) <=> at[q] = "closeEngine")'
    BY <1>1 DEF Orderly, ChainFacts
  <2> QED BY <2>1, <2>4, <2>5, <2>6, <2>7 DEF ChainFacts
<1>6. ASSUME NEW v \in Workers, work'[v] # None
      PROVE  WorkFacts(v)'
  <2>1. CASE v = w
    <3>1. work[w].proc \in Procs
      BY <1>1 DEF Work
    <3>2. work[w].step \in {"read", "write"} =>
            \E i \in DOMAIN chain[work[w].proc] : chain[work[w].proc][i] = w
      BY <1>1 DEF Orderly, WorkFacts, Queued
    <3> QED BY <1>1, <1>2, <1>3, <1>6, <2>1, <3>1, <3>2 DEF Orderly, WorkFacts, Queued
  <2>2. CASE v # w
    BY <1>1, <1>6, <2>2 DEF Orderly, WorkFacts, Queued
  <2> QED BY <2>1, <2>2
<1>7. \A v \in Workers : WorkFacts(v)'
  BY <1>6 DEF WorkFacts
<1> QED BY <1>5, <1>7 DEF Orderly

LEMMA OrderlyStep ==
  ASSUME TypeOK, Orderly, [Next]_vars
  PROVE  Orderly'
<1>1. CASE UNCHANGED <<at, life, chain, work, sealed, cutOff>>
  BY <1>1 DEF Orderly, ProcFacts, ChainFacts, WorkFacts, Queued, life
<1> QED BY <1>1, Steps, MovesKeepsOrder, StartKeepsOrder, GoneKeepsOrder, MgmtClosedKeepsOrder,
       RunCloseKeepsOrder, SettlesKeepsOrder, QueuesKeepsOrder, ChangesKeepsOrder

-----------------------------------------------------------------------------
(* Who reads what *)

LEMMA EncryptFacts ==
  ASSUME NEW r \in Rings, ~NoKeys(r)
  PROVE  /\ Encrypt(r) \in Cryptogram
         /\ CanDecrypt(r, Encrypt(r))
         /\ \A id \in DOMAIN r : id <= Encrypt(r).id
<1>1. \E id \in DOMAIN r : \A other \in DOMAIN r : id >= other
  BY DEF NoKeys
<1>2. CurrentId(r) \in DOMAIN r /\ \A other \in DOMAIN r : CurrentId(r) >= other
  BY <1>1 DEF CurrentId
<1>3. CurrentId(r) \in Ids /\ r[CurrentId(r)] \in Keys
  BY <1>2 DEF Ids
<1>4. DOMAIN r \subseteq Nat
  OBVIOUS
<1>5. \A id \in DOMAIN r : id <= CurrentId(r)
  BY <1>2, <1>4
<1> QED BY <1>2, <1>3, <1>5 DEF Encrypt, Cryptogram, CanDecrypt

\* A process writes with the highest key of its ring.
LEMMA WriterHasKey ==
  ASSUME TypeOK, Orderly, NEW p \in Procs, NEW w \in Workers, AtHead(p, w)
  PROVE  /\ ring[p] \in Rings /\ at[p] # "down"
         /\ Encrypt(ring[p]) \in Cryptogram /\ Encrypt(ring[p]) \in InUse
<1>1. at[p] \in Live
  BY DEF AtHead, Orderly, ProcFacts
<1>2. ring[p] \in Rings /\ ~NoKeys(ring[p]) /\ at[p] # "down"
  BY <1>1 DEF Orderly, ProcFacts, TypeOK, Live, Stopping
<1>3. p \in Running /\ CanDecrypt(ring[p], Encrypt(ring[p]))
      /\ \A id \in DOMAIN ring[p] : id <= Encrypt(ring[p]).id
  BY <1>2, EncryptFacts DEF Running
<1>4. Encrypt(ring[p]) \in Cryptogram
  BY <1>2, EncryptFacts
<1> QED BY <1>2, <1>3, <1>4 DEF InUse

\* A row is written by an operation, with the key of its process.
LEMMA SealedStep ==
  ASSUME TypeOK, Orderly, [Next]_vars
  PROVE  \/ UNCHANGED sealed
         \/ \E p \in Procs, w \in Workers, s \in Subs :
              AtHead(p, w) /\ sealed' = [sealed EXCEPT ![s] = Encrypt(ring[p])]
              /\ UNCHANGED <<at, life>>
<1>1. ASSUME NEW p \in Procs, Chain(p)
      PROVE  \/ UNCHANGED sealed
             \/ \E w \in Workers, s \in Subs :
                  AtHead(p, w) /\ sealed' = [sealed EXCEPT ![s] = Encrypt(ring[p])]
                  /\ UNCHANGED <<at, life>>
  BY <1>1 DEF Chain, RunClose, RunOperation, RejectOperation, Writes, Stored
<1>2. ASSUME NEW p \in Procs, Rise(p) \/ Stop(p) \/ Die(p)
      PROVE  UNCHANGED sealed
  BY <1>2 DEF Rise, Start, Open, Wire, EndCommand, ListenProxy, ListenMgmt, Stop, Signal,
     ProxyClosed, MgmtClosed, Exit, Die, Gone
<1>3. ASSUME NEW w \in Workers, Serve(w)
      PROVE  UNCHANGED sealed
  BY <1>3 DEF Serve, Accept, Granted, NoTokens, GoOn, Answer, Leave
<1> QED BY <1>1, <1>2, <1>3 DEF Next, vars

\* The newest process has every key that is in use, if it started with them.
Reach ==
  careful /\ at[newest] # "down" => \A c \in InUse : CanDecrypt(ring[newest], c)

LEMMA ReachStep ==
  ASSUME TypeOK, Orderly, Reach, [Next]_vars
  PROVE  Reach'
<1>1. ASSUME UNCHANGED <<ring, newest, careful>>, sealed' = sealed,
             \A q \in Procs : at'[q] = "down" <=> at[q] = "down"
      PROVE  Reach'
  <2>1. InUse' = InUse
    BY <1>1 DEF InUse, Stored, Running
  <2> QED BY <1>1, <2>1 DEF Reach, TypeOK
<1>2. ASSUME NEW p \in Procs, NEW r \in Rings, Start(p, r)
      PROVE  Reach'
  <2>1. /\ \A q \in Procs : q # p => ring'[q] = ring[q] /\ at'[q] = at[q]
        /\ ring'[p] = r /\ newest' = p /\ sealed' = sealed
        /\ careful' => \A c \in InUse : CanDecrypt(r, c)
    BY <1>2 DEF Start, Stage, TypeOK
  <2> SUFFICES ASSUME careful', NEW c \in InUse'
               PROVE  CanDecrypt(r, c)
    BY <2>1 DEF Reach
  <2>2. CASE \E s \in Stored : c = sealed[s]
    BY <2>1, <2>2 DEF InUse
  <2>3. CASE c \in Cryptogram /\ \E q \in Running' :
               CanDecrypt(ring'[q], c) /\ \A id \in DOMAIN ring'[q] : id <= c.id
    <3>1. PICK q \in Running' : CanDecrypt(ring'[q], c) /\ \A id \in DOMAIN ring'[q] : id <= c.id
      BY <2>3
    <3>2. CASE q = p
      BY <2>1, <3>1, <3>2
    <3>3. CASE q # p
      BY <2>1, <2>3, <3>1, <3>3 DEF InUse, Running
    <3> QED BY <3>2, <3>3
  <2> QED BY <2>1, <2>2, <2>3 DEF InUse, Stored
<1>3. ASSUME NEW p \in Procs, Gone(p)
      PROVE  Reach'
  <2>1. /\ \A q \in Procs : q # p => ring'[q] = ring[q] /\ at'[q] = at[q]
        /\ at'[p] = "down" /\ UNCHANGED <<newest, careful, sealed>>
    BY <1>3 DEF Gone, Stage, TypeOK
  <2>2. InUse' \subseteq InUse
    BY <2>1 DEF InUse, Stored, Running
  <2> QED BY <2>1, <2>2 DEF Reach, TypeOK
<1>4. ASSUME NEW p \in Procs, NEW w \in Workers, NEW s \in Subs, AtHead(p, w),
             sealed' = [sealed EXCEPT ![s] = Encrypt(ring[p])], UNCHANGED <<at, life>>
      PROVE  Reach'
  <2>1. Encrypt(ring[p]) \in InUse /\ UNCHANGED <<ring, newest, careful, at>>
    BY <1>4, WriterHasKey DEF life
  <2>2. \A t \in Subs : sealed'[t] = IF t = s THEN Encrypt(ring[p]) ELSE sealed[t]
    BY <1>4 DEF TypeOK
  <2>3. InUse' \subseteq InUse
    <3> SUFFICES ASSUME NEW c \in InUse'
                 PROVE  c \in InUse
      OBVIOUS
    <3>1. CASE \E t \in Stored' : c = sealed'[t]
      BY <2>1, <2>2, <3>1 DEF InUse, Stored
    <3>2. CASE c \in Cryptogram /\ \E q \in Running' :
                 CanDecrypt(ring'[q], c) /\ \A id \in DOMAIN ring'[q] : id <= c.id
      BY <2>1, <3>2 DEF InUse, Running
    <3> QED BY <3>1, <3>2 DEF InUse
  <2> QED BY <2>1, <2>3 DEF Reach
<1>5. ASSUME sealed' = sealed
      PROVE  Reach'
  <2>1. ASSUME NEW p \in Procs, NEW a \in At, Moves(p, a)
        PROVE  Reach'
    BY <1>1, <1>5, <2>1 DEF Moves, TypeOK
  <2>2. ASSUME NEW p \in Procs, MgmtClosed(p) \/ RunClose(p)
        PROVE  Reach'
    <3>1. at[p] # "down" /\ UNCHANGED life
          /\ \E a \in {"closed", "closeEngine"} : at' = [at EXCEPT ![p] = a]
      BY <2>2 DEF MgmtClosed, RunClose, Stage, Orderly, ProcFacts, Live, Stopping
    <3> QED BY <1>1, <1>5, <3>1 DEF life, TypeOK
  <2>3. CASE UNCHANGED <<at, life>>
    BY <1>1, <1>5, <2>3 DEF life
  <2> QED BY <1>2, <1>3, <2>1, <2>2, <2>3, Steps DEF Settles, Queues, Changes
<1> QED BY <1>4, <1>5, SealedStep

-----------------------------------------------------------------------------
(* Types *)

LEMMA CutType ==
  ASSUME TypeOK, NEW w \in Workers, work[w] # None
  PROVE  Cut(w) \in [client : BOOLEAN, late : BOOLEAN]
<1> DEFINE late == work[w].late \/ work[w].step = "provider"
<1>1. late \in BOOLEAN
  OBVIOUS
<1>2. work[w].client \in BOOLEAN
  BY JobType DEF Work
<1>3. Cut(w) = [client |-> work[w].client, late |-> late]
  BY DEF Cut
<1> HIDE DEF late
<1> QED BY <1>1, <1>2, <1>3

\* What a stop cuts off is a unit of work of a process at its end.
LEMMA CutOffStep ==
  ASSUME TypeOK, Orderly, [Next]_vars
  PROVE  \A c \in cutOff' \ cutOff :
           \E p \in Procs : \E w \in WorkOf(p) :
             /\ c = Cut(w) /\ at[p] = "closed"
             /\ work[w].client \/ work[w].step # "answer"
<1>1. ASSUME NEW p \in Procs, Chain(p)
      PROVE  \/ cutOff' = cutOff
             \/ \E w \in WorkOf(p) :
                  cutOff' = cutOff \cup {Cut(w)} /\ at[p] = "closed" /\ work[w].step # "answer"
  <2>1. ASSUME NEW w \in Workers, RejectOperation(p, w)
        PROVE  \E v \in WorkOf(p) :
                 cutOff' = cutOff \cup {Cut(v)} /\ at[p] = "closed" /\ work[v].step # "answer"
    <3>1. w \in WorkOf(p) /\ work[w].step # "answer"
      BY <2>1, QueuedIsWork DEF RejectOperation, WorkOf
    <3> QED BY <2>1, <3>1 DEF RejectOperation
  <2> QED BY <1>1, <2>1 DEF Chain, RunClose, RunOperation
<1>2. ASSUME NEW p \in Procs, Rise(p) \/ Signal(p) \/ ProxyClosed(p) \/ MgmtClosed(p) \/ Die(p)
      PROVE  cutOff' = cutOff
  BY <1>2 DEF Rise, Start, Open, Wire, EndCommand, ListenProxy, ListenMgmt, Signal, ProxyClosed,
     MgmtClosed, Die
<1>3. ASSUME NEW w \in Workers, Serve(w)
      PROVE  cutOff' = cutOff
  BY <1>3 DEF Serve, Accept, Granted, NoTokens, GoOn, Answer, Leave
<1>4. ASSUME NEW p \in Procs, Exit(p)
      PROVE  \A c \in cutOff' \ cutOff :
               \E w \in WorkOf(p) :
                 /\ c = Cut(w) /\ at[p] = "closed"
                 /\ work[w].client \/ work[w].step # "answer"
  BY <1>4 DEF Exit
<1> QED BY <1>1, <1>2, <1>3, <1>4 DEF Next, vars, Stop

LEMMA OrderlyStopStep ==
  ASSUME TypeOK, Orderly, StopIsOrderly, [Next]_vars
  PROVE  StopIsOrderly'
<1>1. ASSUME NEW p \in Procs, NEW w \in WorkOf(p), at[p] = "closed",
             work[w].client \/ work[w].step # "answer"
      PROVE  ~Cut(w).client /\ Cut(w).late
  <2>1. w \in Workers /\ work[w] # None /\ work[w].proc = p /\ work[w] \in Work
    BY JobType DEF WorkOf
  <2>2. ~work[w].client
    BY <1>1, <2>1 DEF Orderly, WorkFacts, Ended
  <2>3. work[w].step = "provider" \/ Queued(p, w)
    BY <1>1, <2>1, <2>2 DEF Queued, Work
  <2>4. Queued(p, w) => work[w].late
    <3>1. Queued(p, w) => \E i \in DOMAIN chain[p] : chain[p][i] = w
      BY <2>1 DEF Orderly, WorkFacts
    <3> QED BY <1>1, <3>1 DEF Orderly, ChainFacts
  <2> QED BY <2>2, <2>3, <2>4 DEF Cut
<1> QED BY <1>1, CutOffStep DEF StopIsOrderly

LEMMA TypeStep ==
  ASSUME TypeOK, Orderly, Schema, [Next]_vars
  PROVE  TypeOK'
<1>1. done' \in 0..Script
  BY SchemaStep
<1>2. torn' \in BOOLEAN
  <2>1. ASSUME NEW p \in Procs, Die(p)
        PROVE  torn' \in BOOLEAN
    BY <2>1, Zenon DEF Die
  <2>2. ASSUME NEW p \in Procs, Chain(p) \/ Rise(p) \/ Stop(p)
        PROVE  torn' = torn
    BY <2>2 DEF Chain, RunClose, RunOperation, RejectOperation, Rise, Start, Open, Migrate,
       FindTable, ReadVersion, ExecScript, Statement, Wire, EndCommand, ListenProxy, ListenMgmt,
       Stop, Signal, ProxyClosed, MgmtClosed, Exit, schemaVars
  <2>3. ASSUME NEW w \in Workers, Serve(w)
        PROVE  torn' = torn
    BY <2>3 DEF Serve, Accept, Granted, NoTokens, GoOn, Answer, Leave, schemaVars
  <2> QED BY <2>1, <2>2, <2>3 DEF Next, vars, schemaVars, TypeOK
<1>3. sealed' \in [Subs -> Cryptogram \cup {None}]
  BY SealedStep, WriterHasKey DEF TypeOK
<1>4. cutOff' \subseteq [client : BOOLEAN, late : BOOLEAN]
  <2>1. \A p \in Procs : \A w \in WorkOf(p) : Cut(w) \in [client : BOOLEAN, late : BOOLEAN]
    BY CutType DEF WorkOf
  <2> QED BY <2>1, CutOffStep DEF TypeOK
<1> DEFINE Rest == /\ at' \in [Procs -> At]
                   /\ ring' \in [Procs -> Rings \cup {None}]
                   /\ newest' \in Procs /\ careful' \in BOOLEAN
                   /\ chain' \in [Procs -> Seq(Workers \cup {Close})]
                   /\ work' \in [Workers -> Work \cup {None}]
<1>5. ASSUME NEW p \in Procs, NEW a \in At, Moves(p, a)
      PROVE  Rest
  BY <1>5 DEF Moves, TypeOK
<1>6. ASSUME NEW p \in Procs, NEW r \in Rings, Start(p, r)
      PROVE  Rest
  BY <1>6 DEF Start, Stage, TypeOK, At, Opening
<1>7. ASSUME NEW p \in Procs, Gone(p)
      PROVE  Rest
  BY <1>7 DEF Gone, Stage, TypeOK, At
<1>8. ASSUME NEW p \in Procs, MgmtClosed(p) \/ RunClose(p)
      PROVE  Rest
  <2>1. chain[p] \in Seq(Workers \cup {Close})
    BY DEF TypeOK
  <2>2. Append(chain[p], Close) \in Seq(Workers \cup {Close})
    BY <2>1
  <2>3. chain[p] # <<>> => Tail(chain[p]) \in Seq(Workers \cup {Close})
    BY <2>1
  <2>4. /\ chain' \in [Procs -> Seq(Workers \cup {Close})]
        /\ UNCHANGED <<life, work>> /\ at' \in [Procs -> At]
    <3>1. CASE MgmtClosed(p)
      BY <2>2, <3>1 DEF MgmtClosed, Stage, TypeOK, At, Stopping, WithClose
    <3>2. CASE RunClose(p)
      BY <2>3, <3>2 DEF RunClose, Stage, TypeOK, At, Stopping
    <3> QED BY <1>8, <3>1, <3>2
  <2> QED BY <2>4 DEF life, TypeOK
<1>9. ASSUME NEW p \in Procs, NEW w \in Workers, NEW job \in Work, Settles(p, w, job)
      PROVE  Rest
  <2>1. chain[p] # <<>> /\ chain[p] \in Seq(Workers \cup {Close})
    BY <1>9 DEF Settles, AtHead, TypeOK
  <2>2. Tail(chain[p]) \in Seq(Workers \cup {Close})
    BY <2>1
  <2> QED BY <1>9, <2>2 DEF Settles, TypeOK, life
<1>10. ASSUME NEW w \in Workers, NEW job \in Work, Queues(w, job)
       PROVE  Rest
  <2>1. job.proc \in Procs
    BY DEF Work
  <2>2. Append(chain[job.proc], w) \in Seq(Workers \cup {Close})
    BY <2>1 DEF TypeOK
  <2> QED BY <1>10, <2>1, <2>2 DEF Queues, TypeOK, life
<1>11. ASSUME NEW w \in Workers, NEW job \in Work \cup {None}, Changes(w, job)
       PROVE  Rest
  BY <1>11 DEF Changes, TypeOK, life
<1>12. ASSUME UNCHANGED <<at, life, chain, work, sealed, cutOff>>
       PROVE  Rest
  <2>1. UNCHANGED <<at, ring, newest, careful, chain, work>>
    BY <1>12 DEF life
  <2> QED BY <2>1 DEF TypeOK
<1> HIDE DEF Rest
<1>13. Rest
  BY <1>5, <1>6, <1>7, <1>8, <1>9, <1>10, <1>11, <1>12, Steps
<1> QED BY <1>1, <1>2, <1>3, <1>4, <1>13 DEF Rest, TypeOK

-----------------------------------------------------------------------------
(* Theorems *)

\* What is true at every step, by induction.
IInv == TypeOK /\ Orderly /\ Schema /\ Reach /\ StopIsOrderly

LEMMA IInvInit ==
  ASSUME Init
  PROVE  IInv
<1> USE DEF Init
<1>1. TypeOK
  <2>1. chain \in [Procs -> Seq(Workers \cup {Close})]
    BY DEF Init
  <2>2. done \in 0..Script /\ cutOff \subseteq [client : BOOLEAN, late : BOOLEAN]
    BY DEF Init
  <2> QED BY <2>1, <2>2 DEF TypeOK, At
<1>2. Orderly
  BY DEF Orderly, ProcFacts, ChainFacts, WorkFacts, Live, Stopping
<1>3. Schema
  BY DEF Schema, Opening, Table, Version
<1>4. Reach
  BY DEF Reach
<1> QED BY <1>1, <1>2, <1>3, <1>4 DEF IInv, StopIsOrderly

THEOREM Inductive == Spec => []IInv
<1>1. IInv /\ [Next]_vars => IInv'
  BY TypeStep, OrderlyStep, SchemaStep, ReachStep, OrderlyStopStep DEF IInv
<1> QED BY <1>1, IInvInit, PTL DEF Spec

\* The type invariant of the server's life.
THEOREM TypeCorrect == Spec => []TypeOK
BY Inductive, PTL DEF IInv

\* Whatever processes open the database, and in whatever order: past openEngine
\* the schema is complete but for a script that somebody is at or has died in
\* (applyMigrations).
THEOREM SchemaWholeHolds == Spec => []SchemaWhole
<1>1. IInv => SchemaWhole
  BY SchemaIsWhole DEF IInv
<1> QED BY <1>1, Inductive, PTL

\* On an engine that runs the script as one transaction the schema is complete in
\* every process that has opened it (PostgresEngine.exec).
THEOREM AtomicSchema ==
  Spec => [](Atomic => \A p \in Running : at[p] \notin Opening => done = Script)
<1>1. IInv => (Atomic => \A p \in Running : at[p] \notin Opening => done = Script)
  BY DEF IInv, Schema, Running, Version
<1> QED BY <1>1, Inductive, PTL

\* Nobody who waits for an answer is cut off by an orderly stop, however many
\* requests and sweeps are under way (Server.stop, SqliteEngine.close).
THEOREM StopIsOrderlyHolds == Spec => []StopIsOrderly
BY Inductive, PTL DEF IInv

\* A server that was started with all the keys reads every row, whatever the
\* processes before it still write (SecretCrypter).
THEOREM NewestReadsAllHolds == Spec => []NewestReadsAll
<1>1. IInv => NewestReadsAll
  BY DEF IInv, Reach, NewestReadsAll, Readable, InUse
<1> QED BY <1>1, Inductive, PTL

-----------------------------------------------------------------------------
(* Why a stop ends *)

\* The close of the engine, the i-th operation of p's chain, has run, or is where
\* it was, or is one nearer to the head.
Nears(p, i) ==
  \/ at'[p] \in {"closed", "down"}
  \/ at'[p] = "closeEngine" /\ \E j \in {i - 1, i} : j \in DOMAIN chain'[p] /\ chain'[p][j] = Close

\* It has run, or another operation has settled that was queued before it.
NearsByOne(p, i) ==
  \/ i = 1 /\ at'[p] \in {"closed", "down"}
  \/ i > 1 /\ at'[p] = "closeEngine" /\ i - 1 \in DOMAIN chain'[p] /\ chain'[p][i - 1] = Close

\* A stop only goes on: the listeners one after the other, then the engine, then
\* the exit.  What requests and sweeps still queue goes behind the engine's close
\* and never delays it, and each operation that settles brings it nearer, so it
\* runs after as many as were queued before it.
StopGoesOn ==
  [][\A p \in Procs :
       /\ at[p] = "closeProxy" => at'[p] \in {"closeProxy", "closeMgmt", "down"}
       /\ at[p] = "closeMgmt" => at'[p] \in {"closeMgmt", "closeEngine", "down"}
       /\ at[p] = "closed" => at'[p] \in {"closed", "down"}
       /\ at[p] = "closeEngine" =>
            \E i \in DOMAIN chain[p] :
              /\ chain[p][i] = Close
              /\ Nears(p, i) /\ (Chain(p) => NearsByOne(p, i))]_vars

\* A step of another process, or of work that queues nothing.
LEMMA StandsStill ==
  ASSUME NEW p \in Procs, at[p] = "closeEngine", at'[p] = at[p], chain'[p] = chain[p],
         NEW i \in DOMAIN chain[p], chain[p][i] = Close
  PROVE  Nears(p, i)
  BY DEF Nears

LEMMA SettledNears ==
  ASSUME TypeOK, Orderly, NEW p \in Procs, at[p] = "closeEngine",
         NEW i \in DOMAIN chain[p], chain[p][i] = Close,
         RunClose(p) \/ \E w \in Workers, job \in Work : Settles(p, w, job)
  PROVE  Nears(p, i) /\ NearsByOne(p, i)
<1>1. /\ i \in Nat \ {0} /\ chain[p] # <<>> /\ chain[p] \in Seq(Workers \cup {Close})
      /\ i > 1 => i - 1 \in DOMAIN Tail(chain[p]) /\ Tail(chain[p])[i - 1] = chain[p][i]
      /\ Head(chain[p]) = chain[p][1] /\ 1 \in DOMAIN chain[p]
  <2>1. chain[p] \in Seq(Workers \cup {Close})
    BY DEF TypeOK
  <2>2. chain[p] # <<>> /\ Head(chain[p]) = chain[p][1]
    BY <2>1
  <2> QED BY <2>1, <2>2, TailFacts
<1>2. \A a, b \in DOMAIN chain[p] : a # b => chain[p][a] # chain[p][b]
  BY DEF Orderly, ChainFacts
<1>3. CASE RunClose(p)
  <2>1. chain[p][1] = Close /\ at'[p] = "closed"
    BY <1>1, <1>3 DEF RunClose, Stage, TypeOK
  <2>2. i = 1
    BY <1>1, <1>2, <2>1
  <2> QED BY <2>1, <2>2 DEF Nears, NearsByOne
<1>4. CASE \E w \in Workers, job \in Work : Settles(p, w, job)
  <2>1. /\ chain'[p] = Tail(chain[p]) /\ at'[p] = "closeEngine"
        /\ chain[p][1] \in Workers
    BY <1>1, <1>4 DEF Settles, AtHead, TypeOK
  <2>2. i > 1
    BY <1>1, <2>1
  <2> QED BY <1>1, <2>1, <2>2 DEF Nears, NearsByOne
<1> QED BY <1>3, <1>4

LEMMA QueuedBehind ==
  ASSUME TypeOK, NEW p \in Procs, at[p] = "closeEngine",
         NEW i \in DOMAIN chain[p], chain[p][i] = Close,
         NEW w \in Workers, NEW job \in Work, Queues(w, job)
  PROVE  Nears(p, i)
<1>1. at'[p] = at[p] /\ job.proc \in Procs
  BY DEF Queues, Work
<1>2. CASE job.proc # p
  BY <1>1, <1>2, StandsStill DEF Queues, TypeOK
<1>3. CASE job.proc = p
  <2>1. chain'[p] = Append(chain[p], w) /\ chain[p] \in Seq(Workers \cup {Close})
    BY <1>3 DEF Queues, TypeOK
  <2>2. i \in DOMAIN chain'[p] /\ chain'[p][i] = chain[p][i]
    BY <2>1, AppendFacts
  <2> QED BY <1>1, <2>2 DEF Nears
<1> QED BY <1>2, <1>3

LEMMA CloseNears ==
  ASSUME TypeOK, Orderly, [Next]_vars, NEW p \in Procs, at[p] = "closeEngine",
         NEW i \in DOMAIN chain[p], chain[p][i] = Close
  PROVE  Nears(p, i)
<1> USE DEF TypeOK
<1>1. ASSUME NEW q \in Procs, NEW a \in At, Moves(q, a) PROVE Nears(p, i)
  BY <1>1, StandsStill DEF Moves, Ended
<1>2. ASSUME NEW q \in Procs, NEW r \in Rings, Start(q, r) PROVE Nears(p, i)
  BY <1>2, StandsStill DEF Start, Stage
<1>3. ASSUME NEW q \in Procs, Gone(q) PROVE Nears(p, i)
  <2>1. CASE q = p
    BY <1>3, <2>1 DEF Gone, Stage, Nears
  <2>2. CASE q # p
    BY <1>3, <2>2, StandsStill DEF Gone, Stage
  <2> QED BY <2>1, <2>2
<1>4. ASSUME NEW q \in Procs, MgmtClosed(q) PROVE Nears(p, i)
  BY <1>4, StandsStill DEF MgmtClosed, Stage
<1>5. ASSUME NEW q \in Procs, RunClose(q) PROVE Nears(p, i)
  <2>1. CASE q = p
    BY <1>5, <2>1, SettledNears
  <2>2. CASE q # p
    BY <1>5, <2>2, StandsStill DEF RunClose, Stage
  <2> QED BY <2>1, <2>2
<1>6. ASSUME NEW q \in Procs, NEW w \in Workers, NEW job \in Work, Settles(q, w, job)
      PROVE  Nears(p, i)
  <2>1. CASE q = p
    BY <1>6, <2>1, SettledNears
  <2>2. CASE q # p
    BY <1>6, <2>2, StandsStill DEF Settles
  <2> QED BY <2>1, <2>2
<1>7. ASSUME NEW w \in Workers, NEW job \in Work \cup {None}, Changes(w, job) PROVE Nears(p, i)
  BY <1>7, StandsStill DEF Changes
<1>8. CASE UNCHANGED <<at, life, chain, work, sealed, cutOff>>
  BY <1>8, StandsStill
<1> QED BY <1>1, <1>2, <1>3, <1>4, <1>5, <1>6, <1>7, <1>8, QueuedBehind, Steps

\* The listeners and the exit: where a process that is told to stop goes next.
LEMMA PhasesStep ==
  ASSUME TypeOK, Orderly, [Next]_vars, NEW p \in Procs
  PROVE  /\ at[p] = "closeProxy" => at'[p] \in {"closeProxy", "closeMgmt", "down"}
         /\ at[p] = "closeMgmt" => at'[p] \in {"closeMgmt", "closeEngine", "down"}
         /\ at[p] = "closed" => at'[p] \in {"closed", "down"}
<1> DEFINE Phases ==
      /\ at[p] = "closeProxy" => at'[p] \in {"closeProxy", "closeMgmt", "down"}
      /\ at[p] = "closeMgmt" => at'[p] \in {"closeMgmt", "closeEngine", "down"}
      /\ at[p] = "closed" => at'[p] \in {"closed", "down"}
<1> USE DEF TypeOK, Stage
<1>1. at'[p] = at[p] => Phases
  OBVIOUS
<1>2. ASSUME NEW q \in Procs, NEW a \in At, Moves(q, a) PROVE Phases
  BY <1>2 DEF Moves, Ended
<1>3. ASSUME NEW q \in Procs, NEW r \in Rings, Start(q, r) PROVE Phases
  BY <1>3 DEF Start
<1>4. ASSUME NEW q \in Procs, Gone(q) PROVE Phases
  BY <1>4 DEF Gone
<1>5. ASSUME NEW q \in Procs, MgmtClosed(q) PROVE Phases
  BY <1>5 DEF MgmtClosed
<1>6. ASSUME NEW q \in Procs, RunClose(q) PROVE Phases
  <2>1. at[q] = "closeEngine"
    <3>1. 1 \in DOMAIN chain[q] /\ chain[q][1] = Close
      BY <1>6 DEF RunClose
    <3> QED BY <3>1 DEF Orderly, ChainFacts
  <2> QED BY <1>6, <2>1 DEF RunClose
<1>7. ASSUME \/ \E q \in Procs, w \in Workers, job \in Work : Settles(q, w, job)
             \/ \E w \in Workers, job \in Work : Queues(w, job)
             \/ \E w \in Workers, job \in Work \cup {None} : Changes(w, job)
             \/ UNCHANGED <<at, life, chain, work, sealed, cutOff>>
      PROVE  at'[p] = at[p]
  BY <1>7 DEF Settles, Queues, Changes
<1> HIDE DEF Phases
<1>8. Phases
  BY <1>1, <1>2, <1>3, <1>4, <1>5, <1>6, <1>7, Steps
<1> QED BY <1>8 DEF Phases

\* However many sweeps and handlers are under way when a server is told to stop,
\* and however many operations they go on to queue, the stop is never set back and
\* its close of the engine comes nearer with every operation that settles: the
\* variant behind StopEnds (Server.stop, SqliteEngine.enqueue).
THEOREM StopFinishes == Spec => StopGoesOn
<1> DEFINE Goes ==
      \A p \in Procs :
        /\ at[p] = "closeProxy" => at'[p] \in {"closeProxy", "closeMgmt", "down"}
        /\ at[p] = "closeMgmt" => at'[p] \in {"closeMgmt", "closeEngine", "down"}
        /\ at[p] = "closed" => at'[p] \in {"closed", "down"}
        /\ at[p] = "closeEngine" =>
             \E i \in DOMAIN chain[p] :
               /\ chain[p][i] = Close
               /\ Nears(p, i) /\ (Chain(p) => NearsByOne(p, i))
<1>1. ASSUME TypeOK, Orderly, [Next]_vars, NEW p \in Procs, at[p] = "closeEngine"
      PROVE  \E i \in DOMAIN chain[p] :
               /\ chain[p][i] = Close
               /\ Nears(p, i) /\ (Chain(p) => NearsByOne(p, i))
  <2>1. PICK i \in DOMAIN chain[p] : chain[p][i] = Close
    BY <1>1 DEF Orderly, ChainFacts
  <2>2. Nears(p, i)
    BY <1>1, <2>1, CloseNears
  <2>3. ASSUME Chain(p) PROVE NearsByOne(p, i)
    BY <1>1, <2>1, <2>3, ChainSteps, SettledNears
  <2> QED BY <2>1, <2>2, <2>3
<1>2. IInv /\ [Next]_vars => Goes
  BY <1>1, PhasesStep DEF IInv
<1>3. IInv /\ [Next]_vars => [Goes]_vars
  BY <1>2
<1> HIDE DEF Goes
<1>4. [][Goes]_vars => StopGoesOn
  BY PTL DEF Goes, StopGoesOn
<1> QED BY Inductive, <1>3, <1>4, PTL DEF Spec
=============================================================================
