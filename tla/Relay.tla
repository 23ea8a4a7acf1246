-------------------------------- MODULE Relay --------------------------------
(***************************************************************************)
(* One exchange of the inference HTTP surface (ProxyHttpServer): the use   *)
(* case answers or throws, the upstream body is pumped to the client under *)
(* backpressure, and the subscription's in-flight slot is released.        *)
(* The client may close the connection, and the upstream body may fail, at *)
(* any moment.                                                             *)
(***************************************************************************)
EXTENDS Naturals

CONSTANT MaxChunks   \* bound on the chunks of a body

ASSUME RelayAssumption == MaxChunks \in Nat

VARIABLES
  pc,        \* see Pc
  client,    \* the client's end of the connection
  listening, \* pump has attached its close handler
  upstream,  \* the upstream body, as the reader meets it
  total,     \* chunks of the body
  sent,      \* chunks handed to the response
  heads,     \* response heads written (relay's or an error's)
  slot,      \* the in-flight slot handle took for the relay
  end        \* how the response was finished

vars == <<pc, client, listening, upstream, total, sent, heads, slot, end>>

Pc == {"handling",   \* awaits proxy.handle
       "reading",    \* awaits reader.read
       "draining",   \* awaits the drain of a full response buffer
       "done"}

TypeOK ==
  /\ pc \in Pc
  /\ client \in {"open", "gone"}
  /\ listening \in BOOLEAN
  /\ upstream \in {"none", "flowing", "broken", "cancelled"}
  /\ total \in 0..MaxChunks
  /\ sent \in 0..total
  /\ heads \in Nat
  /\ slot \in {"none", "held", "free"}
  /\ end \in {"none", "ended", "destroyed"}

Init ==
  /\ pc = "handling"
  /\ client = "open"
  /\ listening = FALSE
  /\ upstream = "none"
  /\ total = 0
  /\ sent = 0
  /\ heads = 0
  /\ slot = "none"
  /\ end = "none"

NeverReleases(after) == "held"

\* The slot during the relay: released in the finally, when the pump is over.
SlotWhile(after) == IF after = "done" THEN "free" ELSE "held"

AlwaysSendsError == heads' = heads + 1 /\ end' = "ended"

\* The catch of handle: an error envelope, unless the head has gone already.
Fail ==
  IF heads > 0 THEN end' = "destroyed" /\ UNCHANGED heads
  ELSE heads' = heads + 1 /\ end' = "ended"

\* proxy.handle throws: the slots it took it has released itself.
HandleThrows ==
  /\ pc = "handling"
  /\ pc' = "done"
  /\ Fail
  /\ UNCHANGED <<client, listening, upstream, total, sent, slot>>

\* A response without a body: the head, the end and the release in one go.
RelayBodiless ==
  /\ pc = "handling"
  /\ heads' = heads + 1
  /\ end' = "ended"
  /\ pc' = "done"
  /\ slot' = SlotWhile("done")
  /\ UNCHANGED <<client, listening, upstream, total, sent>>

\* The head is written, the close handler attached, the first read begun.  If
\* the client left while handle was at work, its close event is past.
StartPump(n) ==
  /\ pc = "handling"
  /\ heads' = heads + 1
  /\ upstream' = "flowing"
  /\ total' = n
  /\ listening' = TRUE
  /\ pc' = "reading"
  /\ slot' = SlotWhile("reading")
  /\ UNCHANGED <<client, sent, end>>

MoreChunks == sent < total

\* A chunk is read and written.  The write is accepted, or fills the buffer; to
\* a response whose connection is gone it reports a full buffer, for ever.
Chunk ==
  /\ pc = "reading" /\ upstream = "flowing" /\ MoreChunks
  /\ sent' = sent + 1
  /\ pc' \in (IF client = "open" THEN {"reading"} ELSE {}) \cup {"draining"}
  /\ slot' = SlotWhile(pc')
  /\ UNCHANGED <<client, listening, upstream, total, heads, end>>

\* The client has read enough of the buffer.
Drain ==
  /\ pc = "draining" /\ client = "open"
  /\ pc' = "reading"
  /\ UNCHANGED <<client, listening, upstream, total, sent, heads, slot, end>>

\* The body is over, or its reader was cancelled: the response is ended.
ReadDone ==
  /\ pc = "reading"
  /\ upstream = "cancelled" \/ (upstream = "flowing" /\ sent = total)
  /\ end' = "ended"
  /\ pc' = "done"
  /\ slot' = SlotWhile("done")
  /\ UNCHANGED <<client, listening, upstream, total, sent, heads>>

SwallowsFailure == end' = "ended" /\ UNCHANGED heads
OnReadFailure == Fail

ReadFails ==
  /\ pc = "reading" /\ upstream = "broken"
  /\ OnReadFailure
  /\ pc' = "done"
  /\ slot' = SlotWhile("done")
  /\ UNCHANGED <<client, listening, upstream, total, sent>>

\* The upstream connection fails or stays silent past undici's body timeout.
UpstreamBreaks ==
  /\ upstream = "flowing" /\ pc # "done"
  /\ upstream' = "broken"
  /\ UNCHANGED <<pc, client, listening, total, sent, heads, slot, end>>

ForgetsCancel == upstream

\* The close handler cancels the reader, which ends a pending read.
AfterClose == IF listening /\ upstream = "flowing" THEN "cancelled" ELSE upstream

ClientCloses ==
  /\ client = "open" /\ pc # "done"
  /\ client' = "gone"
  /\ upstream' = AfterClose
  /\ UNCHANGED <<pc, listening, total, sent, heads, slot, end>>

Next ==
  \/ HandleThrows \/ RelayBodiless \/ (\E n \in 0..MaxChunks : StartPump(n))
  \/ Chunk \/ Drain \/ ReadDone \/ ReadFails
  \/ UpstreamBreaks \/ ClientCloses

Spec == Init /\ [][Next]_vars

\* A read ends (undici's body timeout), and a client that stays reads on.
FairSpec == Spec /\ WF_vars(Chunk \/ ReadDone \/ ReadFails) /\ WF_vars(Drain)

-----------------------------------------------------------------------------
(* Properties *)

\* spp-proxy:INV-002: once a head is committed no second head or error envelope
\* follows it; a body that fails then costs the connection (catch of handle).
OneHead ==
  /\ heads <= 1
  /\ pc = "done" /\ upstream = "broken" => end = "destroyed"

\* A client that sees the response end in order has been sent the whole body: a
\* truncated one never passes for complete (pump, the catch of handle).
CleanEndIsWhole ==
  end = "ended" /\ client = "open" => sent = total

\* Once the client has left, a body that was under way is read no further: its
\* reader is cancelled wherever the pump stands.  If the client left before the
\* close handler was there, one chunk is read, on which the pump stays (pump's
\* "close" handler and isAborted, write).
AbortStopsReading ==
  [][client = "gone" /\ sent' # sent => sent = 0]_vars

\* Every relay comes to its end and releases the slot, through backpressure,
\* upstream failure and a client that leaves: unless it leaves while, or before,
\* the pump awaits a drain (relay, pump, write; SlotReturned has the exception).
RelayEnds ==
  slot = "held" ~> slot = "free" \/ (client = "gone" /\ pc = "draining")

\* ProxyPort.ts:16-17: release is called once the response has been fully
\* relayed (or aborted).  Refuted: a write to a closed connection, or one that
\* waits for a drain when it closes, waits for ever, and the slot with it.
SlotReturned == slot = "held" ~> slot = "free"
=============================================================================
