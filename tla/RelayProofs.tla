----------------------------- MODULE RelayProofs -----------------------------
(***************************************************************************)
(* Proofs about Relay for bodies of any length.                            *)
(*                                                                         *)
(* The safety properties speak of the end of an exchange; what carries     *)
(* them there is a picture of each phase (ByPhase): before the head        *)
(* nothing has happened, while pumping the head is out and the slot held,  *)
(* and afterwards the end tells how the body went.  PumpLeft counts the    *)
(* steps to the end of a pump whose client stays.                          *)
(***************************************************************************)
EXTENDS Relay, TLAPS

Pumping == pc \in {"reading", "draining"}

\* What is true in each phase of an exchange.
ByPhase ==
  /\ pc = "handling" =>
       heads = 0 /\ sent = 0 /\ total = 0 /\ upstream = "none"
         /\ end = "none" /\ slot = "none"
  /\ Pumping =>
       heads = 1 /\ listening /\ upstream # "none" /\ end = "none" /\ slot = "held"
  /\ pc = "done" =>
       heads = 1 /\ slot # "held" /\ (upstream = "broken" => end = "destroyed")

\* Only a client that left has the reader cancelled, and an end in order is the
\* end of the body or comes from a cancelled reader.
EndTells ==
  /\ upstream = "cancelled" => client = "gone"
  /\ end = "ended" => sent = total \/ client = "gone"

\* A body still flowing to a client that left is one whose close handler came too
\* late, and the first chunk of it is where the pump stays.
LateHandler ==
  client = "gone" /\ pc = "reading" /\ upstream = "flowing" => sent = 0

RelayInv == TypeOK /\ ByPhase /\ EndTells /\ LateHandler

LEMMA RelayInit == Init => RelayInv
<1> SUFFICES ASSUME Init PROVE RelayInv
  OBVIOUS
<1>1. TypeOK
  <2>1. listening \in BOOLEAN
    BY DEF Init
  <2> QED BY <2>1, RelayAssumption DEF Init, TypeOK, Pc
<1>2. ByPhase /\ EndTells /\ LateHandler
  BY DEF Init, ByPhase, EndTells, LateHandler, Pumping
<1> QED BY <1>1, <1>2 DEF RelayInv

LEMMA RelayStep == RelayInv /\ [Next]_vars => RelayInv'
<1> SUFFICES ASSUME RelayInv, [Next]_vars PROVE RelayInv'
  OBVIOUS
<1> USE RelayAssumption DEF RelayInv, TypeOK, ByPhase, EndTells, LateHandler, Pumping, Pc
<1>1. CASE HandleThrows
  BY <1>1 DEF HandleThrows, Fail
<1>2. CASE RelayBodiless
  BY <1>2 DEF RelayBodiless, SlotWhile
<1>3. CASE \E n \in 0..MaxChunks : StartPump(n)
  BY <1>3 DEF StartPump, SlotWhile
<1>4. CASE Chunk
  BY <1>4 DEF Chunk, MoreChunks, SlotWhile
<1>5. CASE Drain
  BY <1>5 DEF Drain
<1>6. CASE ReadDone
  BY <1>6 DEF ReadDone, SlotWhile
<1>7. CASE ReadFails
  BY <1>7 DEF ReadFails, OnReadFailure, Fail, SlotWhile
<1>8. CASE UpstreamBreaks
  BY <1>8 DEF UpstreamBreaks
<1>9. CASE ClientCloses
  BY <1>9 DEF ClientCloses, AfterClose
<1>10. CASE UNCHANGED vars
  BY <1>10 DEF vars
<1> QED
  BY <1>1, <1>2, <1>3, <1>4, <1>5, <1>6, <1>7, <1>8, <1>9, <1>10 DEF Next

LEMMA RelayAlways == Spec => []RelayInv
  BY RelayInit, RelayStep, PTL DEF Spec

-----------------------------------------------------------------------------
\* The exchange keeps its types; in particular the pump never writes past the
\* end of the body it reads (Chunk and the loop of pump).
THEOREM TypeCorrect == Spec => []TypeOK
  BY RelayAlways, PTL DEF RelayInv

\* One head per exchange, and a body that failed costs the connection: for a
\* body of any length and any moment of failure (relay, the catch of handle).
THEOREM OneHeadOnly == Spec => []OneHead
<1>1. RelayInv => OneHead
  BY DEF RelayInv, TypeOK, ByPhase, Pumping, Pc, OneHead
<1> QED BY RelayAlways, <1>1, PTL

\* A truncated body never passes for complete with a client that is there.
THEOREM NoSilentTruncation == Spec => []CleanEndIsWhole
<1>1. RelayInv => CleanEndIsWhole
  BY DEF RelayInv, TypeOK, EndTells, CleanEndIsWhole
<1> QED BY RelayAlways, <1>1, PTL

\* Whatever the length of a body and wherever the pump stands, nothing of it is
\* read for a client that left while it was under way (pump's "close" handler).
THEOREM NoReadingForTheGone == Spec => AbortStopsReading
<1> DEFINE Stops == client = "gone" /\ sent' # sent => sent = 0
<1>1. RelayInv /\ [Next]_vars => Stops
  BY DEF RelayInv, LateHandler, Next, HandleThrows, RelayBodiless, StartPump, Chunk, Drain,
         ReadDone, ReadFails, UpstreamBreaks, ClientCloses, vars
<1>2. RelayInv /\ [Next]_vars => [Stops]_vars
  BY <1>1
<1> HIDE DEF Stops
<1>3. [][Stops]_vars => AbortStopsReading
  BY PTL DEF Stops, AbortStopsReading
<1> QED BY RelayAlways, <1>2, <1>3, PTL DEF Spec

-----------------------------------------------------------------------------
(* Why a relay ends while its client stays, and what happens if it leaves *)

\* Steps the pump still has to take: two for a chunk whose write waits for a
\* drain, and the end.
PumpLeft ==
  IF pc = "reading" THEN 2 * (total - sent) + 1
  ELSE IF pc = "draining" THEN 2 * (total - sent) + 2
  ELSE 0

PumpStep == Chunk \/ Drain \/ ReadDone \/ ReadFails

\* Every step of the pump brings the relay nearer to its end, and neither the
\* client nor the upstream sets it back: backpressure delays a body of any
\* length, it never makes the loop of pump start over.
PumpAdvances ==
  [][Pumping => /\ PumpLeft' <= PumpLeft
                /\ PumpStep => PumpLeft' < PumpLeft]_vars

\* Once the pump awaits the drain of a connection that is gone, it awaits it for
\* good: no event is left that would settle the promise of write.
DrainLost == pc = "draining" /\ client = "gone"
LostForGood == [][DrainLost => (DrainLost /\ slot = "held")']_vars

\* The variant behind RelayEnds: with fair reads and drains the pump's loop is
\* over after PumpLeft steps of its own (pump, write).
THEOREM PumpFinishes == Spec => [](PumpLeft \in Nat) /\ PumpAdvances
<1> DEFINE Advances == Pumping => /\ PumpLeft' <= PumpLeft
                                  /\ PumpStep => PumpLeft' < PumpLeft
<1>1. RelayInv => PumpLeft \in Nat
  BY RelayAssumption DEF RelayInv, TypeOK, ByPhase, Pumping, PumpLeft
<1>2. RelayInv /\ [Next]_vars => Advances
  <2> SUFFICES ASSUME RelayInv, [Next]_vars, Pumping PROVE Advances
    OBVIOUS
  <2> USE RelayAssumption DEF RelayInv, TypeOK, ByPhase, Pumping, PumpLeft
  <2>1. CASE Chunk
    BY <2>1 DEF Chunk, MoreChunks
  <2>2. CASE Drain
    BY <2>2 DEF Drain
  <2>3. CASE ReadDone \/ ReadFails
    BY <2>3 DEF ReadDone, ReadFails
  <2>4. CASE UpstreamBreaks \/ ClientCloses \/ UNCHANGED vars
    <3>1. UNCHANGED <<pc, total, sent>>
      BY <2>4 DEF UpstreamBreaks, ClientCloses, vars
    <3>2. ~PumpStep
      BY <2>4 DEF PumpStep, Chunk, MoreChunks, Drain, ReadDone, ReadFails,
                  UpstreamBreaks, ClientCloses, AfterClose, vars
    <3> QED BY <3>1, <3>2
  <2> QED BY <2>1, <2>2, <2>3, <2>4
         DEF Next, HandleThrows, RelayBodiless, StartPump, PumpStep
<1>3. RelayInv /\ [Next]_vars => [Advances]_vars
  BY <1>2
<1> HIDE DEF Advances
<1>4. [][Advances]_vars => PumpAdvances
  BY PTL DEF Advances, PumpAdvances
<1> QED BY RelayAlways, <1>1, <1>3, <1>4, PTL DEF Spec

\* For a body of any length, a slot whose pump waits on a closed connection is
\* lost to the subscription while the process lives: what the refuted SlotReturned
\* shows for one exchange (write, the finally of relay).
THEOREM LostSlotStaysLost == Spec => LostForGood
<1> DEFINE Stays == DrainLost => (DrainLost /\ slot = "held")'
<1>1. RelayInv /\ [Next]_vars => Stays
  <2> SUFFICES ASSUME RelayInv, [Next]_vars, DrainLost PROVE (DrainLost /\ slot = "held")'
    OBVIOUS
  <2>1. slot = "held"
    BY DEF RelayInv, ByPhase, Pumping, DrainLost
  <2> QED BY <2>1 DEF DrainLost, Next, HandleThrows, RelayBodiless, StartPump, Chunk, Drain,
                      ReadDone, ReadFails, UpstreamBreaks, ClientCloses, vars
<1>2. RelayInv /\ [Next]_vars => [Stays]_vars
  BY <1>1
<1> HIDE DEF Stays
<1>3. [][Stays]_vars => LostForGood
  BY PTL DEF Stays, LostForGood
<1> QED BY RelayAlways, <1>2, <1>3, PTL DEF Spec
=============================================================================
