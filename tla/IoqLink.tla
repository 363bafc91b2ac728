------------------------------ MODULE IoqLink ------------------------------
(***************************************************************************)
(* One output port of a switch with input and output queues (IOQ_SW:       *)
(* ioqSwitchModule.cc, bufferedOutPort.cc) and the link behind it.  Flits  *)
(* cross the crossbar into one output buffer shared by the channels, and   *)
(* leave it in order, one per FlitSize cycles.  The crossbar takes a flit  *)
(* when a credit of its channel is left over by the flits of that channel  *)
(* that wait in the output buffer; updateOutputBuffer then only asserts    *)
(* that the credit is still there.                                         *)
(*                                                                         *)
(* The input buffer behind the link may be shared (g_buffer_type DYNAMIC:  *)
(* dynBufInPort.cc, dynBufBufferedOutPort.cc): each channel has reserved   *)
(* places, and takes further ones from a pool of the port.  Separate       *)
(* buffers are those of which all places are reserved.                     *)
(*                                                                         *)
(* The link and its credits are those of CreditLink, which this module     *)
(* implements.                                                             *)
(***************************************************************************)
EXTENDS Integers, FiniteSets, Sequences

CONSTANTS
    Flits, VCs, Capacity, Delay, FlitSize, XbarLength,  \* see CreditLink
    OutCapacity,    \* places of the output buffer (g_out_queue_length), in flits
    XbarDelay,      \* g_xbar_delay, in cycles
    FeedTimes,      \* cycles a flit may take to leave its input buffer; only
                    \* OneFlitAtATime is about them
    BufferTypes     \* the places a channel has of its own, and those in the
                    \* pool: none with separate buffers

(* What CreditLink assumes of the link; a port has finitely many channels. *)
ASSUME LinkAssumption ==
    /\ IsFiniteSet(Flits) /\ IsFiniteSet(VCs) /\ VCs # {}
    /\ Capacity \in Nat \ {0}
    /\ Delay \in Nat
    /\ FlitSize \in Nat \ {0}
    /\ XbarLength \in 1..FlitSize

ASSUME OutAssumption ==
    /\ OutCapacity \in Nat \ {0}
    /\ XbarDelay \in Nat
    /\ FeedTimes \subseteq XbarLength..FlitSize
    /\ \A type \in BufferTypes :
        type.reserved \in Nat /\ type.pool \in Nat /\ type.reserved + type.pool \in 1..Capacity

VARIABLES
    upFirst, stage, updated, waiting, occupancyCredits, minOccupancyCredits,
    where, vc, prevMisrouted, due, queue, leaving, sending, receiving,
    outQueue,       \* the flits in the output buffer, as records, in order
    outCredits,     \* per channel: flits it has in the output buffer
    outMinCredits,  \* the part of them counted as routed minimally
    outLeaving,     \* a flit left in this turn, buffer not reordered
    outSending,     \* cycles until a flit may leave
    outReceiving,   \* cycles until the crossbar may bring a flit
    feeding,        \* cycles until the last flit taken has left its input
                    \* buffer entirely
    bufferType,     \* of BufferTypes: g_buffer_type, g_local_queue_reserved
    aggregatedBufferCapacity    \* downstream: places left in the pool

Link == INSTANCE CreditLink

linkVars == <<upFirst, stage, updated, waiting, occupancyCredits,
              minOccupancyCredits, where, vc, prevMisrouted, due, queue,
              leaving, sending, receiving>>
outVars == <<outQueue, outCredits, outMinCredits, outLeaving, outSending,
             outReceiving, feeding>>
poolVars == <<bufferType, aggregatedBufferCapacity>>
vars == <<linkVars, outVars, poolVars>>

(* How a flit comes to the output port: routed minimally so far and here,  *)
(* misrouted before it came (VALIANT, or at an earlier hop), or about to   *)
(* be misrouted by this very hop (currentMisrouteType LOCAL, GLOBAL, ...,  *)
(* while misrouted is still false).                                        *)
Kinds == {"minimal", "misrouted", "thisHop"}

Waiting(v) == {i \in 1..Len(outQueue) : outQueue[i].vc = v}
WaitingMin(v) == {i \in Waiting(v) : outQueue[i].kind = "minimal"}

OutSpace == OutCapacity - Len(outQueue) - (IF outLeaving THEN 1 ELSE 0)

(* The places of a channel as the upstream switch was told of them first.  *)
MaxOccupancy == bufferType.reserved + bufferType.pool

(* The places of the pool that are taken when each channel c has n[c]      *)
(* flits: they are those beyond the reserved ones of their channel.        *)
InPool(n) == UNION {{c} \X ((bufferType.reserved + 1)..n[c]) : c \in DOMAIN n}

(* The flits of a channel on both sides of the link.                       *)
Committed(v) == occupancyCredits[v] + outCredits[v]

(* What the flits of channel v, and those of the others in the pool, take. *)
TotalOccupancy(v) ==
    Committed(v) + Cardinality(InPool([w \in VCs \ {v} |-> Committed(w)]))

(* Faulty: the flits in the output buffer are not counted.                 *)
HasCreditsDownstream(v) ==
    /\ MaxOccupancy - occupancyCredits[v] >= 1
    /\ OutSpace >= 1

(* ioqSwitchModule::getCredits: getTotalOccupancy counts both buffers.     *)
HasCredits(v) ==
    /\ MaxOccupancy - TotalOccupancy(v) >= 1
    /\ OutSpace >= 1

(* The pool when a flit of channel v is put into the buffer ...            *)
PoolAfterInsert(v) ==
    aggregatedBufferCapacity - (IF Link!Taken(v) + 1 > bufferType.reserved THEN 1 ELSE 0)

(* Faulty: the last reserved place is given back to the pool, too.         *)
PoolAfterExtractAlways(v) ==
    aggregatedBufferCapacity + (IF Link!Taken(v) >= bufferType.reserved THEN 1 ELSE 0)

(* ... or taken out, while it still counts for the occupancy.              *)
PoolAfterExtract(v) ==
    aggregatedBufferCapacity + (IF Link!Taken(v) > bufferType.reserved THEN 1 ELSE 0)

(* Faulty: a flit misrouted by this hop is not marked in time.             *)
MisroutedBefore(kind) == kind = "misrouted"

(* The mark a flit leaves with: updateOutputBuffer marks one that is       *)
(* misrouted by this hop before bufferedOutPort::extract counts it.        *)
Misrouted(kind) == kind # "minimal"

(* The flit at the head is through the crossbar, the one before it is on   *)
(* the link, and the neighbour can receive (nextPortCanReceiveFlit).       *)
CanDepart ==
    /\ outQueue # <<>>
    /\ ~outLeaving
    /\ outSending = 0
    /\ Head(outQueue).due = 0
    /\ receiving = 0
-----------------------------------------------------------------------------
Init ==
    /\ Link!Init
    /\ outQueue = <<>>
    /\ outCredits = [v \in VCs |-> 0]
    /\ outMinCredits = [v \in VCs |-> 0]
    /\ outLeaving = FALSE
    /\ outSending = 0
    /\ outReceiving = 0
    /\ feeding = 0
    /\ bufferType \in BufferTypes
    /\ aggregatedBufferCapacity = bufferType.pool

UpdateCredits ==
    /\ Link!UpdateCredits
    /\ UNCHANGED <<outVars, poolVars>>

(* xbarTraversal grants a petition of flit f for channel v.  txFlit works  *)
(* out how long the output buffer is busy with it from the entry cycle of  *)
(* the input buffer's head, which extract has just erased: what is left is *)
(* XbarLength.  The input buffer itself is busy for a length that counts   *)
(* the part of the flit still to come.                                     *)
Xbar(f, v, kind) ==
    /\ Link!UpTurn
    /\ updated
    /\ ~outLeaving
    /\ where[f] = "out"
    /\ \A i \in 1..Len(outQueue) : outQueue[i].flit # f
    /\ outReceiving = 0
    /\ HasCredits(v)
    /\ outCredits' = [outCredits EXCEPT ![v] = @ + 1]
    /\ outMinCredits' = IF kind = "minimal"
                        THEN [outMinCredits EXCEPT ![v] = @ + 1]
                        ELSE outMinCredits
    /\ outQueue' = Append(outQueue, [flit |-> f, vc |-> v, kind |-> kind,
                                     due |-> XbarDelay])
    /\ outReceiving' = XbarLength
    /\ feeding' \in FeedTimes
    /\ UNCHANGED <<linkVars, outLeaving, outSending, poolVars>>

(* updateOutputBuffer sends the head of the output buffer.                 *)
Depart ==
    /\ Link!UpTurn
    /\ updated
    /\ CanDepart
    /\ LET flit == Head(outQueue)
           misrouted == Misrouted(flit.kind)
       IN  /\ Link!Send(flit.flit, flit.vc, misrouted)
           /\ outCredits' = [outCredits EXCEPT ![flit.vc] = @ - 1]
           /\ outMinCredits' = IF misrouted THEN outMinCredits
                               ELSE [outMinCredits EXCEPT ![flit.vc] = @ - 1]
           /\ aggregatedBufferCapacity' = PoolAfterInsert(flit.vc)
    /\ outQueue' = Tail(outQueue)
    /\ outLeaving' = TRUE
    /\ outSending' = FlitSize
    /\ UNCHANGED <<outReceiving, feeding, bufferType>>

(* Faulty: flits in the output buffer do not keep the switch busy.         *)
UpEndForgetful ==
    /\ ~CanDepart
    /\ Link!UpEnd
    /\ outLeaving' = FALSE
    /\ UNCHANGED <<outQueue, outCredits, outMinCredits, outSending,
                   outReceiving, feeding, poolVars>>

(* updateOutputBuffer has run, the output buffer is reordered.  Flits in   *)
(* the output buffer keep the switch busy.                                 *)
UpEnd ==
    /\ ~CanDepart
    /\ Link!UpEnd
    /\ outQueue # <<>> => waiting'
    /\ outLeaving' = FALSE
    /\ UNCHANGED <<outQueue, outCredits, outMinCredits, outSending,
                   outReceiving, feeding, poolVars>>

UpIdle ==
    /\ Link!UpIdle
    /\ UNCHANGED <<outVars, poolVars>>

Extract(v) ==
    /\ Link!Extract(v)
    /\ aggregatedBufferCapacity' = PoolAfterExtract(v)
    /\ UNCHANGED <<outVars, bufferType>>

(* Faulty: the downstream queues are not reordered.                        *)
DownEndUnordered ==
    /\ Link!DownTurn
    /\ Link!EndTurn
    /\ UNCHANGED <<waiting, occupancyCredits, minOccupancyCredits, where, vc,
                   prevMisrouted, due, queue, leaving, sending, receiving>>
    /\ UNCHANGED <<outVars, poolVars>>

DownEnd ==
    /\ Link!DownEnd
    /\ UNCHANGED <<outVars, poolVars>>

Tick ==
    /\ Link!Tick
    /\ outQueue' = [i \in 1..Len(outQueue) |->
                       [outQueue[i] EXCEPT !.due = Link!Later(@)]]
    /\ outSending' = Link!Later(outSending)
    /\ outReceiving' = Link!Later(outReceiving)
    /\ feeding' = Link!Later(feeding)
    /\ UNCHANGED <<outCredits, outMinCredits, outLeaving, poolVars>>

(* The main loop moves on; updateOutputBuffer is part of it.               *)
Turn == UpdateCredits \/ Depart \/ UpEnd \/ UpIdle \/ DownEnd \/ Tick

Next ==
    \/ Turn
    \/ \E f \in Flits, v \in VCs, kind \in Kinds : Xbar(f, v, kind)
    \/ \E v \in VCs : Extract(v)

Spec == Init /\ [][Next]_vars

(* The loop over the cycles never stops.  Nothing is asked of the          *)
(* downstream switch.                                                      *)
FairSpec == Spec /\ WF_vars(Turn)
-----------------------------------------------------------------------------
(* The values each variable may take; the pool neither runs out nor over   *)
(* (the assertions of dynBufInPort.cc:53 and 73).                          *)
TypeOK ==
    /\ Link!TypeOK
    /\ outQueue \in Seq([flit : Flits, vc : VCs, kind : Kinds, due : 0..XbarDelay])
    /\ Len(outQueue) <= OutCapacity
    /\ outCredits \in [VCs -> 0..OutCapacity]
    /\ outMinCredits \in [VCs -> 0..OutCapacity]
    /\ outLeaving \in BOOLEAN
    /\ outSending \in 0..FlitSize
    /\ outReceiving \in 0..FlitSize
    /\ feeding \in 0..FlitSize
    /\ bufferType \in BufferTypes
    /\ aggregatedBufferCapacity \in 0..bufferType.pool

(* The counters of the output buffer are exactly the flits in it, also     *)
(* those routed minimally: a flit is taken off the counter it was put on,  *)
(* although it may be marked as misrouted in between (the assertions of    *)
(* bufferedOutPort.cc:83, 86, 116 and 119).                                *)
OutCountersExact ==
    \A v \in VCs :
        /\ outCredits[v] = Cardinality(Waiting(v))
        /\ outMinCredits[v] = Cardinality(WaitingMin(v))

(* The flits of a channel on both sides of the link never exceed its own   *)
(* places by more than the pool has for all of them.  So the credit that   *)
(* xbarTraversal checked for a flit is there as long as the flit is in the *)
(* output buffer, until updateOutputBuffer needs it, many cycles and flits *)
(* later (the assertions of ioqSwitchModule.cc:149 and 305), though other  *)
(* channels draw on the pool too, and though the pool itself is kept       *)
(* downstream, by occupancies that still count a flit which has been taken *)
(* (dynBufInPort.cc:51): what is left of it is exactly what the flits in   *)
(* the buffers leave.                                                      *)
NeverOvercommitted ==
    /\ Cardinality(InPool([v \in VCs |-> Committed(v)])) <= bufferType.pool
    /\ \A i \in 1..Len(outQueue) : Link!Credits(outQueue[i].vc) >= 1
    /\ aggregatedBufferCapacity =
            bufferType.pool - Cardinality(InPool([v \in VCs |-> Len(queue[v])]))

(* The output port drives the link like a switch without output buffers:   *)
(* all that holds of CreditLink holds here, among it that credits are      *)
(* conserved.                                                              *)
LinkSpec == Link!Spec

(* A flit in the output buffer leaves it, whatever the downstream switch   *)
(* does: the head of the buffer never waits for a credit, so that channels *)
(* do not block each other in the buffer they share.                       *)
Buffered(f) == \E i \in 1..Len(outQueue) : outQueue[i].flit = f
OutputDrains == \A f \in Flits : Buffered(f) ~> where[f] = "buffer"

(* txFlit: "Calculate transmission length: max of xbar tx length, and      *)
(* input buffer remaining receive time" (ioqSwitchModule.cc:309): a port   *)
(* takes no flit while the one before is still crossing to it.             *)
OneFlitAtATime == [][Len(outQueue') > Len(outQueue) => feeding = 0]_vars
=============================================================================
