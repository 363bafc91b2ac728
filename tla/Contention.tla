----------------------------- MODULE Contention -----------------------------
(***************************************************************************)
(* The contention counters of the switches of a group (src/caHandler.cc,   *)
(* src/flit/caFlit.cc and their calls in src/switch/switchModule.cc and    *)
(* ioqSwitchModule.cc): how many phits of the flits at hand would leave by *)
(* each output port if every flit took its minimal path, counted either    *)
(* for all that is queued or for the heads of the buffers only; with the   *)
(* heads, also how many come from outside the group and are bound for each *)
(* other group, which the switches tell each other from time to time.      *)
(*                                                                         *)
(* An input channel holds what Buffer models in detail: here its flits     *)
(* with the cycle they arrive in, and the cycle its last flit is out.      *)
(***************************************************************************)
EXTENDS GroupTurns, SequencesExt

CONSTANTS
    InChannels,     \* the input channels of a switch that are in use
    FromOutside,    \* those of injection ports and global links
    InDelay,        \* channel -> delay of its link
    Dests,          \* destinations of the flits
    Arrivals,       \* <<s, channel, destination>>: what may come into a switch
    MinPort,        \* destination -> output port of the minimal path, in every switch
    NodePort,       \* stands for the ports of the nodes of the switch
    DestGroup,      \* destination -> its group
    ThisGroup,      \* the group of the switches
    Capacity,       \* capacity of a channel, in flits
    FlitSize,       \* g_flit_size
    OutputBuffers,  \* TRUE: the switches have output queues (ioqSwitchModule)
    XbarLength,     \* cycles a flit takes in the crossbar; FlitSize without output queues
    SharePeriod     \* 100

ASSUME ContentionAssumption ==
    /\ IsFiniteSet(InChannels) /\ Dests # {}
    /\ FromOutside \subseteq InChannels /\ InDelay \in [InChannels -> Nat]
    /\ Arrivals \subseteq Routers \X InChannels \X Dests
    /\ DOMAIN MinPort = Dests /\ DOMAIN DestGroup = Dests
    /\ \A d, e \in Dests : MinPort[d] # DestGroup[e]
    /\ Capacity \in Nat \ {0} /\ FlitSize \in Nat \ {0}
    /\ OutputBuffers \in BOOLEAN /\ (~OutputBuffers => XbarLength = FlitSize)
    /\ XbarLength \in 1..FlitSize /\ SharePeriod \in Nat \ {0}

VARIABLES
    atHeader,                   \* g_increaseContentionAtHeader
    loopOfTraces,               \* the main loop is that of the traces
    queue,                      \* s, channel -> flits, the oldest first
    sendingEnd,                 \* s, channel -> cycle its last flit is out
    sentTo,                     \* history: s, channel -> destination of that flit
    m_contention_counter,       \* s, output port -> flits (times g_flit_size phits)
    m_partial_counter,          \* s, t, group -> flits s believes t has for the group
    m_sending_end_cycle_queue,  \* s, port or group -> cycles its flits are out
    incomingCa,                 \* s -> notifications sent to it, in order
    lastShared                  \* history: s, group -> what s told the others last

caVars == <<atHeader, loopOfTraces, queue, sendingEnd, sentTo, m_contention_counter,
            m_partial_counter, m_sending_end_cycle_queue, incomingCa, lastShared>>

OutPorts == {MinPort[d] : d \in Dests}
OtherGroups == {DestGroup[d] : d \in Dests} \ {ThisGroup}
Flit == [dest : Dests, entry : Nat]
CaFlit == [from : Routers, info : [OtherGroups -> Nat], arrival : Nat]
Count(S) == Cardinality(S)

(* messagesInQueuesCounter is not zero: a flit that goes through the       *)
(* crossbar to an output queue is still in the switch.                     *)
Busy(s) == \E ch \in InChannels :
               queue[s][ch] # <<>> \/ (OutputBuffers /\ sendingEnd[s][ch] > cycle)

(* A flit to dest from channel ch is counted for x: the output port of its *)
(* minimal path, or its group if that is another and ch is from outside.   *)
CountsFor(dest, ch, x) ==
    \/ MinPort[dest] = x
    \/ ch \in FromOutside /\ x \in OtherGroups /\ DestGroup[dest] = x

(* flitSent is called for a flit that leaves: without output queues only   *)
(* if it is not consumed by a node of the switch.                          *)
Noted(dest) == OutputBuffers \/ MinPort[dest] # NodePort

(* buffer::canSendFlit and a flit at the head.                             *)
HasHead(s, ch) ==
    /\ sendingEnd[s][ch] <= cycle
    /\ queue[s][ch] # <<>>
    /\ queue[s][ch][1].entry <= cycle

CaInit ==
    /\ atHeader \in BOOLEAN
    /\ loopOfTraces \in (IF atHeader THEN BOOLEAN ELSE {FALSE})
    /\ queue = [s \in Routers |-> [ch \in InChannels |-> <<>>]]
    /\ sendingEnd = [s \in Routers |-> [ch \in InChannels |-> 0]]
    /\ sentTo = [s \in Routers |-> [ch \in InChannels |-> CHOOSE d \in Dests : TRUE]]
    /\ m_contention_counter = [s \in Routers |-> [p \in OutPorts |-> 0]]
    /\ m_partial_counter =
           [s \in Routers |-> [t \in Routers |-> [g \in OtherGroups |-> 0]]]
    /\ m_sending_end_cycle_queue =
           [s \in Routers |-> [x \in OutPorts \cup OtherGroups |-> <<>>]]
    /\ incomingCa = [s \in Routers |-> <<>>]
    /\ lastShared = [s \in Routers |-> [g \in OtherGroups |-> 0]]

(* A flit comes into a channel, from a switch of the group or another, or  *)
(* from a node: insertFlit, injectFlit.  A link brings one at a time.      *)
Insert(s, ch, d) ==
    /\ cycle < MaxCycle
    /\ Len(queue[s][ch]) < Capacity
    /\ queue[s][ch] # <<>> =>
           Last(queue[s][ch]).entry + FlitSize <= cycle + InDelay[ch]
    /\ queue' = [queue EXCEPT ![s][ch] =
           Append(@, [dest |-> d, entry |-> cycle + InDelay[ch]])]
    /\ m_contention_counter' =
           IF atHeader THEN m_contention_counter
           ELSE [m_contention_counter EXCEPT ![s][MinPort[d]] = @ + 1]
    /\ UNCHANGED <<turnVars, atHeader, loopOfTraces, sendingEnd, sentTo,
                   m_partial_counter, m_sending_end_cycle_queue, incomingCa, lastShared>>

(* The entries of the sending queues that are left: each queue is popped   *)
(* from its front for as long as the front has expired.                    *)
StillSending(q) ==
    LET left == {i \in 1..Len(q) : q[i] > cycle}
    IN  IF left = {} THEN <<>>
        ELSE SubSeq(q, CHOOSE i \in left : \A j \in left : i <= j, Len(q))

(* Faulty: a head is counted although the channel is still sending.        *)
CountedWhileSending(s, ch) ==
    queue[s][ch] # <<>> /\ queue[s][ch][1].entry <= cycle

Counted(s, ch) == HasHead(s, ch)

(* caHandler::update: heads, then flits that are on their way out.         *)
Contended(s, x) ==
    Count({ch \in InChannels : Counted(s, ch) /\ CountsFor(queue[s][ch][1].dest, ch, x)})
      + Len(StillSending(m_sending_end_cycle_queue[s][x]))

(* Faulty: what another switch tells is taken for the reader's own.        *)
ReadCaFlitsAsOwn(s, view) ==
    IF Due(incomingCa[s]) = <<>> THEN view
    ELSE [view EXCEPT ![s] = Last(Due(incomingCa[s])).info]

(* caHandler::readIncomingCAFlits.                                         *)
ReadCaFlits(s, view) == AfterReading(Due(incomingCa[s]), view)

Share(s, own) ==
    IF cycle % SharePeriod = 0
    THEN /\ incomingCa' = [t \in Routers |->
                IF t = s THEN NotDue(incomingCa[s])
                ELSE Append(incomingCa[t], [from |-> s, info |-> own,
                                            arrival |-> cycle + LocalDelay])]
         /\ lastShared' = [lastShared EXCEPT ![s] = own]
    ELSE /\ incomingCa' = [incomingCa EXCEPT ![s] = NotDue(@)]
         /\ UNCHANGED lastShared

(* xbarTraversal of the flits of the channels C: they leave their buffers  *)
(* and, unless they are consumed in this switch, are noted as being sent   *)
(* to the port and, from outside, to the group of their minimal path.  The *)
(* order of those of one cycle, that of the output ports, is one of them.  *)
Traversal(s, C) ==
    LET flit(ch) == queue[s][ch][1]
        left(ch) == flit(ch).entry + FlitSize - cycle
        length(ch) == IF left(ch) > XbarLength THEN left(ch) ELSE XbarLength
        noted(x) == SetToSeq({ch \in C : /\ Noted(flit(ch).dest)
                                          /\ CountsFor(flit(ch).dest, ch, x)})
    IN  /\ queue' = [queue EXCEPT ![s] =
               [ch \in InChannels |-> IF ch \in C THEN Tail(@[ch]) ELSE @[ch]]]
        /\ sendingEnd' = [sendingEnd EXCEPT ![s] =
               [ch \in InChannels |-> IF ch \in C THEN cycle + length(ch) ELSE @[ch]]]
        /\ sentTo' = [sentTo EXCEPT ![s] =
               [ch \in InChannels |-> IF ch \in C THEN flit(ch).dest ELSE @[ch]]]
        /\ m_sending_end_cycle_queue' =
               [m_sending_end_cycle_queue EXCEPT ![s] =
                   [x \in OutPorts \cup OtherGroups |->
                       (IF atHeader THEN StillSending(@[x]) \o
                             [i \in 1..Len(noted(x)) |-> cycle + length(noted(x)[i])]
                        ELSE @[x])]]

(* A switch acts: it updates its counters, routes by them, and flits of    *)
(* any of the channels that can send leave.                                *)
CaAct(s) ==
    /\ TurnOf(s)
    /\ Busy(s)
    /\ \E C \in SUBSET {ch \in InChannels : HasHead(s, ch)} :
        /\ Traversal(s, C)
        /\ IF atHeader
           THEN LET own == [g \in OtherGroups |-> Contended(s, g)]
                IN  /\ m_contention_counter' = [m_contention_counter EXCEPT
                           ![s] = [p \in OutPorts |-> Contended(s, p)]]
                    /\ m_partial_counter' = [m_partial_counter EXCEPT
                           ![s] = ReadCaFlits(s, [@ EXCEPT ![s] = own])]
                    /\ Share(s, own)
           ELSE /\ m_contention_counter' = [m_contention_counter EXCEPT ![s] =
                       [p \in OutPorts |-> @[p] -
                           Count({ch \in C : MinPort[queue[s][ch][1].dest] = p})]]
                /\ UNCHANGED <<m_partial_counter, incomingCa, lastShared>>
    /\ UNCHANGED <<atHeader, loopOfTraces>>

(* A switch with nothing in its queues: only the loop of the traces lets   *)
(* it read what has arrived, and it shares nothing.                        *)
CaIdle(s) ==
    /\ TurnOf(s)
    /\ ~Busy(s)
    /\ IF loopOfTraces
       THEN /\ m_partial_counter' = [m_partial_counter EXCEPT ![s] = ReadCaFlits(s, @)]
            /\ incomingCa' = [incomingCa EXCEPT ![s] = NotDue(@)]
       ELSE UNCHANGED <<m_partial_counter, incomingCa>>
    /\ UNCHANGED <<atHeader, loopOfTraces, queue, sendingEnd, sentTo, lastShared,
                   m_contention_counter, m_sending_end_cycle_queue>>

CaNext ==
    \E s \in Routers :
        \/ CaAct(s) \/ CaIdle(s)
        \/ \E ch \in InChannels, d \in Dests : <<s, ch, d>> \in Arrivals /\ Insert(s, ch, d)
-----------------------------------------------------------------------------
CaTypeOK ==
    /\ atHeader \in BOOLEAN /\ loopOfTraces \in BOOLEAN
    /\ queue \in [Routers -> [InChannels -> Seq(Flit)]]
    /\ \A s \in Routers, ch \in InChannels : Len(queue[s][ch]) <= Capacity
    /\ sendingEnd \in [Routers -> [InChannels -> Nat]]
    /\ sentTo \in [Routers -> [InChannels -> Dests]]
    /\ m_sending_end_cycle_queue \in [Routers -> [OutPorts \cup OtherGroups -> Seq(Nat)]]
    /\ lastShared \in [Routers -> [OtherGroups -> Nat]]
    /\ m_contention_counter \in [Routers -> [OutPorts -> Nat]]
    /\ m_partial_counter \in [Routers -> [Routers -> [OtherGroups -> Nat]]]
    /\ incomingCa \in [Routers -> Seq(CaFlit)]
    /\ \A s \in Routers : FromAt(incomingCa[s], s) = {}

(* Channel ch has a flit for x: one at its head that can go, or one that   *)
(* is on its way out of the channel.                                       *)
AsksFor(s, ch, x) ==
    \/ HasHead(s, ch) /\ CountsFor(queue[s][ch][1].dest, ch, x)
    \/ /\ sendingEnd[s][ch] > cycle
       /\ Noted(sentTo[s][ch]) /\ CountsFor(sentTo[s][ch], ch, x)

(* The flits queued in s whose minimal path leaves by p.                   *)
Queued(s, p) == {x \in InChannels \X (1..Capacity) :
                    /\ x[2] <= Len(queue[s][x[1]])
                    /\ MinPort[queue[s][x[1]][x[2]].dest] = p}

QueuedCounted ==
    ~atHeader => \A s \in Routers, p \in OutPorts :
                     m_contention_counter[s][p] = Count(Queued(s, p))

(* A switch routes by what is there: each channel with a flit to go or on  *)
(* its way counts once, never twice and never not at all while the buffer  *)
(* passes from one flit to the next, for its port and for its group        *)
(* (caHandler.cc:88, :195); if everything queued is counted, then all of   *)
(* it is, at all times (switchModule.cc:492, :1257).                       *)
CaExact ==
    [][/\ atHeader => \A s \in Routers :
              (turn = s /\ turn' # s /\ Busy(s)) =>
                  /\ \A p \in OutPorts : m_contention_counter'[s][p] =
                         Count({ch \in InChannels : AsksFor(s, ch, p)})
                  /\ \A g \in OtherGroups : m_partial_counter'[s][s][g] =
                         Count({ch \in FromOutside : AsksFor(s, ch, g)})
       /\ QueuedCounted'
      ]_<<turnVars, caVars>>

(* Once what is under way to a switch has been read, it holds of every     *)
(* other switch of its group what that one shared last, and a switch that  *)
(* updates its own counters leaves those of the others alone               *)
(* (caHandler.cc:77, :159, :178).                                          *)
CaShared ==
    \A s \in Routers : \A t \in Others(s) :
        AfterReading(incomingCa[s], m_partial_counter[s])[t] = lastShared[t]
=============================================================================
