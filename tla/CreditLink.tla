----------------------------- MODULE CreditLink -----------------------------
(***************************************************************************)
(* Credit flow control over one link between two switches, the upstream    *)
(* one without output buffers (BASE_SW): the output port of the upstream   *)
(* switch (outPort.cc), the input port of the downstream one (inPort.cc    *)
(* over buffer.cc), and the credit flits on their way back                 *)
(* (switchModule.cc).                                                      *)
(*                                                                         *)
(* Counters are in flits: every update of the code is by g_flit_size.      *)
(* Cycles are relative to g_internal_cycle, as in Buffer.  In one cycle    *)
(* each switch runs its action() once, in the order of the switch labels,  *)
(* or is skipped when it holds no message.  What the two switches do with  *)
(* their other ports is left open.                                         *)
(***************************************************************************)
EXTENDS Integers, FiniteSets, Sequences

CONSTANTS
    Flits,      \* flit identities; one is free again once its credit is read
    VCs,        \* virtual channels of the link
    Capacity,   \* places of each channel's input buffer, in flits (maxCredits)
    Delay,      \* latency of the link, both ways, in cycles
    FlitSize,   \* g_flit_size: cycles a flit takes on the link
    XbarLength  \* least cycles it takes in the crossbar: FlitSize in an
                \* input-buffered switch, g_flit_size / g_internal_speedup in
                \* one with output buffers

ASSUME FlitsAssumption == IsFiniteSet(Flits)
ASSUME VCsAssumption == VCs # {}
ASSUME CapacityAssumption == Capacity \in Nat \ {0}
ASSUME TimeAssumption ==
    /\ Delay \in Nat
    /\ FlitSize \in Nat \ {0}
    /\ XbarLength \in 1..FlitSize

VARIABLES
    upFirst,    \* the upstream switch has the smaller label
    stage,      \* 1, 2: the first, second switch is due; 3: both are done
    updated,    \* the upstream switch is inside its action(), after updateCredits
    waiting,    \* messagesInQueuesCounter >= 1 at the upstream switch
    occupancyCredits,       \* upstream, per channel: places it counts as taken
    minOccupancyCredits,    \* the part of them taken by minimally routed flits
    where,      \* flit -> "out", "buffer" or "credit"
    vc,         \* flit -> channel of its last transmission over this link
    prevMisrouted,  \* flit -> it was misrouted when it entered this link
    due,        \* flit -> cycles until the flit, or its credit, has arrived
    queue,      \* downstream, per channel: the flits in the buffer, in order
    leaving,    \* downstream, per channel: a flit left, queue not reordered
    sending,    \* downstream, per channel: cycles until a flit may leave
    receiving   \* downstream: cycles until a flit may enter the link

upVars == <<waiting, occupancyCredits, minOccupancyCredits>>
flitVars == <<where, vc, prevMisrouted, due>>
downVars == <<queue, leaving, sending, receiving>>
turnVars == <<upFirst, stage, updated>>
vars == <<turnVars, upVars, flitVars, downVars>>

Later(n) == IF n = 0 THEN 0 ELSE n - 1

UpTurn == stage = (IF upFirst THEN 1 ELSE 2)
DownTurn == stage = (IF upFirst THEN 2 ELSE 1)

EndTurn ==
    /\ updated' = FALSE
    /\ stage' = stage + 1
    /\ UNCHANGED upFirst

(* Faulty: a full channel has a credit left.                               *)
CreditsOneMore(v) == Capacity + 1 - occupancyCredits[v]

(* switchModule::getCredits of a transit port.                             *)
Credits(v) == Capacity - occupancyCredits[v]

(* Places a channel's buffer counts as taken: buffer::getBufferOccupancy.  *)
Taken(v) == Len(queue[v]) + (IF leaving[v] THEN 1 ELSE 0)

(* Faulty: flits are sent while others are on the link.                    *)
LinkNeverBusy == TRUE

(* nextPortCanReceiveFlit: the link carries one flit at a time, whatever   *)
(* its channel.                                                            *)
LinkIdle == receiving = 0

(* Faulty: the credits of misrouted flits, of minimal size 0, stay unread. *)
ArrivedMinOnly(v) ==
    {f \in Flits : where[f] = "credit" /\ vc[f] = v /\ due[f] = 0
                     /\ ~prevMisrouted[f]}

(* The credits of a channel that have arrived.                             *)
Arrived(v) == {f \in Flits : where[f] = "credit" /\ vc[f] = v /\ due[f] = 0}

(* Faulty: every credit counts as one of a flit routed minimally.          *)
ArrivedMinAll(v) == Arrived(v)

(* Those of them that were sent for flits routed minimally.                *)
ArrivedMin(v) == {f \in Arrived(v) : ~prevMisrouted[f]}

(* An identity that is out has no fields worth keeping apart.              *)
AnyVC == CHOOSE v \in VCs : TRUE
-----------------------------------------------------------------------------
Init ==
    /\ upFirst \in BOOLEAN
    /\ stage = 1
    /\ updated = FALSE
    /\ waiting = FALSE
    /\ occupancyCredits = [v \in VCs |-> 0]
    /\ minOccupancyCredits = [v \in VCs |-> 0]
    /\ where = [f \in Flits |-> "out"]
    /\ vc = [f \in Flits |-> AnyVC]
    /\ prevMisrouted = [f \in Flits |-> FALSE]
    /\ due = [f \in Flits |-> 0]
    /\ queue = [v \in VCs |-> <<>>]
    /\ leaving = [v \in VCs |-> FALSE]
    /\ sending = [v \in VCs |-> 0]
    /\ receiving = 0

(* The upstream switch has messages: it runs, and updateCredits comes      *)
(* first.  Credits of one port arrive in the order they were sent, so      *)
(* popping the front of incomingCredits while it is due pops all the due.  *)
UpdateCredits ==
    /\ UpTurn
    /\ ~updated
    /\ waiting
    /\ updated' = TRUE
    /\ occupancyCredits' =
         [v \in VCs |-> occupancyCredits[v] - Cardinality(Arrived(v))]
    /\ minOccupancyCredits' =
         [v \in VCs |-> minOccupancyCredits[v] - Cardinality(ArrivedMin(v))]
    /\ LET read == UNION {Arrived(v) : v \in VCs}
       IN  /\ where' = [f \in Flits |-> IF f \in read THEN "out" ELSE where[f]]
           /\ vc' = [f \in Flits |-> IF f \in read THEN AnyVC ELSE vc[f]]
           /\ prevMisrouted' = [f \in Flits |-> f \notin read /\ prevMisrouted[f]]
    /\ UNCHANGED <<upFirst, stage, waiting, due, downVars>>

(* xbarTraversal grants a petition of flit f for channel v: the petition   *)
(* needed a credit and an idle link.  outPort::insert counts the place and *)
(* hands the flit to the downstream buffer.                                *)
Send(f, v, misrouted) ==
    /\ UpTurn
    /\ updated
    /\ where[f] = "out"
    /\ LinkIdle
    /\ Credits(v) >= 1
    /\ occupancyCredits' = [occupancyCredits EXCEPT ![v] = @ + 1]
    /\ minOccupancyCredits' =
         IF misrouted THEN minOccupancyCredits
                      ELSE [minOccupancyCredits EXCEPT ![v] = @ + 1]
    /\ where' = [where EXCEPT ![f] = "buffer"]
    /\ vc' = [vc EXCEPT ![f] = v]
    /\ prevMisrouted' = [prevMisrouted EXCEPT ![f] = misrouted]
    /\ due' = [due EXCEPT ![f] = Delay]
    /\ queue' = [queue EXCEPT ![v] = Append(@, f)]
    /\ receiving' = FlitSize
    /\ UNCHANGED <<turnVars, waiting, leaving, sending>>

(* End of the upstream action().  Its flits may all have left by now.      *)
UpEnd ==
    /\ UpTurn
    /\ updated
    /\ EndTurn
    /\ waiting' \in BOOLEAN
    /\ UNCHANGED <<occupancyCredits, minOccupancyCredits, flitVars, downVars>>

(* A switch without messages is not called: its credits stay unread.       *)
UpIdle ==
    /\ UpTurn
    /\ ~updated
    /\ ~waiting
    /\ EndTurn
    /\ UNCHANGED <<upVars, flitVars, downVars>>

(* Faulty: the last flit of the channel leaves first.                      *)
ExtractLast(v) ==
    /\ DownTurn
    /\ queue[v] # <<>>
    /\ ~leaving[v]
    /\ sending[v] = 0
    /\ LET f == queue[v][Len(queue[v])]
       IN  /\ due[f] = 0
           /\ where' = [where EXCEPT ![f] = "credit"]
           /\ due' = [due EXCEPT ![f] = Delay]
    /\ queue' = [queue EXCEPT ![v] = SubSeq(@, 1, Len(@) - 1)]
    /\ leaving' = [leaving EXCEPT ![v] = TRUE]
    /\ sending' = [sending EXCEPT ![v] = XbarLength]
    /\ UNCHANGED <<turnVars, upVars, vc, prevMisrouted, receiving>>

(* xbarTraversal of the downstream switch takes the head of channel v, once *)
(* it has begun to arrive and the flit before it is through the crossbar,  *)
(* and sends the credit (sendCredits).  How long a flit keeps the crossbar *)
(* depends on how much of it is still to come (see TxLength of Buffer).    *)
Extract(v) ==
    /\ DownTurn
    /\ queue[v] # <<>>
    /\ ~leaving[v]
    /\ sending[v] = 0
    /\ LET f == Head(queue[v])
       IN  /\ due[f] = 0
           /\ where' = [where EXCEPT ![f] = "credit"]
           /\ due' = [due EXCEPT ![f] = Delay]
    /\ queue' = [queue EXCEPT ![v] = Tail(@)]
    /\ leaving' = [leaving EXCEPT ![v] = TRUE]
    /\ \E length \in XbarLength..FlitSize :
           sending' = [sending EXCEPT ![v] = length]
    /\ UNCHANGED <<turnVars, upVars, vc, prevMisrouted, receiving>>

(* Faulty: the queues are not reordered, the places not given back.        *)
DownEndUnordered ==
    /\ DownTurn
    /\ EndTurn
    /\ UNCHANGED <<upVars, flitVars, downVars>>

(* End of the downstream action(): orderQueues gives the places back.      *)
DownEnd ==
    /\ DownTurn
    /\ EndTurn
    /\ leaving' = [v \in VCs |-> FALSE]
    /\ UNCHANGED <<upVars, flitVars, queue, sending, receiving>>

(* The next cycle.  Nodes and other switches may have given the upstream   *)
(* switch something to do.                                                 *)
Tick ==
    /\ stage = 3
    /\ stage' = 1
    /\ due' = [f \in Flits |-> Later(due[f])]
    /\ sending' = [v \in VCs |-> Later(sending[v])]
    /\ receiving' = Later(receiving)
    /\ waiting' \in {waiting, TRUE}
    /\ UNCHANGED <<upFirst, updated, occupancyCredits, minOccupancyCredits,
                   where, vc, prevMisrouted, queue, leaving>>

(* The main loop of the simulator moves on (dgflySimulator::action).       *)
Turn == UpdateCredits \/ UpEnd \/ UpIdle \/ DownEnd \/ Tick

Next ==
    \/ Turn
    \/ \E f \in Flits, v \in VCs, misrouted \in BOOLEAN : Send(f, v, misrouted)
    \/ \E v \in VCs : Extract(v)

Spec == Init /\ [][Next]_vars

(* The loop over the cycles never stops, and the downstream switch does    *)
(* not hold back for ever a flit that it may send again and again.         *)
Fairness ==
    /\ WF_vars(Turn)
    /\ \A v \in VCs : SF_vars(Extract(v))

FairSpec == Spec /\ Fairness
-----------------------------------------------------------------------------
(* The values each variable may take.                                      *)
TypeOK ==
    /\ upFirst \in BOOLEAN
    /\ stage \in 1..3
    /\ updated \in BOOLEAN
    /\ waiting \in BOOLEAN
    /\ occupancyCredits \in [VCs -> 0..Capacity]
    /\ minOccupancyCredits \in [VCs -> 0..Capacity]
    /\ where \in [Flits -> {"out", "buffer", "credit"}]
    /\ vc \in [Flits -> VCs]
    /\ prevMisrouted \in [Flits -> BOOLEAN]
    /\ due \in [Flits -> 0..Delay]
    /\ queue \in [VCs -> Seq(Flits)]
    /\ leaving \in [VCs -> BOOLEAN]
    /\ sending \in [VCs -> 0..FlitSize]
    /\ receiving \in 0..FlitSize

(* The flits that keep a credit of channel v from the upstream switch: in  *)
(* the buffer (or on the way to it), or gone with their credit under way.  *)
Holders(v) == {f \in Flits : where[f] # "out" /\ vc[f] = v}
MinHolders(v) == {f \in Holders(v) : ~prevMisrouted[f]}

(* Credits are conserved: the upstream counters are exactly the flits that *)
(* hold a credit, and those of them routed minimally, in every state; so   *)
(* no counter drifts, goes negative or exceeds its maximum (the assertions *)
(* of outPort.cc:67, 72, 119, 131 and 139).                                *)
CreditsConserved ==
    \A v \in VCs :
        /\ occupancyCredits[v] = Cardinality(Holders(v))
        /\ minOccupancyCredits[v] = Cardinality(MinHolders(v))

(* A flit that is in a channel's buffer is there once, and the buffer      *)
(* never takes more than its places (assert at buffer.cc:122): a credit is *)
(* proof of a free place, also in the cycle a flit leaves.                 *)
NoOverflow ==
    \A v \in VCs :
        /\ Taken(v) <= Capacity
        /\ Taken(v) <= occupancyCredits[v]

(* Flits arrive at least a flit length apart over all the channels: one    *)
(* link carries one flit at a time.                                        *)
LinkSerial ==
    \A f, g \in Flits :
        f # g /\ where[f] = "buffer" /\ where[g] = "buffer" /\ due[f] > 0
          /\ due[f] <= due[g] => due[g] >= due[f] + FlitSize

(* Every channel is a bounded FIFO queue in which the upstream switch finds *)
(* room without looking: BoundedFifo!Spec for each channel, written as one *)
(* formula.                                                                *)
Channel(v) == INSTANCE BoundedFifo WITH queue <- queue[v], leaving <- leaving[v]
ChannelSpec ==
    /\ \A v \in VCs : Channel(v)!Init
    /\ [][\A v \in VCs : [Channel(v)!Next]_(Channel(v)!vars)]_vars

(* A full channel does not stay full while the upstream switch has work:   *)
(* its credits come back and are read, although an idle switch reads none. *)
CreditsReturn == \A v \in VCs : []<>(occupancyCredits[v] < Capacity \/ ~waiting)
=============================================================================
