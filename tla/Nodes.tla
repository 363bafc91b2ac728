-------------------------------- MODULE Nodes --------------------------------
(***************************************************************************)
(* The nodes of synthetic traffic: how they generate packets               *)
(* (src/generator/generatorModule.cc, burstGenerator.cc, trafficPattern/), *)
(* by which channels they inject them, and how they consume them: straight *)
(* from an input buffer of the switch (switch/switchModule.cc), or by way  *)
(* of an output buffer (switch/ioqSwitchModule.cc).  Reactive traffic      *)
(* answers each petition with a response as it is consumed.                *)
(*                                                                         *)
(* Packets have one flit, and sizes are in packets.  Nodes act whenever    *)
(* they like: a cycle between two packets of a node only delays.  The      *)
(* network between injection and consumption is that of the other modules: *)
(* here it holds some packets of either type, each type in channels of its *)
(* own, and delivers them in any order.                                    *)
(***************************************************************************)
EXTENDS Integers, Sequences, FiniteSetsExt, Bags

CONSTANTS
    NodeCount,      \* g_number_generators
    Channels,       \* g_injection_channels
    ChannelSpace,   \* capacity of an injection channel
    NetworkSpace,   \* bound: packets of a type in the network
    OutSpace,       \* capacity of an output buffer
    MaxPetitions,   \* g_max_petitions_on_flight
    BurstLength,    \* g_single_burst_length
    NodeConfigs,    \* the configurations
    MaxSent,        \* bound: packets a node sends of a traffic without end
    MaxBursts       \* bound: bursts a node begins

(* g_traffic; g_reactive_traffic; g_vc_injection; g_segregated_flows, 0 in *)
(* a switch without output buffers; g_phases; g_random_AllToAll.           *)
AllNodeConfigs ==
    [pattern : {"UN", "RANDOMPERMUTATION", "BURSTY_UN", "SINGLE_BURST", "ALL2ALL"},
     reactive : BOOLEAN, policy : {"RAND", "DEST"}, flows : 0..2,
     phases : Nat \ {0}, shuffled : BOOLEAN]

ASSUME NodesAssumption ==
    /\ NodeCount \in Nat \ {0, 1}
    /\ {Channels, ChannelSpace, NetworkSpace, OutSpace, BurstLength} \subseteq Nat \ {0}
    /\ MaxPetitions \in Nat \ {0} /\ MaxBursts \in Nat
    /\ MaxSent \in [0..(NodeCount - 1) -> Nat]
    /\ \A c \in NodeConfigs :
        /\ c \in AllNodeConfigs
        /\ c.reactive => c.pattern \in {"UN", "RANDOMPERMUTATION", "BURSTY_UN"} /\ Channels > 1

VARIABLES
    config,             \* the configuration
    drawn,              \* RANDOMPERMUTATION: node -> rpDestination, -1 before it is drawn
    destinations,       \* ALL2ALL: node -> the order of its destinations
    destPointer,        \* ALL2ALL: node -> destinations of this phase that were taken
    phaseCount,         \* ALL2ALL: node -> phase_count
    flitsTx, flitsRx,   \* ALL2ALL, SINGLE_BURST: flits_tx_count, flits_rx_count
    burst,              \* BURSTY_UN: node -> the burst it is sending
    bursts,             \* BURSTY_UN: node -> bursts begun
    pendingPetitions,   \* node -> petitions injected and not yet answered
    sent,               \* node -> packets injected, of traffic without end
    injection,          \* node -> channel -> packets in the injection buffer
    network,            \* bag of the packets in the network
    outBuffers,         \* node -> flow -> packets in the output buffer
    finishedCount,      \* g_burst_/g_AllToAll_generators_finished_count
    nodesAborted,       \* an assertion has failed
    delivered           \* history, ALL2ALL: pairs of source and destination served

nodesVars == <<config, drawn, destinations, destPointer, phaseCount, flitsTx, flitsRx, burst,
               bursts, pendingPetitions, sent, injection, network, outBuffers,
               finishedCount, nodesAborted, delivered>>
patternVars == <<drawn, destinations, destPointer, phaseCount, burst, bursts>>

Generators == 0..(NodeCount - 1)
OtherNodes(n) == Generators \ {n}

(* Petitions and responses share the injection channels of a node out:     *)
(* injPetVcs and injResVcs.                                                *)
InjectionVcs(type) ==
    IF ~config.reactive THEN 0..(Channels - 1)
    ELSE IF type = "PETITION" THEN 0..(Channels \div 2 - 1)
    ELSE (Channels \div 2)..(Channels - 1)

(* Channels for a destination (getArrayInjVC).                             *)
ArrayInjVC(dest, type) ==
    LET vcs == InjectionVcs(type)
    IN  IF config.policy = "RAND" THEN vcs
        ELSE {Min(vcs) + (dest * Cardinality(vcs)) \div NodeCount}

Space(n, vc) == ChannelSpace - Len(injection[n][vc])
PortCredits(n, vcs) == MapThenSumSet(LAMBDA vc : Space(n, vc), vcs)

(* getInjectionVC: -1 when all channels it may draw from are full; the     *)
(* channel of a destination may be full.                                   *)
InjectionVC(n, dest, type) ==
    LET free == {vc \in InjectionVcs(type) : Space(n, vc) >= 1}
    IN  IF config.policy = "DEST" THEN ArrayInjVC(dest, type)
        ELSE IF free = {} THEN {-1} ELSE free

HasRoom(n, vc) == vc # -1 /\ Space(n, vc) >= 1

Endless == {"UN", "RANDOMPERMUTATION", "BURSTY_UN"}
OwnType == IF config.reactive THEN "PETITION" ELSE "RESPONSE"
PetitionTypes == {"PETITION", "RESPONSE"}
Packet(type, from, to) == [type |-> type, from |-> from, to |-> to]

(* The length of a burst, or of all phases together.                       *)
FullLength == IF config.pattern = "ALL2ALL" THEN (NodeCount - 1) * config.phases
                                            ELSE BurstLength
NodesEnded == config.pattern \notin Endless /\ finishedCount >= NodeCount
Available == Generators \ {drawn[n] : n \in Generators}
AllDrawn == config.pattern = "RANDOMPERMUTATION" => \A n \in Generators : drawn[n] # -1
Running == ~nodesAborted /\ ~NodesEnded /\ AllDrawn

(* Faulty: the order begins with the node itself.                          *)
FollowingFromSelf(n) == [i \in 1..(NodeCount - 1) |-> (n + i - 1) % NodeCount]
(* The order of destinations: those that follow the node, or at random.    *)
Following(n) == [i \in 1..(NodeCount - 1) |-> (n + i) % NodeCount]
Orders == [n \in Generators |->
    {s \in [1..(NodeCount - 1) -> OtherNodes(n)] : {s[i] : i \in DOMAIN s} = OtherNodes(n)}]

NoBurst == [on |-> FALSE, dest |-> -1, vc |-> 0]

NodesInit ==
    /\ config \in NodeConfigs
    /\ drawn = [n \in Generators |-> -1]
    /\ destinations = [n \in Generators |-> Following(n)]
        \/ /\ config.shuffled
           /\ destinations \in [Generators -> UNION {Orders[n] : n \in Generators}]
           /\ \A n \in Generators : destinations[n] \in Orders[n]
    /\ destPointer = [n \in Generators |-> 0] /\ phaseCount = [n \in Generators |-> 0]
    /\ flitsTx = [n \in Generators |-> 0] /\ flitsRx = [n \in Generators |-> 0]
    /\ burst = [n \in Generators |-> NoBurst] /\ bursts = [n \in Generators |-> 0]
    /\ pendingPetitions = [n \in Generators |-> 0] /\ sent = [n \in Generators |-> 0]
    /\ injection = [n \in Generators |-> [vc \in 0..(Channels - 1) |-> <<>>]]
    /\ network = EmptyBag
    /\ outBuffers = [n \in Generators |-> [flow \in 0..1 |-> <<>>]]
    /\ finishedCount = 0 /\ nodesAborted = FALSE /\ delivered = {}
-----------------------------------------------------------------------------
(* A node is created: it draws its destination of the permutation, again   *)
(* until it is another node.                                               *)
DrawDestination(n) ==
    /\ config.pattern = "RANDOMPERMUTATION"
    /\ drawn[n] = -1 /\ \A m \in 0..(n - 1) : drawn[m] # -1
    /\ \E dest \in Available \ {n} : drawn' = [drawn EXCEPT ![n] = dest]
    /\ UNCHANGED <<config, destinations, destPointer, phaseCount, flitsTx, flitsRx, burst,
                   bursts, pendingPetitions, sent, injection, network, outBuffers,
                   finishedCount, nodesAborted, delivered>>

AbortNodes == nodesAborted' = TRUE /\ UNCHANGED <<pendingPetitions, sent, flitsTx, injection>>

(* Node n injects a packet of its own (inject).                            *)
Inject(n, dest, vc) ==
    /\ injection' = [injection EXCEPT ![n][vc] = Append(@, Packet(OwnType, n, dest))]
    /\ pendingPetitions' = IF config.reactive THEN [pendingPetitions EXCEPT ![n] = @ + 1]
                                              ELSE pendingPetitions
    /\ sent' = IF config.pattern \in Endless THEN [sent EXCEPT ![n] = @ + 1] ELSE sent
    /\ flitsTx' = IF config.pattern \in Endless THEN flitsTx ELSE [flitsTx EXCEPT ![n] = @ + 1]
    /\ UNCHANGED nodesAborted

InjectsNothing == UNCHANGED <<injection, pendingPetitions, sent, flitsTx, nodesAborted>>

(* A node may generate a packet while there is room in one of its channels,*)
(* its own or those of the responses.                                      *)
MayGenerate(n) ==
    /\ Running
    /\ PortCredits(n, 0..(Channels - 1)) >= 1
    /\ config.reactive => pendingPetitions[n] < MaxPetitions
    /\ config.pattern \in Endless => sent[n] < MaxSent[n]

SetDestination(n) ==
    CASE config.pattern = "UN" -> OtherNodes(n)
      [] config.pattern = "RANDOMPERMUTATION" -> {drawn[n]}
      [] config.pattern = "SINGLE_BURST" ->
            IF flitsTx[n] = BurstLength THEN {} ELSE OtherNodes(n)

Generate(n) ==
    /\ config.pattern \in {"UN", "RANDOMPERMUTATION", "SINGLE_BURST"}
    /\ MayGenerate(n)
    /\ \E dest \in SetDestination(n) : \E vc \in InjectionVC(n, dest, OwnType) :
        HasRoom(n, vc) /\ Inject(n, dest, vc)
    /\ UNCHANGED <<config, patternVars, flitsRx, network, outBuffers, finishedCount, delivered>>

(* In an all-to-all the destination is taken, and the phase begun, before  *)
(* it is known whether there is room in its channel.  After the last one   *)
(* the pattern fails an assertion.                                         *)
GenerateAllToAll(n) ==
    LET phase == (NodeCount - 1) * phaseCount[n]
        begins == flitsTx[n] = phase /\ flitsRx[n] = phase
        taken == IF begins THEN 0 ELSE destPointer[n]
        dest == destinations[n][taken + 1]
    IN  /\ config.pattern = "ALL2ALL"
        /\ MayGenerate(n) /\ flitsTx[n] # FullLength
        /\ begins \/ flitsTx[n] # phase
        /\ phaseCount' = IF begins THEN [phaseCount EXCEPT ![n] = @ + 1] ELSE phaseCount
        /\ flitsRx' = IF begins THEN [flitsRx EXCEPT ![n] = 0] ELSE flitsRx
        /\ IF taken = NodeCount - 1 THEN AbortNodes /\ UNCHANGED destPointer
           ELSE /\ destPointer' = [destPointer EXCEPT ![n] = taken + 1]
                /\ \E vc \in InjectionVC(n, dest, OwnType) :
                    /\ injection' = IF HasRoom(n, vc)
                            THEN [injection EXCEPT ![n][vc] = Append(@, Packet(OwnType, n, dest))]
                            ELSE injection
                    /\ flitsTx' = [flitsTx EXCEPT ![n] = (IF begins THEN 0 ELSE @)
                                                        + (IF HasRoom(n, vc) THEN 1 ELSE 0)]
                /\ UNCHANGED <<pendingPetitions, sent, nodesAborted>>
        /\ UNCHANGED <<config, drawn, destinations, burst, bursts, network, outBuffers,
                       finishedCount, delivered>>

(* burstGenerator: a burst begins, and then or later its packets are sent, *)
(* all to one node and by one channel.  There turns out to be room in that *)
(* channel always: a node leaves a channel only when it has some.          *)
BeginBurst(n) ==
    /\ bursts[n] < MaxBursts
    /\ bursts' = [bursts EXCEPT ![n] = @ + 1]
    /\ \E dest \in OtherNodes(n) : \E vc \in InjectionVC(n, dest, OwnType) :
        /\ burst' = [burst EXCEPT ![n] = [on |-> TRUE, dest |-> dest, vc |-> vc]]
        /\ IF HasRoom(n, vc) THEN Inject(n, dest, vc) ELSE InjectsNothing

GoesOn(n) ==
    /\ Inject(n, burst[n].dest, burst[n].vc)
    /\ UNCHANGED <<burst, bursts>>

EndBurst(n) ==
    /\ burst' = [burst EXCEPT ![n].on = FALSE]
    /\ InjectsNothing /\ UNCHANGED bursts

GenerateBursty(n) ==
    /\ config.pattern = "BURSTY_UN"
    /\ Running /\ sent[n] < MaxSent[n]
    /\ \/ ~burst[n].on /\ BeginBurst(n)
       \/ burst[n].on /\ HasRoom(n, burst[n].vc) /\ (BeginBurst(n) \/ GoesOn(n) \/ EndBurst(n))
    /\ UNCHANGED <<config, drawn, destinations, destPointer, phaseCount, flitsRx, network,
                   outBuffers, finishedCount, delivered>>
-----------------------------------------------------------------------------
(* Faulty: petitions and responses share the channels of the network.      *)
NetworkRoomShared(type) == BagCardinality(network) < 2 * NetworkSpace

(* Petitions and responses have channels of their own in the network.      *)
NetworkRoom(type) ==
    MapThenSumSet(LAMBDA p : network[p], {p \in BagToSet(network) : p.type = type})
        < NetworkSpace

Depart(n, vc) ==
    /\ ~nodesAborted /\ ~NodesEnded
    /\ injection[n][vc] # <<>>
    /\ NetworkRoom(Head(injection[n][vc]).type)
    /\ network' = network (+) SetToBag({Head(injection[n][vc])})
    /\ injection' = [injection EXCEPT ![n][vc] = Tail(@)]
    /\ UNCHANGED <<config, patternVars, flitsTx, flitsRx, pendingPetitions, sent, outBuffers,
                   finishedCount, nodesAborted, delivered>>

(* Node n can take packet p: a petition if there is room for its response. *)
CheckConsume(n, p) ==
    p.type = "PETITION" => PortCredits(n, ArrayInjVC(p.from, "RESPONSE")) >= 1

FlowOf(p) == IF config.flows = 2 /\ p.type = "RESPONSE" THEN 1 ELSE 0

NumPetitions(n) ==
    Cardinality({i \in DOMAIN outBuffers[n][0] : outBuffers[n][0][i].type = "PETITION"})

(* Faulty: the petitions that are waiting already are not counted.         *)
CheckConsumePortForOne(n, p) ==
    /\ config.flows = 1 => CheckConsume(n, p)
    /\ Len(outBuffers[n][FlowOf(p)]) < OutSpace

(* The output buffer of node n can take packet p: if the flows share it, a *)
(* petition only when all that wait there can be answered.                 *)
CheckConsumePort(n, p) ==
    /\ config.flows = 1 /\ p.type = "PETITION" =>
            NumPetitions(n) + 1 <= PortCredits(n, ArrayInjVC(p.from, "RESPONSE"))
    /\ Len(outBuffers[n][FlowOf(p)]) < OutSpace

(* The node answers a petition with a response, for which there has to be  *)
(* room, and counts what is answered; the source counts what has arrived.  *)
Consume(n, p) ==
    LET finite == config.pattern \notin Endless
    IN  /\ IF p.type = "PETITION"
           THEN \E vc \in InjectionVC(n, p.from, "RESPONSE") :
                IF HasRoom(n, vc)
                THEN /\ injection' =
                            [injection EXCEPT ![n][vc] = Append(@, Packet("RESPONSE", n, p.from))]
                     /\ UNCHANGED nodesAborted
                ELSE nodesAborted' = TRUE /\ UNCHANGED injection
           ELSE UNCHANGED <<injection, nodesAborted>>
        /\ pendingPetitions' = IF config.reactive /\ p.type = "RESPONSE"
                               THEN [pendingPetitions EXCEPT ![n] = @ - 1] ELSE pendingPetitions
        /\ flitsRx' = IF finite THEN [flitsRx EXCEPT ![p.from] = @ + 1] ELSE flitsRx
        /\ finishedCount' =
                finishedCount + (IF finite /\ flitsRx'[p.from] = FullLength THEN 1 ELSE 0)
        /\ delivered' = IF config.pattern = "ALL2ALL" THEN delivered \cup {<<p.from, n>>}
                                                      ELSE delivered
        /\ UNCHANGED <<config, patternVars, flitsTx, sent>>

(* The switch without output buffers hands packets over to the node.       *)
Arrive(n) ==
    /\ ~nodesAborted /\ ~NodesEnded /\ config.flows = 0
    /\ \E p \in BagToSet(network) :
        p.to = n /\ CheckConsume(n, p) /\ Consume(n, p) /\ network' = network (-) SetToBag({p})
    /\ UNCHANGED outBuffers

(* The other puts them into the output buffer of the node, or of the node  *)
(* and its flow, from which it consumes them.                              *)
Accept(n) ==
    /\ ~nodesAborted /\ ~NodesEnded /\ config.flows > 0
    /\ \E p \in BagToSet(network) :
        /\ p.to = n /\ CheckConsumePort(n, p)
        /\ network' = network (-) SetToBag({p})
        /\ outBuffers' = [outBuffers EXCEPT ![n][FlowOf(p)] = Append(@, p)]
    /\ UNCHANGED <<config, patternVars, flitsTx, flitsRx, pendingPetitions, sent, injection,
                   finishedCount, nodesAborted, delivered>>

Serve(n) ==
    /\ ~nodesAborted /\ ~NodesEnded
    /\ \E flow \in 0..1 :
        /\ outBuffers[n][flow] # <<>>
        /\ CheckConsume(n, Head(outBuffers[n][flow])) /\ Consume(n, Head(outBuffers[n][flow]))
        /\ outBuffers' = [outBuffers EXCEPT ![n][flow] = Tail(@)]
    /\ UNCHANGED network

NodesNext ==
    \E n \in Generators :
        \/ DrawDestination(n)
        \/ Generate(n) \/ GenerateAllToAll(n) \/ GenerateBursty(n)
        \/ \E vc \in 0..(Channels - 1) : Depart(n, vc)
        \/ Arrive(n) \/ Accept(n) \/ Serve(n)
-----------------------------------------------------------------------------
NodesTypeOK ==
    /\ config \in NodeConfigs
    /\ drawn \in [Generators -> Generators \cup {-1}]
    /\ \A n \in Generators :
        /\ destPointer[n] \in 0..(NodeCount - 1) /\ phaseCount[n] \in 0..config.phases
        /\ flitsTx[n] \in 0..FullLength /\ flitsRx[n] \in 0..FullLength
        /\ pendingPetitions[n] \in 0..MaxSent[n] /\ sent[n] \in 0..MaxSent[n]
        /\ burst[n].vc \in 0..(Channels - 1) /\ bursts[n] \in 0..MaxBursts
        /\ \A vc \in 0..(Channels - 1) : Len(injection[n][vc]) <= ChannelSpace
        /\ \A flow \in 0..1 : Len(outBuffers[n][flow]) <= OutSpace
    /\ IsABag(network) /\ finishedCount \in 0..NodeCount /\ nodesAborted \in BOOLEAN

(* An output buffer in which petitions and responses wait together never   *)
(* waits itself: whatever the order, each petition in it can be answered   *)
(* (the room reserved by ioqSwitchModule.cc:443-447), so that no response  *)
(* is held up behind a petition that waits for the response to leave.      *)
SharedBufferServed ==
    config.flows = 1 =>
        \A n \in Generators : \A i \in DOMAIN outBuffers[n][0] :
            CheckConsume(n, outBuffers[n][0][i])

(* What can end the program before its traffic: an all-to-all that takes a *)
(* destination for which there is no room, or has a second phase.          *)
MayAbort == config.pattern = "ALL2ALL" /\ (config.policy = "DEST" \/ config.phases > 1)

(* The last node may be left with no other node than itself for the        *)
(* permutation, and draws for ever.                                        *)
Hung == \E n \in Generators : drawn[n] = -1 /\ Available = {n}

(* All that was sent has been consumed and answered; in an all-to-all each *)
(* node has had the packet of each other.                                  *)
NodesDone ==
    IF nodesAborted THEN MayAbort
    ELSE IF config.pattern = "ALL2ALL"
    THEN NodesEnded /\ delivered = {pair \in Generators \X Generators : pair[1] # pair[2]}
    ELSE /\ NodesEnded \/ config.pattern \in Endless
         /\ network = EmptyBag /\ \A n \in Generators : pendingPetitions[n] = 0

(* The counters of finished nodes end a burst or an all-to-all no sooner   *)
(* than its packets have arrived, whichever node counts last               *)
(* (dgflySimulator.cc:1636-1637, generatorModule.cc:665-678), and no       *)
(* assertion fails but those of MayAbort.                                  *)
CompleteEnd == NodesEnded \/ nodesAborted => NodesDone
=============================================================================
