----------------------------- MODULE Dragonfly -----------------------------
(***************************************************************************)
(* Packets crossing a Dragonfly by minimal and Valiant routing (min.cc,    *)
(* val.cc, valAny.cc), with the tables of Topology and the channels of     *)
(* vcMngmt.  A packet has one flit and the input buffer of a channel has   *)
(* room for one: flow control is that of CreditLink.  With reactive        *)
(* traffic the node a packet is for answers it: the packet goes on as its  *)
(* response.                                                               *)
(***************************************************************************)
EXTENDS VcMngmt

CONSTANTS
    Packets,        \* the packets, each sent once
    Traffic         \* reactive?, packet -> the pairs of source and
                    \* destination it may have

ASSUME TrafficAssumption == Traffic \in [BOOLEAN \X Packets -> SUBSET (Nodes \X Nodes)]

VARIABLES
    palm,       \* g_palm_tree_configuration: how global links are laid out
    routing,    \* g_routing: "min", "val" or "valAny"
    reactive,   \* g_reactive_traffic
    state,      \* packet -> "source", "network" or "consumed"
    flit        \* packet -> where it is and what its flit carries

vars == <<palm, routing, reactive, state, flit>>

Routings == {"min", "val", "valAny"}

(* checkVcArrayLengths: there are channels for every hop of a routing, for *)
(* petitions and for responses.                                            *)
ASSUME LengthsAssumption ==
    \A r \in Routings :
        /\ LocalChannels >=
              2 * Cardinality({i \in DOMAIN typeVc[r] : typeVc[r][i] = "local"})
        /\ GlobalChannels >=
              2 * Cardinality({i \in DOMAIN typeVc[r] : typeVc[r][i] = "global"})

nextChannel ==
    [r \in Routings |-> [response \in BOOLEAN |->
        [inPort \in Ports |-> [outPort \in LinkPorts |-> [vc \in Channels |->
            NextChannel(r, IF response THEN responseVc[r] ELSE petitionVc[r],
                        inPort, outPort, vc)]]]]]

(* Half of the injection channels are for responses (generatorModule.cc:68). *)
InjectionChannel(type) == IF reactive /\ type = "RESPONSE" THEN 1 ELSE 0

(* A response to a petition goes by the channels of responses.             *)
Responds(f) == reactive /\ f.type = "RESPONSE"

(* setValNode: any node of the group for a packet that stays in it, any    *)
(* node of the other groups for one that leaves it.  (Minimal routing has  *)
(* no use for it: any one will do.)                                        *)
ValNodes(src, dest) ==
    IF routing = "min" THEN {src}
    ELSE {n \in Nodes :
             hPos(SwitchOf(n)) = hPos(SwitchOf(src))
               <=> hPos(SwitchOf(src)) = hPos(SwitchOf(dest))}

InBuffer(s, port, vc) ==
    {p \in Packets : state[p] = "network" /\ flit[p].sw = s
                        /\ flit[p].port = port /\ flit[p].channel = vc}

(* val::enroute asks for the Valiant group, valAny::enroute for its switch. *)
ValNodeReached(f) ==
    \/ f.valNodeReached
    \/ routing = "val" /\ hPos(f.sw) = hPos(SwitchOf(f.valId))
    \/ routing = "valAny" /\ f.sw = SwitchOf(f.valId)

(* enroute: the output port.                                               *)
OutPort(f) ==
    IF routing = "min" \/ ValNodeReached(f) THEN minTable[palm][f.sw][f.dest]
                                            ELSE minTable[palm][f.sw][f.valId]
-----------------------------------------------------------------------------
NoFlit == [sw |-> 0, port |-> 0, channel |-> 0, prevSw |-> 0, prevP |-> 0,
           type |-> "RESPONSE", source |-> 0, dest |-> 0, valId |-> 0,
           valNodeReached |-> FALSE, hopCount |-> 0, minPathLength |-> 0]

Init ==
    /\ palm \in BOOLEAN
    /\ routing \in Routings
    /\ reactive \in BOOLEAN
    /\ state = [p \in Packets |-> "source"]
    /\ flit = [p \in Packets |-> NoFlit]

(* injectFlit: the node src puts a flit, with its destination and Valiant  *)
(* node, into a channel of its port that has room.                         *)
InjectFlit(p, type, src, dest) ==
    LET sw == SwitchOf(src)
        port == src % P
        channel == InjectionChannel(type)
    IN  /\ InBuffer(sw, port, channel) = {}
        /\ \E val \in ValNodes(src, dest) :
            flit' = [flit EXCEPT ![p] =
              [sw |-> sw, port |-> port, channel |-> channel,
               prevSw |-> sw, prevP |-> port, type |-> type,
               source |-> src, dest |-> dest, valId |-> val, valNodeReached |-> FALSE,
               hopCount |-> 0, minPathLength |-> MinPathLength(src, dest)]]

(* A node sends a packet: a petition when the traffic is reactive.         *)
Inject(p) ==
    /\ state[p] = "source"
    /\ \E src, dest \in Nodes :
        /\ <<src, dest>> \in Traffic[reactive, p]
        /\ src # dest
        /\ InjectFlit(p, IF reactive THEN "PETITION" ELSE "RESPONSE", src, dest)
    /\ state' = [state EXCEPT ![p] = "network"]
    /\ UNCHANGED <<palm, routing, reactive>>

(* The flit as it is when it has gone on to the next switch.               *)
NextFlit(f) ==
    LET out == OutPort(f)
    IN  [f EXCEPT !.sw = neighList[palm][f.sw][out], !.port = neighPort[palm][f.sw][out],
                  !.channel = nextChannel[routing][Responds(f)][f.port][out][f.channel],
                  !.prevSw = f.sw, !.prevP = out,
                  !.valNodeReached = ValNodeReached(f), !.hopCount = @ + 1]

(* The packet goes on to the next switch, when the channel there has room. *)
Hop(p) ==
    /\ state[p] = "network"
    /\ PortType(OutPort(flit[p])) # "node"
    /\ LET next == NextFlit(flit[p])
       IN  /\ InBuffer(next.sw, next.port, next.channel) = {}
           /\ flit' = [flit EXCEPT ![p] = next]
    /\ UNCHANGED <<palm, routing, reactive, state>>

(* A petition leaves by the port of its node, when its response can be     *)
(* injected there (checkConsume).                                          *)
Answer(p) ==
    /\ state[p] = "network"
    /\ flit[p].type = "PETITION"
    /\ PortType(OutPort(flit[p])) = "node"
    /\ InjectFlit(p, "RESPONSE", flit[p].dest, flit[p].source)
    /\ UNCHANGED <<palm, routing, reactive, state>>

(* Any other flit leaves.                                                  *)
Consume(p) ==
    /\ state[p] = "network"
    /\ LET f == flit[p]
       IN  /\ f.type = "RESPONSE"
           /\ PortType(OutPort(f)) = "node"
           /\ flit' = [flit EXCEPT ![p] =
                  [f EXCEPT !.port = OutPort(f), !.prevSw = f.sw,
                            !.prevP = f.port,
                            !.valNodeReached = ValNodeReached(f)]]
    /\ state' = [state EXCEPT ![p] = "consumed"]
    /\ UNCHANGED <<palm, routing, reactive>>

Next == \E p \in Packets : Inject(p) \/ Hop(p) \/ Answer(p) \/ Consume(p)

Spec == Init /\ [][Next]_vars

(* Some packet moves as long as one can: no more is asked of the arbiters, *)
(* and nothing of the nodes.                                               *)
FairSpec == Spec /\ WF_vars(\E p \in Packets : Hop(p) \/ Answer(p) \/ Consume(p))
-----------------------------------------------------------------------------
(* The values each variable may take; in particular a channel is found for *)
(* every hop (assert at vcMngmt.cc:174), and it is one the link has.       *)
TypeOK ==
    /\ palm \in BOOLEAN
    /\ routing \in Routings
    /\ reactive \in BOOLEAN
    /\ state \in [Packets -> {"source", "network", "consumed"}]
    /\ flit \in [Packets ->
           [sw : Switches, port : Ports, channel : Channels,
            prevSw : Switches, prevP : Ports, type : {"PETITION", "RESPONSE"},
            source : Nodes, dest : Nodes, valId : Nodes,
            valNodeReached : BOOLEAN, hopCount : 0..6, minPathLength : 0..3]]
    /\ \A p \in Packets :
           state[p] = "network" =>
               CASE PortType(flit[p].port) = "local" -> flit[p].channel < LocalChannels
                 [] PortType(flit[p].port) = "global" -> flit[p].channel < GlobalChannels
                 [] OTHER -> flit[p].channel < 2

(* The tables of the two ends of a link agree: seen from the port where a  *)
(* flit came in, the neighbour and its port are those the flit was sent    *)
(* from.  That is where sendCredits delivers the credit                    *)
(* (switchModule.cc:978).                                                  *)
CreditsReachSender ==
    \A p \in Packets :
        LET f == flit[p]
        IN  state[p] = "network" /\ PortType(f.port) # "node" =>
                /\ neighList[palm][f.sw][f.port] = f.prevSw
                /\ neighPort[palm][f.sw][f.port] = f.prevP

(* How far the flits in a channel are in the sequence of the hops of       *)
(* petitions, the injection of the response and the hops of responses.     *)
places ==
    [r \in Routings |-> [port \in Ports |-> [vc \in Channels |->
        LET response == Len(typeVc[r]) + 1
        IN  IF PortType(port) = "node" THEN {IF vc = 0 THEN 0 ELSE response}
            ELSE HopsOf(r, petitionVc[r], port, vc)
                   \cup {response + i : i \in HopsOf(r, responseVc[r], port, vc)}]]]

(* "an increasing sequence to break cyclic dependencies" (vcMngmt.cc:137), *)
(* in which responses "start with the next vc to the highest used in the   *)
(* petitions" (vcMngmt.cc:53): a flit that holds a channel only ever waits *)
(* for one later in the sequence, and a petition for those of responses    *)
(* alone once it is where it is answered, so that no cycle of flits can    *)
(* wait for each other.                                                    *)
ChannelsIncrease ==
    [][\A p \in Packets :
          state[p] = "network" /\ flit'[p] # flit[p] /\ state'[p] = "network" =>
              \A i \in places[routing][flit[p].port][flit[p].channel],
                 j \in places[routing][flit'[p].port][flit'[p].channel] : i < j]_vars

(* "Determines the length of minimal and Valiant paths, and sets it in     *)
(* corresponding flit fields" (generatorModule.cc:242), which UGAL and     *)
(* Piggyback routing weigh queues with: the packet routed minimally makes  *)
(* as many hops as its source worked out.                                  *)
MinPathExact ==
    \A p \in Packets :
        state[p] = "consumed" /\ routing = "min" =>
            flit[p].hopCount = flit[p].minPathLength

(* The packets in the network all leave it, each at the node it is for,    *)
(* the response to a petition at the one that asked, and not without       *)
(* having been at the Valiant group or switch: packets do not block each   *)
(* other for good, and none goes around for ever.                          *)
Home(p) ==
    LET f == flit[p]
        pair == IF reactive THEN <<f.dest, f.source>> ELSE <<f.source, f.dest>>
    IN  /\ f.sw * P + f.port = f.dest
        /\ pair \in Traffic[reactive, p]
        /\ routing # "min" => f.valNodeReached

Delivered ==
    []<>(\A p \in Packets : state[p] # "source" => state[p] = "consumed" /\ Home(p))
(* As long as there are packets in the network, one of them can move: its  *)
(* flit meets the conditions of Hop, Answer or Consume.                    *)
CanMove(p) ==
    LET f == flit[p]
        next == NextFlit(f)
    IN  IF PortType(OutPort(f)) # "node"
        THEN InBuffer(next.sw, next.port, next.channel) = {}
        ELSE f.type = "PETITION" =>
                 InBuffer(SwitchOf(f.dest), f.dest % P, InjectionChannel("RESPONSE")) = {}

NoDeadlock ==
    (\E p \in Packets : state[p] = "network")
        => \E p \in Packets : state[p] = "network" /\ CanMove(p)
=============================================================================
