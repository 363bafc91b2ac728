------------------------------ MODULE Graph500 ------------------------------
(***************************************************************************)
(* The nodes of one instance of the Graph500 traffic                       *)
(* (src/generator/graph500Generator.cc) in the main loop of                *)
(* src/dgflySimulator.cc.  In level 0 of the breadth-first search the root *)
(* sends its queries to the other nodes.  Then it makes a signal for each  *)
(* of them, for which it takes an injection channel of the petitions       *)
(* (generatorModule.cc, getInjectionVC).  There are none, as Graph500 is   *)
(* not reactive, and an assertion ends the program.  So no signal, result  *)
(* or further level ever comes about.  The states of a node for them are   *)
(* not modelled: GraphTypeOK says that no node gets to one of them.        *)
(*                                                                         *)
(* In a cycle the switches act first, then each node has one turn, in the  *)
(* order of the labels, and a turn runs through states of the node until   *)
(* one of them ends it.  The network delivers the flits in flight in any   *)
(* order; it has credits for a flit, or not, as it likes.                  *)
(***************************************************************************)
EXTENDS Integers, Sequences, Bags

CONSTANTS
    N,              \* g_trace_nodes[0]: processes, one to a node
    Host,           \* g_trace_2_gen_map: the node of each process
    RootNode,       \* g_graph_root_node
    RootDegree,     \* g_graph_root_degree
    Coalescing,     \* g_graph_coalescing_size: queries in a message, at most
    QueryTime,      \* g_graph_query_time, in whole cycles
    MaxPutOff       \* bound: how often flits are put off by a cycle

ASSUME GraphAssumption ==
    /\ N \in Nat \ {0, 1} /\ RootNode \in 1..N
    /\ Host \in [1..N -> 1..N] /\ {Host[i] : i \in 1..N} = 1..N
    /\ RootDegree \in Nat \ {0} /\ Coalescing \in Nat \ {0}
    /\ QueryTime \in Nat /\ MaxPutOff \in Nat

VARIABLES
    graphTurn,          \* 0: the switches act; n: the turn of node n; N + 1: end of the cycle
    graphAborted,       \* an assertion has failed
    state,              \* the state of each node
    flit,               \* the flit a node has yet to inject, NoFlit if there is none
    queriesToSend,      \* of each node, in this level
    p2pmessagesToSend,  \* messages left for these queries
    totalMessagesToReceive,     \* notified (none are), less those consumed
    receptionPendingCycles,     \* to work at what was received; below 0 all are alike
    endSignalSentCounter,       \* processes that have had the signal of this node
    endsignalRxCounter,         \* signals this node has had
    inFlight,           \* queries of the flits injected and not yet consumed, by destination
    putOff              \* times that a flit was not generated or not injected

graphVars ==
    <<graphTurn, graphAborted, state, flit, queriesToSend, p2pmessagesToSend,
      totalMessagesToReceive, receptionPendingCycles, endSignalSentCounter,
      endsignalRxCounter, inFlight, putOff>>

queries == <<queriesToSend, p2pmessagesToSend>>
receptions == <<totalMessagesToReceive, receptionPendingCycles>>
signals == <<endSignalSentCounter, endsignalRxCounter>>

Computers == 1..N
Peers(n) == Computers \ {n}

(* A flit with queries, and whether it was generated in this cycle         *)
(* (inCycle).                                                              *)
QueryFlit(to, q) == [to |-> to, queries |-> q, fresh |-> TRUE]
NoFlit == [to |-> 0, queries |-> 0, fresh |-> FALSE]

(* getInjectionVC: whether there are channels for flits of a type, in      *)
(* injResVcs or injPetVcs.  Traffic that is not reactive leaves injPetVcs  *)
(* empty.                                                                  *)
HasInjectionVC(type) == type \in {"RESPONSE", "CNM"}

NonNegative(i) == IF i < 0 THEN 0 ELSE i
CeilDiv(a, b) == (a + b - 1) \div b

(* numberOfEffectiveNodes: N * (1 - (1 - 1/N)^q), rounded down, at least 1 *)
(* and never more than N.                                                  *)
Power(x) ==
    LET power[q \in Nat] == IF q = 0 THEN 1 ELSE x * power[q - 1]
    IN  power

EffectiveNodes(q) ==
    IF q = 0 THEN 1
    ELSE LET nodes == (Power(N)[q] - Power(N - 1)[q]) \div Power(N)[q - 1]
         IN  IF nodes \in 2..N THEN nodes ELSE 1

(* calculateNumberOfMessages.                                              *)
NumberOfMessages(q) ==
    EffectiveNodes(q) * CeilDiv(q, EffectiveNodes(q) * Coalescing)

(* Faulty: messages are filled up while there are queries for it.          *)
FilledUp(q, messages) == IF q >= Coalescing THEN Coalescing ELSE q
(* The queries of the next message (computegeneration).                    *)
Fill(q, messages) ==
    IF q >= Coalescing + messages - 1 THEN Coalescing ELSE CeilDiv(q, messages)

GraphInit ==
    /\ graphTurn = 0 /\ graphAborted = FALSE
    /\ state = [n \in Computers |-> IF n = RootNode THEN "ROOTNODE" ELSE "COMPUTERECEPTION"]
    /\ flit = [n \in Computers |-> NoFlit]
    /\ queriesToSend = [n \in Computers |-> 0]
    /\ p2pmessagesToSend = [n \in Computers |-> 0]
    /\ totalMessagesToReceive = [n \in Computers |-> 0]
    /\ receptionPendingCycles = [n \in Computers |-> 0]
    /\ endSignalSentCounter = [n \in Computers |-> N]
    /\ endsignalRxCounter = [n \in Computers |-> N - 2]
    /\ inFlight = [n \in Computers |-> EmptyBag]
    /\ putOff = 0
----------------------------------------------------------------------------
(* A node in its turn: what it does in state s, the state it goes to, and  *)
(* whether its turn ends (endCycle).                                       *)
In(n, s) == graphTurn = n /\ state[n] = s /\ ~graphAborted
Goto(n, s) == state' = [state EXCEPT ![n] = s]
EndCycle == graphTurn' = graphTurn + 1
SameCycle == UNCHANGED graphTurn
PutOff == putOff < MaxPutOff /\ putOff' = putOff + 1

RootNodeStart(n) ==
    LET q == CeilDiv(RootDegree * (N - 1), N)
    IN  /\ In(n, "ROOTNODE")
        /\ queriesToSend' = [queriesToSend EXCEPT ![n] = q]
        /\ p2pmessagesToSend' = [p2pmessagesToSend EXCEPT
                ![n] = IF NumberOfMessages(q) > 1 THEN NumberOfMessages(q) ELSE 1]
        /\ endSignalSentCounter' = [endSignalSentCounter EXCEPT ![n] = 0]
        /\ endsignalRxCounter' = [endsignalRxCounter EXCEPT ![n] = @ + 1]
        /\ Goto(n, "COMPUTEGENERATION") /\ SameCycle
        /\ UNCHANGED <<graphAborted, flit, receptions, inFlight, putOff>>

(* A flit is generated with the probability of the injection, and with     *)
(* RAND only if a channel has room.                                        *)
ComputeGeneration(n) ==
    /\ In(n, "COMPUTEGENERATION")
    /\ \/ PutOff /\ EndCycle /\ UNCHANGED <<state, flit>>
       \/ /\ HasInjectionVC("RESPONSE")
          /\ \E d \in Peers(n) : flit' = [flit EXCEPT
                ![n] = QueryFlit(d, Fill(queriesToSend[n], p2pmessagesToSend[n]))]
          /\ Goto(n, "SENDP2PREQUEST") /\ SameCycle /\ UNCHANGED putOff
    /\ UNCHANGED <<graphAborted, queries, receptions, signals, inFlight>>

(* The flit the node holds goes into the network if the input buffer of    *)
(* its switch has space for it; else it is tried again.                    *)
RequestSent(n) ==
    /\ In(n, "SENDP2PREQUEST")
    /\ inFlight' = [inFlight EXCEPT ![flit[n].to] = @ (+) SetToBag({flit[n].queries})]
    /\ flit' = [flit EXCEPT ![n] = NoFlit]
    /\ p2pmessagesToSend' = [p2pmessagesToSend EXCEPT ![n] = @ - 1]
    /\ queriesToSend' = [queriesToSend EXCEPT ![n] = @ - flit[n].queries]
    /\ IF p2pmessagesToSend[n] = 1 THEN Goto(n, "COMPUTEP2PSIGNAL") /\ EndCycle
       ELSE Goto(n, "COMPUTERECEPTION") /\ IF flit[n].fresh THEN EndCycle ELSE SameCycle
    /\ UNCHANGED <<graphAborted, receptions, signals, putOff>>

RequestKept(n) ==
    /\ In(n, "SENDP2PREQUEST") /\ PutOff
    /\ flit' = [flit EXCEPT ![n].fresh = FALSE]
    /\ IF flit[n].fresh THEN EndCycle /\ UNCHANGED state
       ELSE SameCycle /\ Goto(n, "COMPUTERECEPTION")
    /\ UNCHANGED <<graphAborted, queries, receptions, signals, inFlight>>

(* Everything another node sent to n in this level has arrived.            *)
AllHere(n) == totalMessagesToReceive[n] = 0 /\ endsignalRxCounter[n] = N - 1

(* Where a node goes on to from COMPUTERECEPTION.                          *)
NextState(n, pending) ==
    IF p2pmessagesToSend[n] > 0
    THEN IF flit[n] # NoFlit THEN "SENDP2PREQUEST"
         ELSE IF pending < 0 THEN "COMPUTEGENERATION" ELSE "COMPUTERECEPTION"
    ELSE IF endSignalSentCounter[n] < N
    THEN IF flit[n] # NoFlit THEN "SENDP2PSIGNAL" ELSE "COMPUTEP2PSIGNAL"
    ELSE IF AllHere(n) THEN "ALLREDUCEAGGREGATE" ELSE "COMPUTERECEPTION"

ComputeReception(n) ==
    LET pending == IF receptionPendingCycles[n] < 0 THEN -1 ELSE receptionPendingCycles[n] - 1
    IN  /\ In(n, "COMPUTERECEPTION")
        /\ receptionPendingCycles' = [receptionPendingCycles EXCEPT ![n] = pending]
        /\ Goto(n, NextState(n, pending)) /\ EndCycle
        /\ UNCHANGED <<graphAborted, flit, queries, totalMessagesToReceive, signals,
                       inFlight, putOff>>

(* The root, which skips itself, makes the first of its signals.  With     *)
(* DEST getInjectionVC fails an assertion; with RAND it returns channel -1 *)
(* and sendp2psignal, at once, asks the switch for its credits, which      *)
(* fails one too.                                                          *)
ComputeP2pSignal(n) ==
    /\ In(n, "COMPUTEP2PSIGNAL")
    /\ endSignalSentCounter' = [endSignalSentCounter EXCEPT
            ![n] = IF Host[@ + 1] = n THEN @ + 1 ELSE @]
    /\ graphAborted' = ~HasInjectionVC("SIGNAL")
    /\ UNCHANGED <<graphTurn, state, flit, queries, receptions, endsignalRxCounter,
                   inFlight, putOff>>
----------------------------------------------------------------------------
(* The switches act: each node consumes one flit with queries or none (0), *)
(* whatever it is doing (consumeFlit).                                     *)
SwitchesAct ==
    /\ graphTurn = 0 /\ EndCycle
    /\ \E arrived \in [Computers -> UNION {BagToSet(inFlight[n]) : n \in Computers} \cup {0}] :
        /\ \A n \in Computers : arrived[n] \in BagToSet(inFlight[n]) \cup {0}
        /\ inFlight' = [n \in Computers |-> inFlight[n] (-) SetToBag({arrived[n]})]
        /\ receptionPendingCycles' = [n \in Computers |->
                IF arrived[n] = 0 THEN receptionPendingCycles[n]
                ELSE NonNegative(receptionPendingCycles[n]) + QueryTime * arrived[n]]
        /\ totalMessagesToReceive' = [n \in Computers |->
                totalMessagesToReceive[n] - (IF arrived[n] = 0 THEN 0 ELSE 1)]
    /\ UNCHANGED <<graphAborted, state, flit, queries, signals, putOff>>

(* The end of a cycle of the main loop.  The level does not end: no node   *)
(* is in LEVELEND.                                                         *)
EndOfCycle ==
    /\ graphTurn = N + 1 /\ graphTurn' = 0
    /\ UNCHANGED <<graphAborted, state, flit, queries, receptions, signals, inFlight, putOff>>

Turn(n) ==
    \/ RootNodeStart(n) \/ ComputeGeneration(n)
    \/ RequestSent(n) \/ RequestKept(n) \/ ComputeReception(n)
    \/ ComputeP2pSignal(n)

GraphNext ==
    \/ SwitchesAct
    \/ \E n \in Computers : Turn(n)
    \/ EndOfCycle
----------------------------------------------------------------------------
(* The messages of a level carry its queries exactly: none is empty and    *)
(* none is left when the last message is gone (the assertions of           *)
(* computegeneration, graph500Generator.cc:352-354).                       *)
QueriesFit(n) ==
    /\ p2pmessagesToSend[n] <= queriesToSend[n]
    /\ queriesToSend[n] <= p2pmessagesToSend[n] * Coalescing
    /\ flit[n] # NoFlit =>
        /\ flit[n].queries \in 1..Coalescing
        /\ p2pmessagesToSend[n] = 1 => flit[n].queries = queriesToSend[n]

(* The types, and the states that a node ever gets to.                     *)
GraphTypeOK ==
    /\ graphTurn \in 0..(N + 1) /\ graphAborted \in BOOLEAN
    /\ \A n \in Computers :
        /\ state[n] \in {"ROOTNODE", "COMPUTEGENERATION", "SENDP2PREQUEST", "COMPUTERECEPTION",
                         "COMPUTEP2PSIGNAL"}
        /\ flit[n].to \in Peers(n) \cup {0}
        /\ queriesToSend[n] \in Nat /\ p2pmessagesToSend[n] \in Nat /\ QueriesFit(n)
        /\ endSignalSentCounter[n] \in 0..N /\ endsignalRxCounter[n] \in 0..(N - 1)
        /\ IsABag(inFlight[n])
    /\ putOff \in 0..MaxPutOff
=============================================================================
