------------------------------ MODULE Workloads ------------------------------
(***************************************************************************)
(* The traffics of the nodes: a trace, Graph500, or synthetic packets.     *)
(* The main program simulates one of them, which it chooses by g_traffic,  *)
(* and the state of the others stays as it is created.                     *)
(***************************************************************************)
EXTENDS TraceReplay, Graph500, Nodes

VARIABLE traffic

vars == <<traffic, readerVars, replayVars, graphVars, nodesVars>>

Init ==
    /\ traffic \in {"TRACE", "GRAPH500", "SYNTHETIC"}
    /\ ReaderInit /\ ReplayInit /\ GraphInit /\ NodesInit
    /\ traffic # "SYNTHETIC" => config = (CHOOSE c \in NodeConfigs : ~c.shuffled)
    /\ traffic # "TRACE" =>
        trace = (CHOOSE t \in Traces : TRUE) /\ auxRoot = 0

Next ==
    /\ UNCHANGED traffic
    /\ \/ traffic = "TRACE" /\ TraceNext /\ UNCHANGED <<graphVars, nodesVars>>
       \/ traffic = "GRAPH500" /\ GraphNext /\ UNCHANGED <<readerVars, replayVars, nodesVars>>
       \/ traffic = "SYNTHETIC" /\ NodesNext /\ UNCHANGED <<readerVars, replayVars, graphVars>>

Spec == Init /\ [][Next]_vars

(* The cycles of the main loop go on.                                      *)
FairSpec == Spec /\ WF_vars(Next)

TypeOK == TraceTypeOK /\ GraphTypeOK /\ NodesTypeOK

(* Every traffic comes to its end and stays there                          *)
(* (dgflySimulator.cc:1606-1637, 1639-1686 and 1687-1813): no task waits   *)
(* for a message that the trace does not have, and no petition for a       *)
(* response that waits for the petition; an all-to-all reaches all pairs   *)
(* of nodes.  The end that Graph500 comes to is an assertion that fails    *)
(* when the root has sent its queries (generatorModule.cc:360, or          *)
(* switchModule.cc:525 with RAND).  A trace that cannot be read, or that   *)
(* crashes when it sends, ends the simulation at once, and so do the       *)
(* assertions that MayAbort lists; a permutation that cannot be drawn      *)
(* keeps it from beginning.                                                *)
WorkEnds ==
    <>[](CASE traffic = "TRACE" -> pass = "aborted" \/ outcome # "running"
           [] traffic = "GRAPH500" -> graphAborted
           [] traffic = "SYNTHETIC" -> Hung \/ NodesDone)
=============================================================================
