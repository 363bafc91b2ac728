---------------------------- MODULE MCDragonfly ----------------------------
(* Instances of Dragonfly for TLC: five groups of two switches with two    *)
(* nodes and two global links each.                                        *)
EXTENDS Dragonfly

(* Packet 1 goes from the first node of a switch of group 2, which has     *)
(* groups on either side, to the second of any switch, and by way of a     *)
(* Valiant node over the links of all groups.  Packet 2 goes from the      *)
(* second node of the first switch there to the first one: by way of a     *)
(* Valiant node of the other switch it meets a packet 1 that does the      *)
(* reverse.                                                                *)
(*                                                                         *)
(* Petitions: packet 1 goes to a node of group 0; packet 2 goes from a     *)
(* neighbour of that group to the same one, where their responses need the *)
(* same channel, or the other way, where each meets the response to the    *)
(* other.                                                                  *)
NodeOf(s, n) == s * P + n
Switch == 2 * A
Answering == NodeOf(0, 0)
Neighbour == NodeOf(1, 0)

Packet1(answered) ==
    IF answered THEN {<<NodeOf(Switch, 0), Answering>>}
                ELSE {NodeOf(Switch, 0), NodeOf(Switch + 1, 0)}
                       \X {NodeOf(s, 1) : s \in Switches}
Packet2(answered) ==
    IF answered THEN {<<Neighbour, Answering>>, <<Answering, Neighbour>>}
                ELSE {<<NodeOf(Switch, 1), NodeOf(Switch, 0)>>}

TwoPackets ==
    [answered \in BOOLEAN, p \in Packets |->
        IF p = 1 THEN Packet1(answered) ELSE Packet2(answered)]

(* One packet between any two nodes.                                       *)
AnyTraffic == [answered \in BOOLEAN, p \in Packets |-> Nodes \X Nodes]
=============================================================================
