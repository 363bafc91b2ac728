------------------------------ MODULE Topology ------------------------------
(***************************************************************************)
(* The wiring of the Dragonfly and the minimal routing tables              *)
(* (routing/routing.cc).                                                   *)
(*                                                                         *)
(* A * H + 1 groups of A switches, each with P nodes and H global links.   *)
(* Switch s is number s % A of group s \div A; node n is number n % P of   *)
(* switch n \div P.  Ports of a switch: its nodes, then the local, then    *)
(* the global links.                                                       *)
(***************************************************************************)
EXTENDS Integers, FiniteSets, Sequences

CONSTANTS
    P, A, H         \* nodes per router, routers per group, global ports per router

ASSUME SizeAssumption ==
    /\ P \in Nat \ {0}
    /\ A \in Nat \ {0}
    /\ H \in Nat \ {0}

Groups == 0..(A * H)
Switches == 0..(A * (A * H + 1) - 1)
Nodes == 0..(P * A * (A * H + 1) - 1)

Ports == 0..(P + A - 1 + H - 1)
LinkPorts == P..(P + A - 1 + H - 1)

aPos(s) == s % A
hPos(s) == s \div A
SwitchOf(n) == n \div P

LocalOffset == P
GlobalOffset == P + A - 1

PortType(port) ==
    IF port < LocalOffset THEN "node" ELSE
    IF port < GlobalOffset THEN "local" ELSE "global"

(* Which of the A * H global links of group h leads to group g, in either  *)
(* layout.                                                                 *)
GroupLink(layout, h, g) ==
    IF layout THEN ((h - g) % (A * H + 1)) - 1
    ELSE IF g > h THEN g - 1 ELSE g

(* The port of router a that leads to router b of its group: a router has  *)
(* no port to itself.                                                      *)
LocalPort(a, b) == LocalOffset + (IF b > a THEN b - 1 ELSE b)

(* The router of the group of s that is next on the minimal path to n.     *)
NextA(layout, s, n) ==
    LET h == hPos(s)
        g == hPos(SwitchOf(n))
    IN  IF g # h THEN GroupLink(layout, h, g) \div H ELSE aPos(SwitchOf(n))

MinOutputPort(layout, s, n) ==
    LET h == hPos(s)
        g == hPos(SwitchOf(n))
        next == NextA(layout, s, n)
    IN  IF next # aPos(s) THEN LocalPort(aPos(s), next)
        ELSE IF g # h THEN GlobalOffset + (GroupLink(layout, h, g) % H)
        ELSE n % P

(* Faulty: the ends of a global link are mixed up.                         *)
MinInputPortSwapped(layout, s, n) ==
    LET h == hPos(s)
        g == hPos(SwitchOf(n))
        next == NextA(layout, s, n)
    IN  IF next # aPos(s) THEN LocalPort(next, aPos(s))
        ELSE IF g # h THEN GlobalOffset + (GroupLink(layout, h, g) % H)
        ELSE 0

(* The port by which the path from s to n enters the next switch.          *)
MinInputPort(layout, s, n) ==
    LET h == hPos(s)
        g == hPos(SwitchOf(n))
        next == NextA(layout, s, n)
    IN  IF next # aPos(s) THEN LocalPort(next, aPos(s))
        ELSE IF g # h THEN GlobalOffset + (GroupLink(layout, g, h) % H)
        ELSE 0

(* findNeighbors: the switch at the other end of a link of s.              *)
Neighbor(layout, s, port) ==
    LET h == hPos(s)
        a == aPos(s)
        b == port - LocalOffset
        link == a * H + port - GlobalOffset
        g == IF layout THEN (h - (link + 1)) % (A * H + 1)
             ELSE IF link >= h THEN link + 1 ELSE link
        neighA == IF layout THEN (((g - h) % (A * H + 1)) - 1) \div H
                  ELSE IF h < g THEN h \div H ELSE (h - 1) \div H
    IN  IF PortType(port) = "local" THEN h * A + (IF b >= a THEN b + 1 ELSE b)
                                    ELSE g * A + neighA

(* The tables each switch fills in at the start; neighPort is the port of  *)
(* the neighbour for the link (visitNeighbors).                            *)
minTable ==
    [layout \in BOOLEAN |-> [s \in Switches |-> [n \in Nodes |->
        MinOutputPort(layout, s, n)]]]

neighList ==
    [layout \in BOOLEAN |-> [s \in Switches |-> [port \in LinkPorts |->
        Neighbor(layout, s, port)]]]

neighPort ==
    [layout \in BOOLEAN |-> [s \in Switches |-> [port \in LinkPorts |->
        MinInputPort(layout, s, neighList[layout][s][port] * P)]]]

(* determinePaths: hops of the minimal path, as the source node has it.    *)
MinPathLength(src, dest) ==
    LET a == aPos(SwitchOf(src))    h == hPos(SwitchOf(src))
        b == aPos(SwitchOf(dest))   g == hPos(SwitchOf(dest))
        LeadsTo(group, first) == group \in first..(first + H - 1)
        up == IF h < g THEN 1 ELSE 0    \* links to higher groups skip the own
        down == IF h > g THEN 1 ELSE 0
    IN  IF h = g THEN (IF a = b THEN 0 ELSE 1)
        ELSE 1 + (IF LeadsTo(g, a * H + up) THEN 0 ELSE 1)
               + (IF LeadsTo(h, b * H + down) THEN 0 ELSE 1)
=============================================================================
