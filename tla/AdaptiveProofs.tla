--------------------------- MODULE AdaptiveProofs ---------------------------
(***************************************************************************)
(* What Adaptive promises, for every Dragonfly, every number of packets    *)
(* and channels and every accepted configuration.                          *)
(*                                                                         *)
(* The inductive invariant IInv says of a flit in the network, whatever    *)
(* the queues made its routing decide so far:                              *)
(*   PathBounded  how many hops are behind it and may be ahead (Ahead);    *)
(*   InOrder      which hop of the sequence of its routing its channel     *)
(*                stands for, no later than its place allows (Furthest);   *)
(*   Injected     what holds of it in the buffer of its node;              *)
(*   Weighed      that the lengths it carries are those of its way;        *)
(*   Flagged, Misroutes  what the flags of Valiant routing and of in-      *)
(*                transit misrouting say of where it is.                   *)
(*                                                                         *)
(* The proof has four parts.  Geometry: minimal routing nears its end with *)
(* each hop, and a link off the path leads where OffPath says; from the    *)
(* theorems about the tables in DragonflyProofs (D).  Channels: which hop  *)
(* NextChannel gives a flit.  Routings: for each, what enroute may make of *)
(* a flit (Sent, Tries, Decides, Ventures), that a flit which waits keeps  *)
(* the invariant and that one which moves does.  Then the invariant, step  *)
(* by step, and what follows from it.                                      *)
(***************************************************************************)
EXTENDS Adaptive, FiniteSetTheorems, SequenceTheorems, WellFoundedInduction,
        TLAPS

-----------------------------------------------------------------------------
(* Every set of natural numbers has a least one.                           *)
LEMMA NatMinimum ==
  ASSUME NEW S \in SUBSET Nat, S # {}
  PROVE  \E m \in S : \A n \in S : m <= n
<1> DEFINE less == {p \in Nat \X Nat : p[1] < p[2]}
<1>0. OpToRel(<, Nat) = less
  BY DEF OpToRel
<1>1. \A n, m \in Nat : <<n, m>> \in less <=> n < m
  OBVIOUS
<1> HIDE DEF less
<1>2. PICK m \in S : \A n \in S : ~(<<n, m>> \in less)
  BY <1>0, NatLessThanWellFounded, WFMin
<1>3. \A n \in S : n \in Nat /\ m \in Nat /\ ~(n < m)
  BY <1>1, <1>2
<1>4. \A n \in S : m <= n
  BY <1>3
<1> QED BY <1>4

(* Min and Max of the places of a list.                                    *)
LEMMA LeastPlace ==
  ASSUME NEW n \in Nat, NEW S \in SUBSET (1..n), S # {}
  PROVE  Min(S) \in S /\ \A k \in S : Min(S) <= k
<1>1. S \in SUBSET Nat
  OBVIOUS
<1>2. \E m \in S : \A k \in S : m <= k
  BY <1>1, NatMinimum
<1> QED BY <1>2 DEF Min

LEMMA GreatestPlace ==
  ASSUME NEW n \in Nat, NEW S \in SUBSET (1..n), S # {}
  PROVE  Max(S) \in S /\ \A k \in S : k <= Max(S)
<1> DEFINE R == {n - k : k \in S}
<1>1. R \in SUBSET Nat /\ R # {}
  <2>1. \A k \in S : k \in 1..n /\ n - k \in Nat
    OBVIOUS
  <2>2. PICK k \in S : TRUE
    OBVIOUS
  <2>3. n - k \in R
    OBVIOUS
  <2> QED BY <2>1, <2>3
<1>2. PICK m \in R : \A r \in R : m <= r
  BY <1>1, NatMinimum
<1>3. PICK k \in S : m = n - k
  BY <1>2
<1>4. ASSUME NEW l \in S PROVE l <= k
  <2>1. n - l \in R
    OBVIOUS
  <2>2. n - k <= n - l /\ l \in Int /\ k \in Int
    BY <1>2, <1>3, <2>1
  <2> QED BY <2>2
<1>5. \E l \in S : \A j \in S : l >= j
  BY <1>4
<1>6. Max(S) \in S /\ \A j \in S : Max(S) >= j
  BY <1>5 DEF Max
<1> QED BY <1>6


ByValiant == {"ugal", "pb", "pbAny", "obl", "srcAdp", "acor", "pbAcor"}
InTransit == {"par", "olm"}

(* The routings that weigh two paths, and those that know both lengths.    *)
Weighing == {"ugal", "pb", "pbAny", "srcAdp", "pbAcor"}
WeighsBoth == {"srcAdp", "pbAcor"}

(* Switch s has the link to the group of n, which is another one.          *)
HasExit(s, n) == NextA(FALSE, s, n) = aPos(s)

(* The port minimal routing has for n, and the port a link comes in by.    *)
Toward(s, n) == MinOutputPort(FALSE, s, n)
Entry(s, port) == neighPort[FALSE][s][port]

(* How near switch s is to node n on the minimal path: at its switch, in   *)
(* its group, at the switch with the link to its group, or none of these.  *)
Near(s, n) ==
    IF s = SwitchOf(n) THEN 3
    ELSE IF hPos(s) = Group(n) THEN 2
    ELSE IF HasExit(s, n) THEN 1 ELSE 0

(* The flit is where it was to go by way of its Valiant node.              *)
ToGroup(v, f) ==
    \/ v.routing \in {"ugal", "pb"}
    \/ v.routing = "obl" /\ v.valiantDestination = "GROUP"
    \/ v.routing \in {"acor", "pbAcor"} /\ f.status = "CRGLGr"

There(v, f) == IF ToGroup(v, f) THEN InValGroup(f) ELSE InValSwitch(f)

(* The flit is still to go by its Valiant node, as far as it knows, and    *)
(* has not got there.                                                      *)
Via(v, f) ==
    /\ v.routing \in ByValiant /\ ~f.reached
    /\ f.type = "VALIANT" \/ v.routing \in {"obl", "acor"}

Onward(v, f) == Via(v, f) /\ ~There(v, f)

InSource(f) == hPos(f.sw) = Group(f.src) /\ Group(f.src) # Group(f.dest)

(* The hops that may still be ahead of a flit: after in-transit routing by *)
(* how near it is.                                                         *)
AheadInTransit(f) ==
    IF InSource(f) THEN (IF AtInjection(f) THEN 8 ELSE IF f.mandatory THEN 6 ELSE 7)
    ELSE LET near == Near(f.sw, f.dest) IN
         IF near = 3 THEN 0
         ELSE IF near = 2 THEN (IF f.localDone THEN 1 ELSE 2)
         ELSE IF near = 1 THEN 3
         ELSE IF f.localDone THEN 4 ELSE 5

Ahead(v, f) ==
    IF v.routing \in InTransit THEN AheadInTransit(f)
    ELSE IF Via(v, f) THEN 5 + HopsToDest(f.sw, f.valId)
    ELSE 2 + HopsToDest(f.sw, f.dest)

PathBounded(v, f) == v.routing # "car" => f.hopCount + Ahead(v, f) <= 8

(* The last hop of the sequence that the flit may have made.               *)
Furthest(v, f) ==
    LET near == Near(f.sw, f.dest) IN
    IF v.routing = "par"
    THEN IF InSource(f) THEN (IF AtInjection(f) THEN 0 ELSE IF f.mandatory THEN 2 ELSE 1)
         ELSE IF near = 0 THEN (IF f.localDone THEN 4 ELSE 3) ELSE near + 4
    ELSE IF v.routing = "olm"
    THEN IF InSource(f) THEN (IF AtInjection(f) THEN 0 ELSE 1) ELSE near + 2
    ELSE IF v.routing = "car" THEN 7
    ELSE IF Onward(v, f) THEN Near(f.sw, f.valId)
    ELSE Len(typeVc[v.routing]) - 3 + near

At(v, f, i) ==
    IF AtInjection(f) THEN i = 0
    ELSE /\ i \in 1..Len(typeVc[v.routing]) /\ typeVc[v.routing][i] = PortType(f.port)
         /\ f.channel = petitionVc[v.routing][i]

InOrder(v, f) ==
    v.usage = "BASE" =>
      \E i \in 0..Len(typeVc[v.routing]) :
        At(v, f, i) /\ i <= Furthest(v, f) /\ (v.routing = "car" => f.hopCount <= i)

WayLength(f) == HopsToDest(f.sw, f.valId) + HopsToDest(SwitchOf(f.valId), f.dest)

Injected(v, f) ==
    AtInjection(f) =>
        /\ f.hopCount = 0 /\ f.sw = SwitchOf(f.src)
        /\ ~f.localDone /\ ~f.globalDone /\ ~f.mandatory /\ ~f.byVal
        /\ v.routing \in WeighsBoth /\ f.chosen => f.valLen = WayLength(f)

Weighed(v, f) ==
    /\ f.minLen = MinPathLength(f.src, f.dest)
    /\ ~AtInjection(f) /\ v.routing \in Weighing /\ ~f.byVal =>
           /\ f.type # "VALIANT"
           /\ f.hopCount + HopsToDest(f.sw, f.dest) = f.minLen
    /\ ~AtInjection(f) /\ v.routing \in WeighsBoth /\ f.byVal =>
           IF Via(v, f) THEN f.hopCount + WayLength(f) = f.valLen
                        ELSE f.hopCount + HopsToDest(f.sw, f.dest) <= f.valLen

(* The routings whose Valiant node is never in the source group.           *)
Away(v) == v.routing = "acor" \/ (v.routing = "pbAcor" /\ v.valiantType = "SRCEXC")

Flagged(v, f) ==
    /\ v.routing \notin InTransit => ~f.mandatory
    /\ Away(v) /\ Group(f.src) # Group(f.dest) =>
         /\ ~AtInjection(f) => Group(f.valId) # Group(f.src)
         /\ InSource(f) => ~f.reached
    /\ v.routing \in ByValiant /\ v.misrouting = "MM" /\ InSource(f) /\ ~AtInjection(f)
         /\ f.type # "VALIANT" => Near(f.sw, f.dest) = 1

Misroutes(v, f) ==
    v.routing \in InTransit =>
         /\ f.type # "VALIANT"
         /\ f.mandatory =>
              /\ InSource(f)
              /\ v.misrouting = "MM" \/ (v.routing = "olm" /\ v.misrouting \in {"NRG", "RRG"})
         /\ f.localDone => PortType(f.port) = "local"
         /\ InSource(f) /\ ~AtInjection(f) =>
              /\ PortType(f.port) = "local" /\ ~f.globalDone
              /\ IF f.mandatory THEN Near(f.sw, f.dest) = 0
                 ELSE ~f.localDone /\ Near(f.sw, f.dest) = 1

Net(v, f) ==
    /\ f \in FlitType
    /\ PathBounded(v, f) /\ InOrder(v, f) /\ Injected(v, f)
    /\ Weighed(v, f) /\ Flagged(v, f) /\ Misroutes(v, f)

(* A consumed one.                                                         *)
Done(v, f) ==
    /\ f \in FlitType
    /\ v.routing # "car" \/ v.usage = "BASE" => f.hopCount <= 8
    /\ v.routing \in Weighing =>
          /\ ~f.byVal => f.hopCount = f.minLen
          /\ f.byVal /\ v.routing \in WeighsBoth => f.hopCount <= f.valLen

IInv ==
    /\ variant \in Variants
    /\ state \in [Packets -> {"source", "network", "consumed"}]
    /\ DOMAIN flit = Packets
    /\ \A p \in Packets :
          /\ state[p] = "source" => flit[p] = NoFlit
          /\ state[p] = "network" => Net(variant, flit[p])
          /\ state[p] = "consumed" => Done(variant, flit[p])

-----------------------------------------------------------------------------
(* The tables are those of Dragonfly, in the layout this module is about.  *)
D == INSTANCE DragonflyProofs WITH
         LocalChannels <- 12, GlobalChannels <- 12,
         Traffic <- [pair \in BOOLEAN \X Packets |-> {}],
         palm <- FALSE, routing <- "min", reactive <- FALSE

LEMMA SameNames ==
  /\ D!Switches = Switches /\ D!Nodes = Nodes /\ D!Groups = Groups
  /\ D!Ports = Ports /\ D!LinkPorts = LinkPorts
  /\ D!LocalOffset = LocalOffset /\ D!GlobalOffset = GlobalOffset
  /\ \A n : /\ D!SwitchOf(n) = SwitchOf(n) /\ D!hPos(n) = hPos(n)
            /\ D!aPos(n) = aPos(n) /\ D!PortType(n) = PortType(n)
  BY DEF D!Switches, Switches, D!Nodes, Nodes, D!Groups, Groups, D!Ports, Ports,
         D!LinkPorts, LinkPorts, D!LocalOffset, LocalOffset, D!GlobalOffset,
         GlobalOffset, D!SwitchOf, SwitchOf, D!hPos, hPos, D!aPos, aPos,
         D!PortType, PortType

LEMMA SameLinks ==
  \A h, g : D!GroupLink(FALSE, h, g) = GroupLink(FALSE, h, g)
  BY DEF D!GroupLink, GroupLink

LEMMA SameTables ==
  /\ D!neighList[FALSE] = neighList[FALSE]
  /\ \A s \in Switches, port \in LinkPorts :
        D!neighPort[FALSE][s][port] = neighPort[FALSE][s][port]
  /\ D!minTable[FALSE] = minTable[FALSE]
  /\ \A s, n : /\ D!NextA(FALSE, s, n) = NextA(FALSE, s, n)
               /\ D!MinOutputPort(FALSE, s, n) = MinOutputPort(FALSE, s, n)
  /\ \A src, dest : D!MinPathLength(src, dest) = MinPathLength(src, dest)
<1>1. \A s, port : D!Neighbor(FALSE, s, port) = Neighbor(FALSE, s, port)
  BY SameNames DEF D!Neighbor, Neighbor
<1>2. \A s, n : D!NextA(FALSE, s, n) = NextA(FALSE, s, n)
  BY SameNames, SameLinks, Zenon DEF D!NextA, NextA
<1>3. \A s, n : D!MinOutputPort(FALSE, s, n) = MinOutputPort(FALSE, s, n)
  BY <1>2, SameNames, SameLinks, Zenon DEF D!MinOutputPort, MinOutputPort, D!LocalPort, LocalPort
<1>4. \A s, n : D!MinInputPort(FALSE, s, n) = MinInputPort(FALSE, s, n)
  BY <1>2, SameNames, SameLinks, Zenon DEF D!MinInputPort, MinInputPort, D!LocalPort, LocalPort
<1>5. D!neighList[FALSE] = neighList[FALSE]
  BY <1>1, SameNames DEF D!neighList, neighList
<1>6. \A s \in Switches, port \in LinkPorts :
          D!neighPort[FALSE][s][port] = neighPort[FALSE][s][port]
  <2> SUFFICES ASSUME NEW s \in Switches, NEW port \in LinkPorts
               PROVE  D!neighPort[FALSE][s][port] = neighPort[FALSE][s][port]
    OBVIOUS
  <2> DEFINE node == neighList[FALSE][s][port] * P
  <2>1. D!neighPort[FALSE][s][port] = D!MinInputPort(FALSE, s, D!neighList[FALSE][s][port] * P)
    BY SameNames DEF D!neighPort
  <2>2. neighPort[FALSE][s][port] = MinInputPort(FALSE, s, node)
    BY DEF neighPort
  <2>3. D!neighList[FALSE][s][port] * P = node
    BY <1>5, Zenon
  <2> HIDE DEF node
  <2>4. D!MinInputPort(FALSE, s, node) = MinInputPort(FALSE, s, node)
    BY <1>4, Zenon
  <2> QED BY <2>1, <2>2, <2>3, <2>4, Zenon
<1>7. D!minTable[FALSE] = minTable[FALSE]
  BY <1>3, SameNames DEF D!minTable, minTable
<1>8. \A src, dest : D!MinPathLength(src, dest) = MinPathLength(src, dest)
  BY SameNames DEF D!MinPathLength, MinPathLength
<1> QED BY <1>2, <1>3, <1>5, <1>6, <1>7, <1>8

LEMMA UpTo ==
  ASSUME NEW n \in Nat, NEW S \in SUBSET (1..n)
  PROVE  IsFiniteSet(S) /\ Cardinality(S) \in 0..n
<1>1. IsFiniteSet(1..n) /\ Cardinality(1..n) = IF 1 > n THEN 0 ELSE n - 1 + 1
  BY FS_Interval
<1>2. IsFiniteSet(S) /\ Cardinality(S) <= Cardinality(1..n)
  BY <1>1, FS_Subset
<1>3. Cardinality(S) \in Nat
  BY <1>2, FS_CardinalityType
<1> QED BY <1>1, <1>2, <1>3

LEMMA TableAssumptions ==
  /\ D!SizeAssumption /\ D!ChannelsAssumption
  /\ D!TrafficAssumption /\ D!LengthsAssumption
<1>1. D!SizeAssumption /\ D!ChannelsAssumption
  BY SizeAssumption DEF SizeAssumption, D!SizeAssumption, D!ChannelsAssumption
<1>2. D!TrafficAssumption
  BY DEF D!TrafficAssumption
<1>3. ASSUME NEW r \in D!Routings, NEW kind
      PROVE  Cardinality({i \in DOMAIN D!typeVc[r] : D!typeVc[r][i] = kind}) \in 0..6
  <2> DEFINE S == {i \in DOMAIN D!typeVc[r] : D!typeVc[r][i] = kind}
  <2>1. DOMAIN D!typeVc[r] = DOMAIN D!hopSeq[r]
    BY DEF D!typeVc, D!hopSeq, D!Routings
  <2>2. DOMAIN D!hopSeq[r] \subseteq 1..6
    BY DEF D!hopSeq, D!Routings
  <2>3. S \subseteq 1..6
    BY <2>1, <2>2
  <2> HIDE DEF S
  <2>5. Cardinality(S) \in 0..6
    BY <2>3, UpTo
  <2> QED BY <2>5 DEF S
<1>4. \A S : D!Cardinality(S) = Cardinality(S)
  BY Zenon DEF D!Cardinality, Cardinality
<1>5. ASSUME NEW r \in D!Routings, NEW kind
      PROVE  12 >= 2 * D!Cardinality({i \in DOMAIN D!typeVc[r] : D!typeVc[r][i] = kind})
  <2> DEFINE S == {i \in DOMAIN D!typeVc[r] : D!typeVc[r][i] = kind}
  <2>1. Cardinality(S) \in 0..6 /\ D!Cardinality(S) = Cardinality(S)
    BY <1>3, <1>4
  <2> HIDE DEF S
  <2>2. 12 >= 2 * D!Cardinality(S)
    BY <2>1
  <2> QED BY <2>2 DEF S
<1> QED BY <1>1, <1>2, <1>5 DEF D!LengthsAssumption
-----------------------------------------------------------------------------
(* What a link of a switch leads to.                                       *)
Crosses(s, port) ==
    LET next == Next_(s, port)
        entry == Entry(s, port)
    IN  /\ next \in Switches /\ entry \in LinkPorts /\ PortType(entry) = PortType(port)
        /\ PortType(port) \in {"local", "global"}
        /\ PortType(port) = "local" => hPos(next) = hPos(s) /\ next # s
        /\ PortType(port) = "global" => hPos(next) # hPos(s)

(* A link of a switch by its number: the local one to router c, or the     *)
(* global one to group g.                                                  *)
LEMMA LinkByEnd ==
  ASSUME NEW s \in Switches, NEW port \in LinkPorts
  PROVE  \/ /\ PortType(port) = "local"
            /\ \E c \in 0..(A - 1) : /\ c # aPos(s) /\ port = LocalPort(aPos(s), c)
                                     /\ Next_(s, port) = hPos(s) * A + c
                                     /\ hPos(Next_(s, port)) = hPos(s)
                                     /\ aPos(Next_(s, port)) = c
         \/ /\ PortType(port) = "global"
            /\ \E g \in Groups : /\ g # hPos(s) /\ hPos(Next_(s, port)) = g
                                 /\ GroupLink(FALSE, hPos(s), g) \div H = aPos(s)
                                 /\ port = GlobalOffset + (GroupLink(FALSE, hPos(s), g) % H)
<1> DEFINE no == FALSE
<1>0. no \in BOOLEAN
  OBVIOUS
<1>1. /\ PortType(port) \in {"local", "global"}
      /\ PortType(port) = "local" => \E k \in 0..(A - 2) : port = LocalOffset + k
      /\ PortType(port) = "global" => \E k \in 0..(H - 1) : port = GlobalOffset + k
  BY TableAssumptions, SameNames, D!PortKinds
<1>2. hPos(s) \in Groups /\ aPos(s) \in 0..(A - 1)
  BY TableAssumptions, SameNames, D!SwitchParts
<1>3. CASE PortType(port) = "local"
  <2>1. PICK k \in 0..(A - 2) : port = LocalOffset + k
    BY <1>1, <1>3
  <2> DEFINE c == IF k >= aPos(s) THEN k + 1 ELSE k
  <2>2. c \in 0..(A - 1) /\ c # aPos(s) /\ port = LocalPort(aPos(s), c)
    BY <1>2, <2>1, SizeAssumption DEF LocalPort, SizeAssumption, LocalOffset
  <2> HIDE DEF c, no
  <2>3. D!LocalPort(aPos(s), c) = LocalPort(aPos(s), c)
    BY SameNames DEF D!LocalPort, LocalPort
  <2>4. LET t == hPos(s) * A + c
        IN  hPos(t) = hPos(s) /\ aPos(t) = c /\ D!neighList[no][s][port] = t
    BY <1>0, <2>2, <2>3, TableAssumptions, SameNames, D!LocalLink
  <2>5. Next_(s, port) = hPos(s) * A + c
    BY <2>4, SameTables DEF no, Next_
  <2> QED BY <1>3, <2>2, <2>4, <2>5
<1>4. CASE PortType(port) = "global"
  <2>1. PICK k \in 0..(H - 1) : port = GlobalOffset + k
    BY <1>1, <1>4
  <2> DEFINE link == aPos(s) * H + k
             g == D!OtherGroup(no, hPos(s), link)
  <2> HIDE DEF no
  <2>2. link \in D!GroupLinks /\ link \div H = aPos(s) /\ link % H = k
    BY <1>2, <2>1, TableAssumptions, D!LinkOfPort
  <2> HIDE DEF link
  <2>3. g \in Groups /\ g # hPos(s) /\ D!GroupLink(no, hPos(s), g) = link
    BY <1>0, <1>2, <2>2, TableAssumptions, SameNames, D!GroupLinkFrom
  <2> HIDE DEF g
  <2>4. hPos(D!neighList[no][s][GlobalOffset + (link % H)]) = g
    <3>1. s \in D!Switches /\ g \in D!Groups /\ g # D!hPos(s)
          /\ D!GroupLink(no, D!hPos(s), g) \div H = D!aPos(s)
      BY <2>2, <2>3, SameNames
    <3> DEFINE t == g * A + (D!GroupLink(no, g, D!hPos(s)) \div H)
    <3>2. /\ D!hPos(t) = g
          /\ D!neighList[no][s][D!GlobalOffset + (D!GroupLink(no, D!hPos(s), g) % H)] = t
      BY <1>0, <3>1, TableAssumptions, D!GlobalLink
    <3> HIDE DEF t
    <3> QED BY <2>3, <3>2, SameNames
  <2>5. GroupLink(FALSE, hPos(s), g) = link
    BY <2>3, SameLinks DEF no
  <2>6. hPos(Next_(s, port)) = g
    BY <2>1, <2>2, <2>4, SameTables DEF no, Next_
  <2> QED BY <1>4, <2>1, <2>2, <2>3, <2>5, <2>6
<1> QED BY <1>1, <1>3, <1>4

LEMMA Link ==
  ASSUME NEW s \in Switches, NEW port \in LinkPorts
  PROVE  Crosses(s, port)
<1> DEFINE no == FALSE
<1>0. no \in BOOLEAN
  OBVIOUS
<1>1. D!neighList[FALSE] = neighList[FALSE]
      /\ D!neighPort[FALSE][s][port] = neighPort[FALSE][s][port]
  BY SameTables
<1>2. /\ D!neighList[no][s][port] = Next_(s, port)
      /\ D!neighPort[no][s][port] = neighPort[FALSE][s][port]
  BY <1>1 DEF Next_
<1> HIDE DEF no
<1>3. D!LeadsBack(no, s, port)
  BY <1>0, TableAssumptions, SameNames, D!LinksBothWays
<1>4. /\ Next_(s, port) \in Switches /\ neighPort[FALSE][s][port] \in LinkPorts
      /\ PortType(neighPort[FALSE][s][port]) = PortType(port)
  BY <1>2, <1>3, SameNames DEF D!LeadsBack
<1> QED BY <1>4, LinkByEnd DEF Crosses, Entry

-----------------------------------------------------------------------------
(* The minimal path.                                                       *)
LEMMA TableEntry ==
  ASSUME NEW s \in Switches, NEW n \in Nodes
  PROVE  minTable[FALSE][s][n] = Toward(s, n)
  BY DEF minTable, Toward

LEMMA NodeSwitch ==
  ASSUME NEW n \in Nodes
  PROVE  SwitchOf(n) \in Switches /\ n % P \in Ports /\ PortType(n % P) = "node"
<1>1. SwitchOf(n) \in Switches /\ n % P \in 0..(P - 1)
  BY TableAssumptions, SameNames, D!NodeParts
<1> QED BY <1>1, SizeAssumption DEF SizeAssumption, Ports, PortType, LocalOffset

(* The table leads one hop nearer, by a link of the kind that is due.      *)
Nearer(s, n) ==
    LET out == Toward(s, n)
        next == Next_(s, out)
        near == Near(s, n)
    IN  /\ near \in 0..3 /\ out \in Ports
        /\ near = 3 <=> s = SwitchOf(n)
        /\ PortType(out) = IF near = 3 THEN "node" ELSE IF near = 1 THEN "global" ELSE "local"
        /\ near # 3 => /\ out \in LinkPorts /\ next \in Switches
                       /\ Near(next, n) \in (near + 1)..3
                       /\ near = 0 => Near(next, n) = 1
                       /\ hPos(next) = IF near = 1 THEN Group(n) ELSE hPos(s)

LEMMA NearerNext ==
  ASSUME NEW s \in Switches, NEW n \in Nodes
  PROVE  Nearer(s, n)
<1> DEFINE no == FALSE
           out == Toward(s, n)
           next == Next_(s, out)
           near == Near(s, n)
<1>0. no \in BOOLEAN
  OBVIOUS
<1>1. \A x : D!Near(no, x, n) = Near(x, n)
  BY SameNames, SameTables DEF D!Near, Near, HasExit, Group
<1>2. D!minTable[no][s][n] = out /\ D!neighList[no][s][out] = next
  BY SameTables, TableEntry DEF Next_
<1> HIDE DEF no, out
<1>3. D!LeadsNearer(no, s, n)
  BY <1>0, TableAssumptions, SameNames, D!NearOfNext
<1>4. /\ near \in 0..3 /\ out \in Ports
      /\ near = 3 => PortType(out) = "node"
      /\ near # 3 =>
           /\ out \in LinkPorts
           /\ PortType(out) = IF near = 1 THEN "global" ELSE "local"
           /\ Near(next, n) \in (near + 1)..3
           /\ hPos(next) = hPos(IF near = 1 THEN SwitchOf(n) ELSE s)
  BY <1>1, <1>2, <1>3, SameNames DEF D!LeadsNearer
<1>5. near # 3 => next \in Switches
  BY <1>4, Link DEF Crosses
<1>6. near = 3 <=> s = SwitchOf(n)
  BY DEF Near
<1>7. near = 0 => Near(next, n) = 1
  <2>1. near = 0 => hPos(s) # Group(n)
    BY DEF Near
  <2>2. hPos(next) # Group(n) => Near(next, n) \in {0, 1}
    BY DEF Near, Group
  <2> HIDE DEF near, next
  <2> QED BY <1>4, <2>1, <2>2
<1> HIDE DEF near, next
<1> QED BY <1>4, <1>5, <1>6, <1>7 DEF Nearer, out, next, near, Group

(* The hops to a node.                                                     *)
Counted(s, n) ==
    LET next == Next_(s, Toward(s, n))
    IN  /\ HopsToDest(s, n) \in 0..3
        /\ HopsToDest(s, n) = 0 <=> s = SwitchOf(n)
        /\ s # SwitchOf(n) => HopsToDest(next, n) = HopsToDest(s, n) - 1

LEMMA HopsCounted ==
  ASSUME NEW s \in Switches, NEW n \in Nodes
  PROVE  Counted(s, n)
<1> DEFINE t == SwitchOf(n)
           S(x) == IF x = t THEN x ELSE Next_(x, minTable[FALSE][x][n])
           On(x) == Next_(x, Toward(x, n))
<1>1. ASSUME NEW x
      PROVE  HopsToDest(x, n) = IF x = t THEN 0 ELSE IF S(x) = t THEN 1
                                ELSE IF S(S(x)) = t THEN 2 ELSE 3
  BY DEF HopsToDest
<1>2. \A x \in Switches : S(x) = IF x = t THEN x ELSE On(x)
  BY TableEntry
<1>3. \A x \in Switches : Nearer(x, n)
  BY NearerNext
<1>4. \A x \in Switches : x # t => /\ On(x) \in Switches
                                   /\ Near(On(x), n) \in (Near(x, n) + 1)..3
                                   /\ Near(x, n) \in 0..2
                                   /\ Near(x, n) = 0 => Near(On(x), n) = 1
  <2> SUFFICES ASSUME NEW x \in Switches, x # t
               PROVE  /\ On(x) \in Switches
                      /\ Near(On(x), n) \in (Near(x, n) + 1)..3
                      /\ Near(x, n) \in 0..2
                      /\ Near(x, n) = 0 => Near(On(x), n) = 1
    OBVIOUS
  <2>1. Nearer(x, n)
    BY <1>3
  <2>2. Near(x, n) \in 0..3 /\ Near(x, n) # 3
    BY <2>1 DEF Nearer
  <2> QED BY <2>1, <2>2 DEF Nearer
<1>5. \A x \in Switches : Near(x, n) = 3 <=> x = t
  BY DEF Near
<1> HIDE DEF S, t, On
<1>6. CASE s = t
  BY <1>1, <1>6 DEF Counted, t
<1>7. CASE s # t
  <2> DEFINE u == On(s)
             w == On(u)
  <2>1. u \in Switches /\ S(s) = u
    BY <1>2, <1>4, <1>7
  <2>2. S(u) = IF u = t THEN t ELSE w
    BY <1>2, <2>1
  <2>3. u # t => w \in Switches /\ S(w) = (IF w = t THEN w ELSE On(w))
    BY <1>2, <1>4, <2>1
  <2>4. u # t /\ w # t => S(w) = t
    <3> SUFFICES ASSUME u # t, w # t PROVE On(w) = t
      BY <2>3
    <3>1. Near(w, n) \in (Near(u, n) + 1)..3 /\ Near(u, n) \in (Near(s, n) + 1)..3
          /\ Near(s, n) \in 0..2 /\ Near(u, n) \in 0..2 /\ Near(w, n) \in 0..2
      BY <1>4, <1>7, <2>1, <2>3
    <3>2. Near(On(w), n) \in (Near(w, n) + 1)..3 /\ On(w) \in Switches
      BY <1>4, <2>3
    <3>3. Near(On(w), n) = 3
      BY <3>1, <3>2
    <3> QED BY <1>5, <3>2, <3>3
  <2> HIDE DEF u, w
  <2>5. HopsToDest(s, n) = IF u = t THEN 1 ELSE IF w = t THEN 2 ELSE 3
    BY <1>1, <1>7, <2>1, <2>2
  <2>6. HopsToDest(u, n) = IF u = t THEN 0 ELSE IF w = t THEN 1 ELSE 2
    BY <1>1, <2>2, <2>4
  <2> QED BY <1>7, <2>5, <2>6 DEF Counted, t, u, On
<1> QED BY <1>6, <1>7

(* MinPathLength, worked out from the links, is that number.               *)
LEMMA MinPathHops ==
  ASSUME NEW src \in Nodes, NEW dest \in Nodes
  PROVE  MinPathLength(src, dest) = HopsToDest(SwitchOf(src), dest)
<1> DEFINE no == FALSE
           L(x) == D!HopsLeft(no, x, dest)
           On(x) == Next_(x, Toward(x, dest))
           t == SwitchOf(dest)
<1>0. no \in BOOLEAN /\ ~no
  OBVIOUS
<1>1. \A x \in Switches : D!neighList[no][x][D!minTable[no][x][dest]] = On(x)
  BY SameTables, TableEntry DEF Next_
<1>2. L(t) = 0
  BY SameNames DEF D!HopsLeft
<1> HIDE DEF no
<1>3. D!MinPathLength(src, dest) = L(SwitchOf(src))
  BY <1>0, TableAssumptions, SameNames, D!PathLength
<1>4. \A x \in Switches : x # t => D!OneLess(no, x, dest)
  BY <1>0, TableAssumptions, SameNames, D!OneHopLess
<1>5. \A x \in Switches : x # t => L(x) \in 1..3 /\ L(On(x)) = L(x) - 1
  BY <1>1, <1>4 DEF D!OneLess
<1>6. \A x \in Switches : Counted(x, dest)
  BY HopsCounted
<1>7. \A x \in Switches : x # t => On(x) \in Switches
  BY NearerNext DEF Nearer, Near
<1> HIDE DEF L, t, On
<1>8. \A x \in Switches : /\ HopsToDest(x, dest) \in 0..3
                          /\ HopsToDest(x, dest) = 0 <=> x = t
                          /\ x # t => HopsToDest(On(x), dest) = HopsToDest(x, dest) - 1
  BY <1>6 DEF Counted, t, On
<1>9. \A k \in 0..3 : \A x \in Switches : HopsToDest(x, dest) = k => L(x) = k
  <2>1. \A x \in Switches : HopsToDest(x, dest) = 0 => L(x) = 0
    BY <1>2, <1>8
  <2>2. ASSUME NEW k \in 0..2, \A x \in Switches : HopsToDest(x, dest) = k => L(x) = k
        PROVE  \A x \in Switches : HopsToDest(x, dest) = k + 1 => L(x) = k + 1
    <3> SUFFICES ASSUME NEW x \in Switches, HopsToDest(x, dest) = k + 1
                 PROVE  L(x) = k + 1
      OBVIOUS
    <3>1. x # t
      BY <1>8
    <3>2. On(x) \in Switches /\ HopsToDest(On(x), dest) = k
      BY <1>7, <1>8, <3>1
    <3>3. L(On(x)) = k /\ L(x) \in 1..3 /\ L(On(x)) = L(x) - 1
      BY <1>5, <2>2, <3>1, <3>2
    <3> QED BY <3>3
  <2>3. /\ \A x \in Switches : HopsToDest(x, dest) = 0 + 1 => L(x) = 0 + 1
        /\ \A x \in Switches : HopsToDest(x, dest) = 1 + 1 => L(x) = 1 + 1
        /\ \A x \in Switches : HopsToDest(x, dest) = 2 + 1 => L(x) = 2 + 1
    BY <2>1, <2>2
  <2> QED BY <2>1, <2>3
<1>10. SwitchOf(src) \in Switches
  BY NodeSwitch
<1>11. MinPathLength(src, dest) = D!MinPathLength(src, dest)
  BY SameTables
<1> QED BY <1>3, <1>8, <1>9, <1>10, <1>11

(* Only one router of a group has the link to another one, and a way round *)
(* by a router of the group is no shorter.                                 *)
LEMMA Exit ==
  ASSUME NEW s \in Switches, NEW t \in Switches, hPos(s) = hPos(t), NEW n \in Nodes,
         Near(s, n) = 1, Near(t, n) = 1
  PROVE  s = t
<1>1. HasExit(s, n) /\ HasExit(t, n)
  BY DEF Near
<1>2. hPos(s) # Group(n) /\ hPos(t) # Group(n)
  BY DEF Near
<1>3. NextA(FALSE, s, n) = NextA(FALSE, t, n)
  BY <1>2 DEF NextA, Group
<1>4. s = hPos(s) * A + aPos(s) /\ t = hPos(t) * A + aPos(t)
  BY TableAssumptions, SameNames, D!SwitchParts
<1> QED BY <1>1, <1>3, <1>4, Zenon DEF HasExit

LEMMA Roundabout ==
  ASSUME NEW s \in Switches, NEW t \in Switches, hPos(s) = hPos(t), NEW n \in Nodes
  PROVE  HopsToDest(s, n) <= 1 + HopsToDest(t, n)
<1> DEFINE On(x) == Next_(x, Toward(x, n))
<1>1. \A x \in Switches : Nearer(x, n) /\ Counted(x, n)
  BY NearerNext, HopsCounted
<1>2. \A x \in Switches :
         /\ Near(x, n) \in 0..3 /\ HopsToDest(x, n) \in 0..3
         /\ Near(x, n) = 3 => HopsToDest(x, n) = 0
         /\ Near(x, n) # 3 => /\ On(x) \in Switches
                              /\ HopsToDest(On(x), n) = HopsToDest(x, n) - 1
                              /\ Near(x, n) = 0 => Near(On(x), n) = 1 /\ hPos(On(x)) = hPos(x)
                              /\ Near(On(x), n) \in (Near(x, n) + 1)..3
  BY <1>1 DEF Nearer, Counted
<1>3. \A x \in Switches : Near(x, n) \in {2, 3} <=> hPos(x) = Group(n)
  BY DEF Near, Group
<1> HIDE DEF On
<1>4. CASE Near(s, n) = 3
  BY <1>2, <1>4
<1>5. CASE Near(s, n) = 2
  <2>1. Near(On(s), n) = 3 /\ On(s) \in Switches
    BY <1>2, <1>5
  <2>2. HopsToDest(s, n) = 1
    BY <1>2, <1>5, <2>1
  <2> QED BY <1>2, <2>2
<1>6. CASE Near(s, n) = 1
  <2>1. Near(t, n) \in {0, 1}
    BY <1>2, <1>3, <1>6
  <2>2. CASE Near(t, n) = 1
    BY <1>2, <1>6, <2>2, Exit
  <2>3. CASE Near(t, n) = 0
    <3>1. On(t) = s
      BY <1>2, <1>6, <2>3, Exit
    <3> QED BY <1>2, <2>3, <3>1
  <2> QED BY <2>1, <2>2, <2>3
<1>7. CASE Near(s, n) = 0
  <2>1. Near(t, n) \in {0, 1}
    BY <1>2, <1>3, <1>7
  <2>2. CASE Near(t, n) = 1
    <3>1. On(s) = t
      BY <1>2, <1>7, <2>2, Exit
    <3> QED BY <1>2, <1>7, <3>1
  <2>3. CASE Near(t, n) = 0
    <3>1. On(s) = On(t)
      BY <1>2, <1>7, <2>3, Exit
    <3> QED BY <1>2, <1>7, <2>3, <3>1
  <2> QED BY <2>1, <2>2, <2>3
<1> QED BY <1>2, <1>4, <1>5, <1>6, <1>7

(* A link off the minimal path: a local one leads no nearer to the group,  *)
(* or to the node in it, and a global one does not lead to the group.      *)
OffPath(s, port, n) ==
    LET next == Next_(s, port)
    IN  /\ PortType(port) = "local" => Near(next, n) = IF Near(s, n) \in {0, 1} THEN 0 ELSE 2
        /\ PortType(port) = "global" /\ hPos(s) # Group(n) => hPos(next) # Group(n)

LEMMA LinkOffPath ==
  ASSUME NEW s \in Switches, NEW port \in LinkPorts, NEW n \in Nodes,
         port # Toward(s, n)
  PROVE  OffPath(s, port, n)
<1> DEFINE t == Next_(s, port)
           d == SwitchOf(n)
<1>1. t \in Switches /\ d \in Switches /\ Crosses(s, port)
  BY Link, NodeSwitch DEF Crosses
<1>2. CASE PortType(port) = "local"
  <2>1. PICK c \in 0..(A - 1) : /\ c # aPos(s) /\ port = LocalPort(aPos(s), c)
                                /\ hPos(t) = hPos(s) /\ aPos(t) = c
    BY <1>2, LinkByEnd
  <2>2. NextA(FALSE, s, n) # c
    BY <2>1 DEF MinOutputPort, Toward
  <2>3. CASE hPos(s) = Group(n)
    <3>1. NextA(FALSE, s, n) = aPos(d)
      BY <2>3 DEF NextA, Group
    <3>2. t # d
      BY <2>1, <2>2, <3>1
    <3>3. Near(t, n) = 2 /\ Near(s, n) \in {2, 3}
      BY <2>1, <2>3, <3>2 DEF Near
    <3> QED BY <1>2, <3>3 DEF OffPath
  <2>4. CASE hPos(s) # Group(n)
    <3>1. NextA(FALSE, t, n) = NextA(FALSE, s, n)
      BY <2>1, <2>4 DEF NextA, Group
    <3>2. Near(t, n) = 0
      <4>1. ~HasExit(t, n) /\ hPos(t) # Group(n)
        BY <2>1, <2>2, <2>4, <3>1 DEF HasExit
      <4> QED BY <4>1 DEF Near, Group
    <3>3. Near(s, n) \in {0, 1}
      BY <2>4 DEF Near, Group
    <3> QED BY <1>2, <3>2, <3>3 DEF OffPath
  <2> QED BY <2>3, <2>4
<1>3. CASE PortType(port) = "global"
  <2>1. PICK g \in Groups : /\ g # hPos(s) /\ hPos(t) = g
                            /\ GroupLink(FALSE, hPos(s), g) \div H = aPos(s)
                            /\ port = GlobalOffset + (GroupLink(FALSE, hPos(s), g) % H)
    BY <1>3, LinkByEnd
  <2>2. g # Group(n)
    <3> SUFFICES ASSUME g = Group(n) PROVE FALSE
      OBVIOUS
    <3>1. NextA(FALSE, s, n) = aPos(s)
      BY <2>1 DEF NextA, Group
    <3>2. Toward(s, n) = port
      BY <2>1, <3>1 DEF MinOutputPort, Toward, Group
    <3> QED BY <3>2
  <2> QED BY <1>3, <2>1, <2>2 DEF OffPath
<1> QED BY <1>1, <1>2, <1>3 DEF Crosses

-----------------------------------------------------------------------------
(* The sequences of hops: how long they are, and where their global hops   *)
(* are.                                                                    *)
Classes == {"local", "global", "opplocal", "oppglobal"}

HopsIn5 == {"ugal", "pb", "minCond", "olm"}
HopsIn6 == {"pbAny", "obl", "acor", "srcAdp", "pbAcor"}
HopsIn7 == {"par", "car", "olmFlex"}

Length(r) == IF r \in HopsIn5 THEN 5 ELSE IF r \in HopsIn6 THEN 6 ELSE 7
GlobalAt(r) == IF r \in HopsIn5 THEN {2, 4} ELSE IF r \in HopsIn6 THEN {2, 5} ELSE {3, 6}

LEMMA Sequences ==
  /\ \A r \in HopsIn5 \cup HopsIn6 \cup HopsIn7 : r \in DOMAIN hopSeq
  /\ \A r \in HopsIn5 : hopSeq[r] = <<"local", "global", "local", "global", "local">>
  /\ \A r \in {"pbAny", "obl", "acor"} :
        hopSeq[r] = <<"local", "global", "local", "local", "global", "local">>
  /\ \A r \in {"srcAdp", "pbAcor"} :
        hopSeq[r] = <<"local", "oppglobal", "local", "local", "global", "local">>
  /\ hopSeq["par"] = <<"local", "local", "global", "local", "local", "global", "local">>
  /\ \A r \in {"car", "olmFlex"} :
        hopSeq[r] = <<"local", "opplocal", "oppglobal", "opplocal", "local", "global", "local">>
BY DEF hopSeq, HopsIn5, HopsIn6, HopsIn7

(* The sequence of a routing: what its hops are like.                      *)
Sequenced(r) ==
    /\ hopSeq[r] \in Seq(Classes) /\ Len(hopSeq[r]) = Length(r)
    /\ \A i \in 1..Length(r) :
          KindOf(hopSeq[r][i]) = IF i \in GlobalAt(r) THEN "global" ELSE "local"

LEMMA HopSequences ==
  ASSUME NEW r \in HopsIn5 \cup HopsIn6 \cup HopsIn7
  PROVE  r \in DOMAIN hopSeq /\ Sequenced(r)
<1>1. /\ KindOf("local") = "local" /\ KindOf("opplocal") = "local"
      /\ KindOf("global") = "global" /\ KindOf("oppglobal") = "global"
  BY DEF KindOf
<1>0. r \in DOMAIN hopSeq
  BY Sequences
<1>2. CASE r \in HopsIn5
  <2> DEFINE q == <<"local", "global", "local", "global", "local">>
  <2>1. hopSeq[r] = q
    BY <1>2, Sequences
  <2>2. Length(r) = 5 /\ GlobalAt(r) = {2, 4}
    BY <1>2 DEF Length, GlobalAt, HopsIn5, HopsIn6, HopsIn7
  <2>3. q \in Seq(Classes) /\ Len(q) = 5
    BY DEF Classes
  <2>4. q[1] = "local" /\ q[2] = "global" /\ q[3] = "local" /\ q[4] = "global"
        /\ q[5] = "local"
    OBVIOUS
  <2> HIDE DEF q
  <2>5. \A i \in 1..5 : KindOf(q[i]) = IF i \in {2, 4} THEN "global" ELSE "local"
    <3>1. \A i \in 1..5 : i = 1 \/ i = 2 \/ i = 3 \/ i = 4 \/ i = 5
      OBVIOUS
    <3> QED BY <1>1, <2>4, <3>1
  <2> QED BY <1>0, <2>1, <2>2, <2>3, <2>5 DEF Sequenced
<1>3. CASE r \in {"pbAny", "obl", "acor"}
  <2> DEFINE q == <<"local", "global", "local", "local", "global", "local">>
  <2>1. hopSeq[r] = q
    BY <1>3, Sequences
  <2>2. Length(r) = 6 /\ GlobalAt(r) = {2, 5}
    BY <1>3 DEF Length, GlobalAt, HopsIn5, HopsIn6, HopsIn7
  <2>3. q \in Seq(Classes) /\ Len(q) = 6
    BY DEF Classes
  <2>4. q[1] = "local" /\ q[2] = "global" /\ q[3] = "local" /\ q[4] = "local"
        /\ q[5] = "global" /\ q[6] = "local"
    OBVIOUS
  <2> HIDE DEF q
  <2>5. \A i \in 1..6 : KindOf(q[i]) = IF i \in {2, 5} THEN "global" ELSE "local"
    <3>1. \A i \in 1..6 : i = 1 \/ i = 2 \/ i = 3 \/ i = 4 \/ i = 5 \/ i = 6
      OBVIOUS
    <3> QED BY <1>1, <2>4, <3>1
  <2> QED BY <1>0, <2>1, <2>2, <2>3, <2>5 DEF Sequenced
<1>4. CASE r \in {"srcAdp", "pbAcor"}
  <2> DEFINE q == <<"local", "oppglobal", "local", "local", "global", "local">>
  <2>1. hopSeq[r] = q
    BY <1>4, Sequences
  <2>2. Length(r) = 6 /\ GlobalAt(r) = {2, 5}
    BY <1>4 DEF Length, GlobalAt, HopsIn5, HopsIn6, HopsIn7
  <2>3. q \in Seq(Classes) /\ Len(q) = 6
    BY DEF Classes
  <2>4. q[1] = "local" /\ q[2] = "oppglobal" /\ q[3] = "local" /\ q[4] = "local"
        /\ q[5] = "global" /\ q[6] = "local"
    OBVIOUS
  <2> HIDE DEF q
  <2>5. \A i \in 1..6 : KindOf(q[i]) = IF i \in {2, 5} THEN "global" ELSE "local"
    <3>1. \A i \in 1..6 : i = 1 \/ i = 2 \/ i = 3 \/ i = 4 \/ i = 5 \/ i = 6
      OBVIOUS
    <3> QED BY <1>1, <2>4, <3>1
  <2> QED BY <1>0, <2>1, <2>2, <2>3, <2>5 DEF Sequenced
<1>5. CASE r = "par"
  <2> DEFINE q == <<"local", "local", "global", "local", "local", "global", "local">>
  <2>1. hopSeq[r] = q
    BY <1>5, Sequences
  <2>2. Length(r) = 7 /\ GlobalAt(r) = {3, 6}
    BY <1>5 DEF Length, GlobalAt, HopsIn5, HopsIn6, HopsIn7
  <2>3. q \in Seq(Classes) /\ Len(q) = 7
    BY DEF Classes
  <2>4. q[1] = "local" /\ q[2] = "local" /\ q[3] = "global" /\ q[4] = "local"
        /\ q[5] = "local" /\ q[6] = "global" /\ q[7] = "local"
    OBVIOUS
  <2> HIDE DEF q
  <2>5. \A i \in 1..7 : KindOf(q[i]) = IF i \in {3, 6} THEN "global" ELSE "local"
    <3>1. \A i \in 1..7 : i = 1 \/ i = 2 \/ i = 3 \/ i = 4 \/ i = 5 \/ i = 6 \/ i = 7
      OBVIOUS
    <3> QED BY <1>1, <2>4, <3>1
  <2> QED BY <1>0, <2>1, <2>2, <2>3, <2>5 DEF Sequenced
<1>6. CASE r \in {"car", "olmFlex"}
  <2> DEFINE q == <<"local", "opplocal", "oppglobal", "opplocal", "local", "global", "local">>
  <2>1. hopSeq[r] = q
    BY <1>6, Sequences
  <2>2. Length(r) = 7 /\ GlobalAt(r) = {3, 6}
    BY <1>6 DEF Length, GlobalAt, HopsIn5, HopsIn6, HopsIn7
  <2>3. q \in Seq(Classes) /\ Len(q) = 7
    BY DEF Classes
  <2>4. q[1] = "local" /\ q[2] = "opplocal" /\ q[3] = "oppglobal" /\ q[4] = "opplocal"
        /\ q[5] = "local" /\ q[6] = "global" /\ q[7] = "local"
    OBVIOUS
  <2> HIDE DEF q
  <2>5. \A i \in 1..7 : KindOf(q[i]) = IF i \in {3, 6} THEN "global" ELSE "local"
    <3>1. \A i \in 1..7 : i = 1 \/ i = 2 \/ i = 3 \/ i = 4 \/ i = 5 \/ i = 6 \/ i = 7
      OBVIOUS
    <3> QED BY <1>1, <2>4, <3>1
  <2> QED BY <1>0, <2>1, <2>2, <2>3, <2>5 DEF Sequenced
<1> QED BY <1>2, <1>3, <1>4, <1>5, <1>6 DEF HopsIn6, HopsIn7

LEMMA LenOfFunction ==
  ASSUME NEW n \in Nat, NEW T, NEW q \in [1..n -> T]
  PROVE  q \in Seq(T) /\ Len(q) = n
<1>1. q \in Seq(T)
  BY IsASeq
<1>2. DOMAIN q = 1..Len(q) /\ Len(q) \in Nat /\ DOMAIN q = 1..n
  BY <1>1, LenProperties
<1> QED BY <1>1, <1>2

LEMMA HopTypes ==
  ASSUME NEW r \in HopsIn5 \cup HopsIn6 \cup HopsIn7
  PROVE  /\ DOMAIN typeVc[r] = 1..Length(r) /\ Len(typeVc[r]) = Length(r)
         /\ Length(r) \in 5..7
         /\ \A i \in 1..Length(r) :
               typeVc[r][i] = IF i \in GlobalAt(r) THEN "global" ELSE "local"
<1>1. /\ r \in DOMAIN hopSeq
      /\ DOMAIN hopSeq[r] = 1..Length(r)
      /\ \A i \in 1..Length(r) : KindOf(hopSeq[r][i]) = IF i \in GlobalAt(r) THEN "global" ELSE "local"
  BY HopSequences, LenProperties DEF Sequenced
<1>2. typeVc[r] = [i \in 1..Length(r) |-> KindOf(hopSeq[r][i])]
  BY <1>1 DEF typeVc
<1>3. Length(r) \in 5..7
  BY DEF Length
<1> HIDE DEF typeVc, hopSeq, Length, KindOf
<1>4. typeVc[r] \in [1..Length(r) -> {"local", "global"}]
  BY <1>1, <1>2
<1>5. Len(typeVc[r]) = Length(r)
  BY <1>3, <1>4, LenOfFunction
<1> QED BY <1>1, <1>2, <1>3, <1>5

(* The channels of the hops: as many as there are hops of a kind before,   *)
(* so each hop of a kind has one of its own, in increasing order.          *)
HopsOfKind(r, kind) == {i \in DOMAIN typeVc[r] : typeVc[r][i] = kind}
Later(r, i) == {j \in 1..Length(r) : j > i /\ typeVc[r][j] = typeVc[r][i]}

LEMMA FewerIn ==
  ASSUME NEW n \in Nat, NEW S \in SUBSET (1..n), NEW T \in SUBSET S, T # S
  PROVE  Cardinality(T) \in Nat /\ Cardinality(S) \in Nat /\ Cardinality(T) < Cardinality(S)
<1>1. /\ IsFiniteSet(S) /\ Cardinality(S) \in Nat
      /\ IsFiniteSet(T) /\ Cardinality(T) \in Nat
  <2>1. T \in SUBSET (1..n)
    OBVIOUS
  <2> QED BY <2>1, UpTo
<1>2. Cardinality(T) <= Cardinality(S) /\ (Cardinality(S) = Cardinality(T) => S = T)
  BY <1>1, FS_Subset
<1> QED BY <1>1, <1>2

Numbered(r, i) ==
    /\ petitionVc[r][i] \in Nat
    /\ petitionVc[r][i] < Cardinality(HopsOfKind(r, typeVc[r][i]))
    /\ \A j \in Later(r, i) : petitionVc[r][i] < petitionVc[r][j]

LEMMA HopNumbers ==
  ASSUME NEW r \in HopsIn5 \cup HopsIn6 \cup HopsIn7, NEW i \in 1..Length(r)
  PROVE  Numbered(r, i)
<1> DEFINE Earlier(l) == {j \in 1..(l - 1) : typeVc[r][j] = typeVc[r][l]}
           All == HopsOfKind(r, typeVc[r][i])
           n == Length(r)
<1>1. DOMAIN typeVc[r] = 1..n /\ n \in Nat /\ r \in DOMAIN hopSeq
  BY HopTypes, HopSequences
<1>2. \A l \in 1..n : petitionVc[r][l] = Cardinality(Earlier(l))
  BY <1>1 DEF petitionVc
<1>3. \A l \in 1..n : Earlier(l) \in SUBSET (1..n)
  BY <1>1
<1>4. All \in SUBSET (1..n)
  BY <1>1 DEF HopsOfKind
<1>5. Earlier(i) \in SUBSET All /\ Earlier(i) # All
  <2>1. i \in All /\ i \notin Earlier(i)
    BY <1>1 DEF HopsOfKind
  <2>2. Earlier(i) \in SUBSET All
    BY <1>1 DEF HopsOfKind
  <2> QED BY <2>1, <2>2
<1>6. \A j \in Later(r, i) : /\ j \in 1..n /\ Earlier(i) \in SUBSET Earlier(j)
                             /\ Earlier(i) # Earlier(j)
  <2> SUFFICES ASSUME NEW j \in Later(r, i)
               PROVE  /\ j \in 1..n /\ Earlier(i) \in SUBSET Earlier(j)
                      /\ Earlier(i) # Earlier(j)
    OBVIOUS
  <2>1. j \in 1..n /\ j > i /\ typeVc[r][j] = typeVc[r][i]
    BY DEF Later
  <2>2. i \in Earlier(j) /\ i \notin Earlier(i)
    BY <1>1, <2>1
  <2>3. Earlier(i) \in SUBSET Earlier(j)
    BY <1>1, <2>1
  <2> QED BY <2>1, <2>2, <2>3
<1> HIDE DEF Earlier, All, n
<1>7. Cardinality(Earlier(i)) \in Nat /\ Cardinality(Earlier(i)) < Cardinality(All)
  BY <1>1, <1>4, <1>5, FewerIn
<1>8. \A j \in Later(r, i) : Cardinality(Earlier(i)) < Cardinality(Earlier(j))
  BY <1>1, <1>3, <1>6, FewerIn
<1>9. \A j \in Later(r, i) : petitionVc[r][i] < petitionVc[r][j]
  BY <1>2, <1>6, <1>8 DEF n
<1> QED BY <1>2, <1>7, <1>9 DEF Numbered, All, n

(* A flit in the channel has made the i-th hop, or, for 0, none.           *)
Made(r, port, vc, i) ==
    HopsOf(r, petitionVc[r], port, vc) = IF i = 0 THEN {} ELSE {i}

Bases == HopsIn5 \cup HopsIn6 \cup {"par", "car"}

LEMMA HopMade ==
  ASSUME NEW r \in HopsIn5 \cup HopsIn6 \cup HopsIn7, NEW i \in 1..Length(r),
         NEW port, PortType(port) = typeVc[r][i], NEW vc, vc = petitionVc[r][i]
  PROVE  Made(r, port, vc, i)
<1>1. DOMAIN typeVc[r] = 1..Length(r) /\ Length(r) \in Nat
  BY HopTypes
<1>2. ASSUME NEW j \in HopsOf(r, petitionVc[r], port, vc)
      PROVE  j = i
  <2>1. j \in 1..Length(r) /\ typeVc[r][j] = typeVc[r][i] /\ petitionVc[r][j] = petitionVc[r][i]
    BY <1>1 DEF HopsOf
  <2>2. Numbered(r, i) /\ Numbered(r, j)
    BY <2>1, HopNumbers
  <2>3. j \notin Later(r, i) /\ i \notin Later(r, j)
    BY <2>1, <2>2 DEF Numbered
  <2> QED BY <1>1, <2>1, <2>3 DEF Later
<1>3. i \in HopsOf(r, petitionVc[r], port, vc) /\ i # 0
  BY <1>1 DEF HopsOf
<1> QED BY <1>2, <1>3 DEF Made

LEMMA NoHopAtNode ==
  ASSUME NEW r \in HopsIn5 \cup HopsIn6 \cup HopsIn7, NEW port, NEW vc, PortType(port) = "node"
  PROVE  Made(r, port, vc, 0)
<1>1. \A i \in DOMAIN typeVc[r] : typeVc[r][i] # "node"
  BY HopTypes
<1> QED BY <1>1 DEF HopsOf, Made

(* Channel vc is that of the first hop, the k-th, that an output may make  *)
(* after the i-th.                                                         *)
Follows(r, i, kind, vc, k) ==
    /\ k \in 1..Length(r) /\ i < k /\ typeVc[r][k] = kind /\ vc = petitionVc[r][k]
    /\ \A j \in 1..Length(r) : i < j /\ typeVc[r][j] = kind => k <= j

Nothing(r, i, kind, vc) ==
    vc = -1 /\ \A j \in 1..Length(r) : i < j => typeVc[r][j] # kind

LEMMA NextHop ==
  ASSUME NEW r \in HopsIn5 \cup HopsIn6 \cup HopsIn7, NEW port, NEW vc, NEW out,
         NEW i \in 0..Length(r), Made(r, port, vc, i)
  PROVE  \/ \E k \in 1..Length(r) :
               Follows(r, i, PortType(out), NextChannel(r, petitionVc[r], port, out, vc), k)
         \/ Nothing(r, i, PortType(out), NextChannel(r, petitionVc[r], port, out, vc))
<1> DEFINE aux == petitionVc[r]
           kind == PortType(out)
           later == {k \in DOMAIN typeVc[r] : /\ typeVc[r][k] = kind
                                              /\ \A l \in HopsOf(r, aux, port, vc) : k > l}
           first == CHOOSE k \in later : \A l \in later : k <= l
           c == NextChannel(r, aux, port, out, vc)
<1>1. DOMAIN typeVc[r] = 1..Length(r) /\ Length(r) \in Nat
  BY HopTypes
<1>2. \A k : k \in later <=> k \in 1..Length(r) /\ i < k /\ typeVc[r][k] = kind
  BY <1>1 DEF Made
<1>3. c = IF later = {} THEN -1 ELSE aux[first]
  BY DEF NextChannel
<1> HIDE DEF later, c
<1>4. CASE later = {}
  <2>1. Nothing(r, i, kind, c)
    BY <1>2, <1>3, <1>4 DEF Nothing
  <2> QED BY <2>1 DEF c
<1>5. CASE later # {}
  <2>1. later \in SUBSET Nat
    BY <1>1, <1>2
  <2>2. \E k \in later : \A l \in later : k <= l
    BY <1>5, <2>1, NatMinimum
  <2>3. first \in later /\ \A l \in later : first <= l
    BY <2>2
  <2> HIDE DEF first
  <2>4. Follows(r, i, kind, c, first) /\ first \in 1..Length(r)
    BY <1>2, <1>3, <1>5, <2>3 DEF Follows
  <2> QED BY <2>4 DEF c
<1> QED BY <1>4, <1>5

-----------------------------------------------------------------------------
(* The channels of vcMngmt and oppVcMngmt.                                 *)
LEMMA Configured ==
  ASSUME NEW v \in Variants
  PROVE  /\ v \in Configurations /\ Accepted(v) /\ EnoughChannels(v)
         /\ v.usage = "BASE" => Sequence(v) = v.routing
         /\ v.routing \in Bases /\ Routings = ByValiant \cup InTransit \cup {"car", "minCond"}
         /\ Sequence(v) \in HopsIn5 \cup HopsIn6 \cup HopsIn7
<1>1. v \in Configurations /\ Accepted(v) /\ EnoughChannels(v)
  BY VariantsAssumption, LengthsAssumption
<1>2. v.routing \in Routings
  BY <1>1 DEF Configurations
<1> QED BY <1>1, <1>2 DEF Routings, Sequence, Bases, HopsIn5, HopsIn6, HopsIn7, ByValiant, InTransit

Turned(f) == hPos(f.sw) = Group(f.src) /\ f.localDone

(* A flit that made the i-th hop may make the k-th by the output, in the   *)
(* channel; an opportunistic hop repeats one.                              *)
Repeats(v, f, out) ==
    /\ v.routing = "olm" /\ PortType(out) = "local"
    /\ Turned(f) \/ (out # MinPort(f) /\ PortType(f.port) # "node")

MayMake(v, f, i, out, vc, k) ==
    /\ k \in 1..Length(v.routing) /\ typeVc[v.routing][k] = PortType(out)
    /\ vc = petitionVc[v.routing][k] /\ vc \in Channels
    /\ IF Repeats(v, f, out) THEN k <= i
       ELSE Follows(v.routing, i, PortType(out), vc, k)

Continues(v, f, i, out) ==
    /\ \A vc \in NextChannels(v, f, out) :
          \E k \in 1..Length(v.routing) : MayMake(v, f, i, out, vc, k)
    /\ ~Repeats(v, f, out)
         /\ (\E j \in 1..Length(v.routing) : i < j /\ typeVc[v.routing][j] = PortType(out))
         => NextChannels(v, f, out) # {}

LEMMA AtHop ==
  ASSUME NEW v \in Variants, v.usage = "BASE", NEW f, NEW i, At(v, f, i),
         PortType(f.port) \in {"node", "local", "global"}
  PROVE  /\ i \in 0..Length(v.routing) /\ Made(v.routing, f.port, f.channel, i)
         /\ i # 0 => typeVc[v.routing][i] = PortType(f.port) /\ f.channel = petitionVc[v.routing][i]
         /\ i = 0 <=> AtInjection(f)
<1>1. v.routing \in HopsIn5 \cup HopsIn6 \cup HopsIn7
  BY Configured
<1>2. Len(typeVc[v.routing]) = Length(v.routing) /\ Length(v.routing) \in Nat
  BY <1>1, HopTypes
<1>3. CASE AtInjection(f)
  BY <1>1, <1>2, <1>3, NoHopAtNode DEF At, AtInjection
<1>4. CASE ~AtInjection(f)
  <2>1. /\ i \in 1..Length(v.routing) /\ typeVc[v.routing][i] = PortType(f.port)
        /\ f.channel = petitionVc[v.routing][i]
    BY <1>2, <1>4 DEF At
  <2> QED BY <1>1, <1>2, <1>4, <2>1, HopMade
<1> QED BY <1>3, <1>4

LEMMA ChannelThere ==
  ASSUME NEW v \in Variants, v.usage = "BASE", NEW k \in 1..Length(v.routing)
  PROVE  petitionVc[v.routing][k] \in Channels /\ petitionVc[v.routing][k] # -1
<1> DEFINE r == v.routing
           most(kind) == Cardinality(HopsOfKind(r, kind))
<1>1. r \in HopsIn5 \cup HopsIn6 \cup HopsIn7 /\ Sequence(v) = r /\ EnoughChannels(v)
  BY Configured
<1>2. /\ LocalChannels >= most("local") /\ GlobalChannels >= most("global")
  BY <1>1 DEF EnoughChannels, HopsOfKind
<1>3. Numbered(r, k)
  BY <1>1, HopNumbers
<1>4. DOMAIN typeVc[r] = 1..Length(r) /\ Length(r) \in Nat /\ typeVc[r][k] \in {"local", "global"}
  BY <1>1, HopTypes
<1>5. \A kind : most(kind) \in Nat
  <2> SUFFICES ASSUME NEW kind PROVE most(kind) \in Nat
    OBVIOUS
  <2>1. HopsOfKind(r, kind) \in SUBSET (1..Length(r))
    BY <1>4 DEF HopsOfKind
  <2> QED BY <1>4, <2>1, UpTo
<1>6. petitionVc[r][k] \in Nat /\ petitionVc[r][k] < most(typeVc[r][k])
  BY <1>3 DEF Numbered
<1> HIDE DEF most
<1>7. LocalChannels \in Nat /\ GlobalChannels \in Nat
  BY ChannelsAssumption
<1>8. petitionVc[r][k] < LocalChannels + GlobalChannels
  <2>1. CASE typeVc[r][k] = "local"
    BY <1>2, <1>5, <1>6, <1>7, <2>1
  <2>2. CASE typeVc[r][k] = "global"
    BY <1>2, <1>5, <1>6, <1>7, <2>2
  <2> QED BY <1>4, <2>1, <2>2
<1> QED BY <1>6, <1>7, <1>8 DEF Channels

LEMMA PortOfLink ==
  ASSUME NEW out \in LinkPorts
  PROVE  PortType(out) \in {"local", "global"} /\ out \in Ports
BY SizeAssumption DEF SizeAssumption, LinkPorts, PortType, LocalOffset, GlobalOffset, Ports

LEMMA HopOn ==
  ASSUME NEW v \in Variants, v.usage = "BASE", NEW f, NEW i, At(v, f, i),
         PortType(f.port) \in {"node", "local", "global"},
         v.routing = "olm" /\ f.localDone => PortType(f.port) = "local",
         NEW out \in LinkPorts
  PROVE  Continues(v, f, i, out)
<1> DEFINE r == v.routing
           kind == PortType(out)
           minimal == out = MinPort(f)
           c == NextChannel(r, petitionVc[r], f.port, out, f.channel)
           o == NextChannelOpp(r, f.port, out, f.channel, minimal, Turned(f))
<1>1. r \in HopsIn5 \cup HopsIn6 \cup HopsIn7 /\ Sequence(v) = r
  BY Configured
<1>2. /\ i \in 0..Length(r) /\ Made(r, f.port, f.channel, i)
      /\ i # 0 => typeVc[r][i] = PortType(f.port) /\ f.channel = petitionVc[r][i]
      /\ i = 0 <=> PortType(f.port) = "node"
  BY AtHop DEF AtInjection
<1>3. kind \in {"local", "global"}
  BY PortOfLink
<1>4. \/ \E k \in 1..Length(r) : Follows(r, i, kind, c, k)
      \/ Nothing(r, i, kind, c)
  BY <1>1, <1>2, NextHop
<1>5. NextChannels(v, f, out) = (IF r = "olm" THEN {o} ELSE {c}) \ {-1}
  BY <1>1, <1>3 DEF NextChannels, Turned
<1> HIDE DEF c, o, kind, minimal
<1>6. CASE ~Repeats(v, f, out)
  <2>1. NextChannels(v, f, out) = {c} \ {-1}
    <3>1. r = "olm" => o = c
      BY <1>6 DEF NextChannelOpp, Repeats, o, c, kind, minimal
    <3> QED BY <1>5, <3>1
  <2>2. CASE Nothing(r, i, kind, c)
    BY <1>6, <2>1, <2>2 DEF Nothing, Continues, kind
  <2>3. CASE \E k \in 1..Length(r) : Follows(r, i, kind, c, k)
    <3>1. PICK k \in 1..Length(r) : Follows(r, i, kind, c, k)
      BY <2>3
    <3>2. c = petitionVc[r][k] /\ c \in Channels /\ c # -1 /\ typeVc[r][k] = kind
      BY <3>1, ChannelThere DEF Follows
    <3>3. MayMake(v, f, i, out, c, k)
      BY <1>6, <3>1, <3>2 DEF MayMake, kind
    <3> QED BY <2>1, <3>2, <3>3 DEF Continues
  <2> QED BY <1>4, <2>2, <2>3
<1>7. CASE Repeats(v, f, out)
  <2>1. r = "olm" /\ kind = "local" /\ NextChannels(v, f, out) = {o} \ {-1} /\ i # 0
    BY <1>2, <1>5, <1>7 DEF Repeats, kind, Turned
  <2>2. \E k \in 1..Length(r) : k <= i /\ typeVc[r][k] = "local" /\ o = petitionVc[r][k]
    <3>1. CASE Turned(f)
      <4>1. o = f.channel /\ PortType(f.port) = "local"
        BY <2>1, <3>1 DEF NextChannelOpp, o, Turned, kind
      <4> QED BY <1>2, <2>1, <4>1
    <3>2. CASE ~Turned(f)
      <4> DEFINE before == {k \in DOMAIN typeVc[r] : typeVc[r][k] = "local"
                               /\ \A j \in HopsOf(r, petitionVc[r], f.port, f.channel) : k <= j}
                 last == CHOOSE k \in before : \A j \in before : k >= j
      <4>1. o = petitionVc[r][last]
        <5>1. PortType(out) = "local" /\ ~minimal /\ PortType(f.port) # "node"
          BY <1>7, <2>1, <3>2 DEF Repeats, kind, minimal
        <5> QED BY <3>2, <5>1 DEF NextChannelOpp, o
      <4>2. DOMAIN typeVc[r] = 1..Length(r) /\ Length(r) \in 5..7 /\ typeVc[r][1] = "local"
        <5>1. Length(r) \in 5..7 /\ 1 \notin GlobalAt(r)
          BY <2>1, HopTypes DEF GlobalAt, HopsIn5, Length
        <5> QED BY <1>1, <5>1, HopTypes
      <4>3. \A k : k \in before <=> k \in 1..Length(r) /\ k <= i /\ typeVc[r][k] = "local"
        BY <1>2, <2>1, <4>2 DEF Made
      <4> HIDE DEF before
      <4>4. 1 \in before /\ before \in SUBSET (1..Length(r))
        BY <1>2, <2>1, <4>2, <4>3
      <4>5. \E k \in before : \A j \in before : k >= j
        <5>0. Length(r) \in Nat /\ before # {}
          BY <4>2, <4>4
        <5>1. Max(before) \in before /\ \A j \in before : j <= Max(before)
          BY <4>4, <5>0, GreatestPlace
        <5>2. \A j \in before : j \in Int
          BY <4>3
        <5> QED BY <5>1, <5>2
      <4>6. last \in before
        BY <4>5
      <4> HIDE DEF last
      <4> QED BY <4>1, <4>3, <4>6
    <3> QED BY <3>1, <3>2
  <2>3. PICK k \in 1..Length(r) : k <= i /\ typeVc[r][k] = "local" /\ o = petitionVc[r][k]
    BY <2>2
  <2>4. o \in Channels
    BY <2>3, ChannelThere
  <2>5. MayMake(v, f, i, out, o, k)
    BY <1>7, <2>1, <2>3, <2>4 DEF MayMake, kind
  <2> QED BY <1>7, <2>1, <2>5 DEF Continues
<1> QED BY <1>6, <1>7

-----------------------------------------------------------------------------
(* The channels of flexVc and tbFlexVc.                                    *)
Flexible == {"obl", "acor", "srcAdp", "pbAcor", "car", "olmFlex"}

LEMMA FlexibleSequence ==
  ASSUME NEW v \in Variants, v.usage # "BASE"
  PROVE  Sequence(v) \in Flexible
BY Configured DEF Sequence, Accepted, Configurations, Routings, Flexible

(* An element of a finite set of numbers is the first, the second, ...     *)
LEMMA KthElement ==
  ASSUME NEW n \in Nat, NEW S \in SUBSET (1..n), NEW k \in 1..Cardinality(S)
  PROVE  \E i \in S : Cardinality(S \cap 1..i) = k
<1> DEFINE Upto(i) == S \cap 1..i
           enough == {i \in Nat : Cardinality(Upto(i)) >= k}
<1>1. \A i \in Nat : IsFiniteSet(Upto(i)) /\ Cardinality(Upto(i)) \in Nat
  <2> SUFFICES ASSUME NEW i \in Nat PROVE IsFiniteSet(Upto(i)) /\ Cardinality(Upto(i)) \in Nat
    OBVIOUS
  <2>1. Upto(i) \in SUBSET (1..n)
    OBVIOUS
  <2> QED BY <2>1, UpTo
<1>2. Cardinality(S) \in Nat
  BY UpTo
<1>3. Upto(n) = S
  OBVIOUS
<1>4. Upto(0) = {}
  OBVIOUS
<1>5. \A i \in Nat : i > 0 => Upto(i) = IF i \in S THEN Upto(i - 1) \cup {i} ELSE Upto(i - 1)
  OBVIOUS
<1>6. \A i \in Nat : i > 0 => i \notin Upto(i - 1)
  OBVIOUS
<1> HIDE DEF Upto
<1>7. n \in enough
  BY <1>2, <1>3
<1>8. PICK m \in enough : \A i \in enough : m <= i
  <2>1. enough \in SUBSET Nat /\ enough # {}
    BY <1>7
  <2> HIDE DEF enough
  <2> QED BY <2>1, NatMinimum
<1>9. m \in Nat /\ Cardinality(Upto(m)) >= k
  BY <1>8
<1>10. m > 0
  BY <1>4, <1>9, FS_EmptySet
<1>11. m - 1 \in Nat /\ Cardinality(Upto(m - 1)) < k
  <2>1. m - 1 \in Nat /\ m - 1 < m
    BY <1>9, <1>10
  <2>2. m - 1 \notin enough
    <3> HIDE DEF enough
    <3> QED BY <1>8, <1>9, <2>1
  <2> QED BY <1>1, <1>2, <2>1, <2>2
<1> HIDE DEF enough
<1> DEFINE now == Cardinality(Upto(m))
           was == Cardinality(Upto(m - 1))
<1>a. now \in Nat /\ was \in Nat /\ k \in Nat /\ now >= k /\ was < k
  BY <1>1, <1>2, <1>9, <1>11
<1>12. m \in S
  <2> SUFFICES ASSUME m \notin S PROVE FALSE
    OBVIOUS
  <2>1. Upto(m) = Upto(m - 1)
    BY <1>5, <1>9, <1>10
  <2>2. now = was
    BY <2>1, Zenon
  <2> HIDE DEF now, was
  <2> QED BY <1>a, <2>2
<1>13. Cardinality(Upto(m)) = Cardinality(Upto(m - 1)) + 1
  BY <1>1, <1>5, <1>6, <1>9, <1>10, <1>11, <1>12, FS_AddElement
<1>14. now = k
  <2> HIDE DEF now, was
  <2>1. now = was + 1
    BY <1>13 DEF now, was
  <2> QED BY <1>a, <2>1
<1> QED BY <1>12, <1>14 DEF Upto

LEMMA FlexibleHops ==
  ASSUME NEW r \in Flexible
  PROVE  /\ r \in DOMAIN hopSeq /\ DOMAIN hopSeq[r] = 1..Length(r) /\ Length(r) \in Nat
         /\ hopSeq[r][1] = "local" /\ 1 \in 1..Length(r)
<1>1. r \in HopsIn5 \cup HopsIn6 \cup HopsIn7
  BY DEF Flexible, HopsIn6, HopsIn7
<1>2. Sequenced(r) /\ r \in DOMAIN hopSeq /\ Length(r) \in 5..7
  BY <1>1, HopSequences, HopTypes
<1>3. DOMAIN hopSeq[r] = 1..Length(r)
  BY <1>2, LenProperties DEF Sequenced
<1>4. hopSeq[r][1] = "local"
  BY Sequences DEF Flexible
<1> QED BY <1>2, <1>3, <1>4

Both == {"local"} \cup GlobalClasses

(* The links have channels for all hops, the extra ones among them.        *)
Ample(r) == LocalChannels >= minLocalVCs(r) /\ GlobalChannels >= minGlobalVCs(r)

LEMMA HopsAmple ==
  ASSUME NEW r \in Flexible, Ample(r)
  PROVE  /\ extraLocal(r) \in Nat /\ extraGlobal(r) \in Nat
         /\ extraLocal(r) + extraGlobal(r) + Cardinality(HopsIn(r, Both))
               = LocalChannels + GlobalChannels
         /\ Cardinality(HopsIn(r, Both)) \in Nat
<1> DEFINE L == HopsIn(r, {"local"})
           G == HopsIn(r, GlobalClasses)
<1>1. L \in SUBSET (1..Length(r)) /\ G \in SUBSET (1..Length(r)) /\ Length(r) \in Nat
  BY FlexibleHops DEF HopsIn
<1>2. L \cap G = {} /\ L \cup G = HopsIn(r, Both)
  BY DEF HopsIn, GlobalClasses, Both
<1>3. /\ IsFiniteSet(L) /\ IsFiniteSet(G)
      /\ minLocalVCs(r) = Cardinality(L) /\ minGlobalVCs(r) = Cardinality(G)
      /\ Cardinality(L) \in Nat /\ Cardinality(G) \in Nat
  BY <1>1, UpTo DEF minLocalVCs, minGlobalVCs
<1> HIDE DEF L, G
<1>4. Cardinality(HopsIn(r, Both)) = Cardinality(L) + Cardinality(G)
  <2>1. Cardinality(L \cup G) = Cardinality(L) + Cardinality(G) - Cardinality(L \cap G)
    BY <1>3, FS_Union
  <2>2. Cardinality(L \cap G) = 0
    BY <1>2, FS_EmptySet
  <2>3. Cardinality(L \cup G) = Cardinality(L) + Cardinality(G)
    BY <1>3, <2>1, <2>2
  <2> QED BY <1>2, <2>3, Zenon
<1>5. LocalChannels \in Nat /\ GlobalChannels \in Nat
  BY ChannelsAssumption
<1> QED BY <1>3, <1>4, <1>5 DEF Ample, extraLocal, extraGlobal

LEMMA MandatoryChannel ==
  ASSUME NEW r \in Flexible, Ample(r), NEW i \in 1..Length(r),
         hopSeq[r][i] \in Classes
  PROVE  MandatoryVc(r, i) \in Channels
<1>1. /\ DOMAIN hopSeq[r] = 1..Length(r) /\ Length(r) \in Nat
      /\ hopSeq[r][1] = "local" /\ 1 \in 1..Length(r)
  BY FlexibleHops
<1>2. ASSUME NEW l \in 1..Length(r), hopSeq[r][l] \in Both
      PROVE  extraLocal(r) + extraGlobal(r) + Cardinality(HopsBefore(r, l, Both)) \in Channels
  <2> DEFINE S == HopsIn(r, Both)
             T == HopsBefore(r, l, Both)
  <2>1. S \in SUBSET (1..Length(r)) /\ T \in SUBSET S /\ l \in S /\ l \notin T
    BY <1>1, <1>2 DEF HopsIn, HopsBefore
  <2> HIDE DEF S, T
  <2>2. Cardinality(T) \in Nat /\ Cardinality(S) \in Nat /\ Cardinality(T) < Cardinality(S)
    BY <1>1, <2>1, FewerIn
  <2>3. LocalChannels \in Nat /\ GlobalChannels \in Nat
    BY ChannelsAssumption
  <2> QED BY <2>2, <2>3, HopsAmple DEF Channels, S, T
<1>3. CASE hopSeq[r][i] # "opplocal"
  <2>1. hopSeq[r][i] \in Both
    BY <1>3 DEF Both, Classes, GlobalClasses
  <2> QED BY <1>2, <1>3, <2>1 DEF MandatoryVc, Both
<1>4. CASE hopSeq[r][i] = "opplocal"
  <2> DEFINE S == {j \in 1..i : hopSeq[r][j] = "local"}
             last == CHOOSE j \in 1..i : /\ hopSeq[r][j] = "local"
                                         /\ \A k \in 1..i : hopSeq[r][k] = "local" => k <= j
  <2>1. S \in SUBSET (1..Length(r)) /\ 1 \in S
    BY <1>1
  <2>2. Max(S) \in S /\ \A j \in S : j <= Max(S)
    BY <1>1, <2>1, GreatestPlace
  <2>3. \E j \in 1..i : /\ hopSeq[r][j] = "local"
                        /\ \A k \in 1..i : hopSeq[r][k] = "local" => k <= j
    BY <2>2
  <2>4. last \in 1..i /\ hopSeq[r][last] = "local"
    BY <2>3
  <2>5. last \in 1..Length(r) /\ hopSeq[r][last] \in Both
    BY <1>1, <2>4 DEF Both
  <2>6. MandatoryVc(r, i) = extraLocal(r) + extraGlobal(r) + Cardinality(HopsBefore(r, last, Both))
    BY <1>4, Zenon DEF MandatoryVc, Both
  <2> HIDE DEF last
  <2> QED BY <1>2, <2>5, <2>6
<1> QED BY <1>3, <1>4

LEMMA MandatoryChannels ==
  ASSUME NEW r \in Flexible, Ample(r), NEW S \in SUBSET (1..Length(r)),
         \A i \in S : hopSeq[r][i] \in Classes
  PROVE  MandatoryVcs(r, S) \in Seq(Channels)
<1> DEFINE Hop(k) == CHOOSE i \in S : Cardinality(S \cap 1..i) = k
           n == Cardinality(S)
<1>1. Length(r) \in Nat /\ n \in Nat
  BY FlexibleHops, UpTo
<1>2. \A k \in 1..n : Hop(k) \in S
  BY <1>1, KthElement
<1>3. MandatoryVcs(r, S) = [k \in 1..n |-> MandatoryVc(r, Hop(k))]
  BY Zenon DEF MandatoryVcs
<1> HIDE DEF Hop, n
<1>4. \A k \in 1..n : MandatoryVc(r, Hop(k)) \in Channels
  BY <1>2, MandatoryChannel
<1>5. MandatoryVcs(r, S) \in [1..n -> Channels]
  BY <1>3, <1>4
<1> QED BY <1>1, <1>5, LenOfFunction

LEMMA ExtraChannels ==
  ASSUME NEW r \in Flexible, Ample(r)
  PROVE  ExtraLocalVcs(r) \in Seq(Channels) /\ ExtraGlobalVcs(r) \in Seq(Channels)
<1>1. LocalChannels \in Nat /\ GlobalChannels \in Nat
  BY ChannelsAssumption
<1>2. /\ ExtraLocalVcs(r) \in [1..extraLocal(r) -> Channels]
      /\ ExtraGlobalVcs(r) \in [1..extraGlobal(r) -> Channels]
  BY <1>1, HopsAmple DEF ExtraLocalVcs, ExtraGlobalVcs, Channels
<1> QED BY <1>2, HopsAmple, LenOfFunction

LEMMA TableChannels ==
  ASSUME NEW r \in Flexible, Ample(r)
  PROVE  /\ flexGlobalVc[r] \in Seq(Channels)
         /\ \A where \in {"source", "inter", "dest"} : flexLocalVc[r][where] \in Seq(Channels)
         /\ tableVcs[r].local \in Seq(Channels) /\ tableVcs[r].global \in Seq(Channels)
<1>1. /\ r \in DOMAIN hopSeq /\ DOMAIN hopSeq[r] = 1..Length(r)
  BY FlexibleHops
<1>2. ASSUME NEW S \in SUBSET Classes
      PROVE  /\ HopsIn(r, S) \in SUBSET (1..Length(r))
             /\ \A i \in HopsIn(r, S) : hopSeq[r][i] \in Classes
  BY <1>1 DEF HopsIn
<1>3. {"local"} \in SUBSET Classes /\ GlobalClasses \in SUBSET Classes /\ {"opplocal"} \in SUBSET Classes
  BY DEF Classes, GlobalClasses
<1>4. /\ MandatoryVcs(r, HopsIn(r, GlobalClasses)) \in Seq(Channels)
      /\ MandatoryVcs(r, HopsIn(r, {"local"})) \in Seq(Channels)
  BY <1>2, <1>3, MandatoryChannels
<1>5. ExtraLocalVcs(r) \in Seq(Channels) /\ ExtraGlobalVcs(r) \in Seq(Channels)
  BY ExtraChannels
<1>6. flexGlobalVc[r] \in Seq(Channels)
  <2>1. flexGlobalVc[r] = ExtraGlobalVcs(r) \o MandatoryVcs(r, HopsIn(r, GlobalClasses))
    BY <1>1 DEF flexGlobalVc
  <2> QED BY <1>4, <1>5, <2>1, ConcatProperties
<1>7. tableVcs[r].local \in Seq(Channels) /\ tableVcs[r].global \in Seq(Channels)
  <2>1. /\ tableVcs[r].local = ExtraLocalVcs(r) \o MandatoryVcs(r, HopsIn(r, {"local"}))
        /\ tableVcs[r].global = ExtraGlobalVcs(r) \o MandatoryVcs(r, HopsIn(r, GlobalClasses))
    BY <1>1 DEF tableVcs, hopVcs
  <2> QED BY <1>4, <1>5, <2>1, ConcatProperties
<1>8. ASSUME NEW where \in {"source", "inter", "dest"}
      PROVE  flexLocalVc[r][where] \in Seq(Channels)
  <2> DEFINE Least(i) == IF GlobalVcSize(r, i) = 0 THEN 1
                         ELSE IF GlobalVcSize(r, i) = 1 THEN 2 ELSE 3
             rank == CASE where = "source" -> 1 [] where = "inter" -> 2
                       [] where = "dest" -> 3
             S == {i \in HopsIn(r, {"local"}) : Least(i) <= rank}
                    \cup {i \in HopsIn(r, {"opplocal"}) : Least(i) = rank}
  <2>1. flexLocalVc[r][where] = ExtraLocalVcs(r) \o MandatoryVcs(r, S)
    BY <1>1 DEF flexLocalVc
  <2>2. S \in SUBSET (1..Length(r)) /\ \A i \in S : hopSeq[r][i] \in Classes
    <3> HIDE DEF Least, rank
    <3> QED BY <1>2, <1>3
  <2> HIDE DEF S
  <2>3. MandatoryVcs(r, S) \in Seq(Channels)
    BY <2>2, MandatoryChannels
  <2> QED BY <1>5, <2>1, <2>3, ConcatProperties
<1> QED BY <1>6, <1>7, <1>8

(* Every channel a flit may be given is one of the link.                   *)
LEMMA SomeChannel ==
  ASSUME NEW v \in Variants, v.usage # "BASE", NEW f, NEW out \in LinkPorts
  PROVE  NextChannels(v, f, out) \subseteq Channels
<1> DEFINE r == Sequence(v)
           kind == PortType(out)
<1>1. r \in Flexible
  BY FlexibleSequence
<1>2. Ample(r)
  BY Configured DEF EnoughChannels, Ample
<1>3. kind \in {"local", "global"}
  BY PortOfLink
<1>4. \A q \in Seq(Channels) : Range(q) \subseteq Channels
  BY ElementOfSeq, LenProperties DEF Range
<1>5. \A q \in Seq(Channels) : q # << >> => Front(q) \in Seq(Channels)
  <2> SUFFICES ASSUME NEW q \in Seq(Channels), q # << >> PROVE Front(q) \in Seq(Channels)
    OBVIOUS
  <2>1. Len(q) \in Nat /\ \A i \in 1..(Len(q) - 1) : q[i] \in Channels
    BY LenProperties, ElementOfSeq
  <2> QED BY <2>1, SubSeqProperties DEF Front
<1>6. v.usage \in {"FLEXIBLE", "TBFLEX"}
  BY Configured DEF Configurations
<1>7. CASE v.usage = "FLEXIBLE"
  <2> DEFINE straight == (out = MinPort(f)) /\ ~GoesByVal(f)
             aux == IF kind = "global" THEN flexGlobalVc[r] ELSE flexLocalVc[r][Where(f)]
  <2>1. NextChannels(v, f, out) = NextChannelsFlex(r, out, Where(f), ~straight)
    BY <1>3, <1>7 DEF NextChannels
  <2>2. aux \in Seq(Channels)
    <3>1. Where(f) \in {"source", "inter", "dest"}
      BY DEF Where
    <3> QED BY <1>1, <1>2, <3>1, TableChannels
  <2>3. \E q \in Seq(Channels) : NextChannels(v, f, out) = Range(q)
    <3> HIDE DEF straight
    <3>1. CASE ~straight /\ aux # << >>
      <4>1. NextChannels(v, f, out) = Range(Front(aux))
        BY <2>1, <3>1 DEF NextChannelsFlex
      <4> QED BY <1>5, <2>2, <3>1, <4>1
    <3>2. CASE ~(~straight /\ aux # << >>)
      <4>1. NextChannels(v, f, out) = Range(aux)
        BY <2>1, <3>2 DEF NextChannelsFlex
      <4> QED BY <2>2, <4>1
    <3> QED BY <3>1, <3>2
  <2> QED BY <1>4, <2>3
<1>8. CASE v.usage = "TBFLEX"
  <2>1. NextChannels(v, f, out) \subseteq Range(tableVcs[r][kind])
    BY <1>3, <1>8 DEF NextChannels, NextChannelsTbFlex
  <2>2. tableVcs[r][kind] \in Seq(Channels)
    BY <1>1, <1>2, <1>3, TableChannels
  <2> QED BY <1>4, <2>1, <2>2
<1> QED BY <1>6, <1>7, <1>8

-----------------------------------------------------------------------------
(* What a routing by way of a Valiant node makes of a flit.                *)

(* A flit that is still where it was, and as long on its way.              *)
SamePlace(f, g) ==
    /\ g.sw = f.sw /\ g.port = f.port /\ g.channel = f.channel
    /\ g.src = f.src /\ g.dest = f.dest /\ g.hopCount = f.hopCount
    /\ g.minLen = f.minLen /\ g.byVal = f.byVal
    /\ g.localDone = f.localDone /\ g.globalDone = f.globalDone
    /\ g.mandatory = f.mandatory

SameWay(f, g) ==
    /\ g.valId = f.valId /\ g.status = f.status /\ g.valLen = f.valLen
    /\ g.chosen = f.chosen

(* The flit once its Valiant node has been drawn, or not.                  *)
Drawn(v, f, g) ==
    /\ g \in FlitType /\ SamePlace(f, g)
    /\ g.type = f.type /\ g.reached = f.reached
    /\ ~AtInjection(f) => SameWay(f, g)
    /\ AtInjection(f) /\ v.routing \in WeighsBoth => g.valLen = WayLength(g)
    /\ AtInjection(f) /\ Away(v) /\ Group(f.src) # Group(f.dest) =>
           Group(g.valId) # Group(f.src)

(* The flit once it has been marked.                                       *)
Becomes(g, h, type, there) ==
    /\ h \in FlitType /\ SamePlace(g, h) /\ SameWay(g, h)
    /\ h.type = type /\ (h.reached <=> g.reached \/ there)

(* The flit as the routing leaves it, and the port it is to ask for.       *)
Sent(v, f, g, out) ==
    /\ g \in FlitType /\ SamePlace(f, g)
    /\ ~AtInjection(f) => SameWay(f, g)
    /\ \/ out = ValPort(g) /\ g.type = "VALIANT" /\ Onward(v, g)
       \/ out = MinPort(g) /\ ~Via(v, g)
    /\ ~AtInjection(f) =>
         /\ Via(v, g) => Via(v, f)
         /\ v.routing \in Weighing /\ f.type # "VALIANT" => g.type # "VALIANT"
         /\ Via(v, f) /\ ~Via(v, g) => There(v, f) \/ Near(f.sw, f.dest) = 3
         /\ v.misrouting = "MM" /\ InSource(f) /\ f.type = "VALIANT" => g.type = "VALIANT"
    /\ v.routing \in WeighsBoth =>
         /\ ~Via(v, g) => g.type = "NONE"
         /\ AtInjection(f) => g.valLen = WayLength(g)
    /\ Away(v) /\ Group(f.src) # Group(f.dest) =>
         /\ Group(g.valId) # Group(f.src)
         /\ InSource(f) => ~g.reached

Types == {"NONE", "VALIANT", "LOCAL", "LOCAL_MM", "GLOBAL", "GLOBAL_MANDATORY"}

LEMMA MarkedAs ==
  ASSUME NEW g \in FlitType, NEW type \in Types, NEW there \in BOOLEAN
  PROVE  /\ Becomes(g, [Reached(g, there) EXCEPT !.type = type], type, there)
         /\ Becomes(g, [g EXCEPT !.type = type], type, FALSE)
         /\ Becomes(g, Reached(g, there), g.type, there)
         /\ Becomes(g, g, g.type, FALSE)
BY DEF Becomes, SamePlace, SameWay, Reached, FlitType, Types

(* The mark does not matter to where the flit is, nor to the ports.        *)
LEMMA SameThere ==
  ASSUME NEW v, NEW g, NEW h, SamePlace(g, h), SameWay(g, h)
  PROVE  /\ There(v, h) <=> There(v, g)
         /\ AtInjection(h) <=> AtInjection(g)
         /\ InSource(h) <=> InSource(g)
         /\ WayLength(h) = WayLength(g)
         /\ MinPort(h) = MinPort(g) /\ ValPort(h) = ValPort(g)
BY DEF SamePlace, SameWay, There, ToGroup, InValGroup, InValSwitch, AtInjection, InSource,
       WayLength, MinPort, ValPort

LEMMA SentOn ==
  ASSUME NEW v \in Variants, v.routing \in ByValiant, NEW f, Net(v, f), NEW g, Drawn(v, f, g),
         NEW h, NEW type, NEW there \in BOOLEAN, Becomes(g, h, type, there),
         there => There(v, g), NEW out,
         \/ out = ValPort(h) /\ type = "VALIANT" /\ Onward(v, h)
         \/ out = MinPort(h) /\ ~Via(v, h),
         ~AtInjection(f) =>
           /\ Via(v, h) => Via(v, f)
           /\ v.routing \in Weighing /\ f.type # "VALIANT" => type # "VALIANT"
           /\ Via(v, f) /\ ~Via(v, h) => There(v, f) \/ Near(f.sw, f.dest) = 3
           /\ v.misrouting = "MM" /\ InSource(f) /\ f.type = "VALIANT" => type = "VALIANT",
         v.routing \in WeighsBoth /\ ~Via(v, h) => type = "NONE"
  PROVE  Sent(v, f, h, out)
<1>1. /\ g \in FlitType /\ SamePlace(f, g) /\ g.type = f.type /\ g.reached = f.reached
      /\ ~AtInjection(f) => SameWay(f, g)
  BY DEF Drawn
<1>2. /\ h \in FlitType /\ SamePlace(g, h) /\ SameWay(g, h) /\ h.type = type
      /\ h.reached <=> g.reached \/ there
  BY DEF Becomes
<1>3. SamePlace(f, h)
  BY <1>1, <1>2 DEF SamePlace
<1>4. ~AtInjection(f) => SameWay(f, h)
  BY <1>1, <1>2 DEF SameWay
<1>5. v.routing \in WeighsBoth /\ AtInjection(f) => h.valLen = WayLength(h)
  BY <1>2, SameThere DEF Drawn, SameWay
<1>6. ASSUME Away(v), Group(f.src) # Group(f.dest)
      PROVE  Group(h.valId) # Group(f.src) /\ (InSource(f) => ~h.reached)
  <2>1. Group(g.valId) # Group(f.src)
    <3>1. CASE AtInjection(f)
      BY <1>6, <3>1 DEF Drawn
    <3>2. CASE ~AtInjection(f)
      BY <1>1, <1>6, <3>2 DEF SameWay, Net, Flagged
    <3> QED BY <3>1, <3>2
  <2>2. Group(h.valId) # Group(f.src)
    BY <1>2, <2>1 DEF SameWay
  <2>3. ASSUME InSource(f) PROVE ~h.reached
    <3>1. ~f.reached
      BY <1>6, <2>3 DEF Net, Flagged
    <3>2. ~There(v, g)
      BY <1>1, <2>1, <2>3 DEF There, InValGroup, InValSwitch, InSource, Group, SamePlace
    <3> QED BY <1>1, <1>2, <3>1, <3>2
  <2> QED BY <2>2, <2>3
<1> QED BY <1>2, <1>3, <1>4, <1>5, <1>6 DEF Sent

LEMMA KindPorts ==
  /\ \A port \in GlobalPorts : port \in LinkPorts /\ PortType(port) = "global"
  /\ \A port \in LocalPorts : port \in LinkPorts /\ PortType(port) = "local"
  /\ GlobalOffset \in GlobalPorts
BY SizeAssumption DEF SizeAssumption, GlobalPorts, LocalPorts, LinkPorts, PortType,
   LocalOffset, GlobalOffset

Kinds == {"LOCAL_MM", "GLOBAL", "LOCAL"}

LEMMA NodesAway ==
  ASSUME NEW s \in Switches, NEW kind \in {"GLOBAL", "LOCAL"}, NEW n \in IntNodes(s, kind)
  PROVE  n \in Nodes /\ Group(n) # hPos(s)
<1> DEFINE Linked(t) == {hPos(Next_(t, port)) : port \in GlobalPorts}
<1>1. \A t \in Switches : \A g \in Linked(t) : g # hPos(t)
  BY KindPorts, Link DEF Crosses
<1>2. \A port \in LocalPorts : Next_(s, port) \in Switches /\ hPos(Next_(s, port)) = hPos(s)
  BY KindPorts, Link DEF Crosses
<1>3. CASE kind = "GLOBAL"
  <2>1. n \in Nodes /\ Group(n) \in Linked(s)
    BY <1>3 DEF IntNodes
  <2> QED BY <1>1, <2>1
<1>4. CASE kind = "LOCAL"
  <2>1. n \in Nodes /\ Group(n) \in UNION {Linked(Next_(s, port)) : port \in LocalPorts}
    BY <1>4 DEF IntNodes
  <2>2. PICK port \in LocalPorts : Group(n) \in Linked(Next_(s, port))
    BY <2>1
  <2> HIDE DEF Linked
  <2> QED BY <1>1, <1>2, <2>1, <2>2
<1> QED BY <1>3, <1>4

LEMMA ChosenFrom ==
  ASSUME NEW f \in FlitType, NEW kinds \in SUBSET Kinds, NEW g \in Chosen(f, kinds)
  PROVE  /\ g \in FlitType /\ SamePlace(f, g) /\ g.type = f.type /\ g.reached = f.reached
         /\ g.status = f.status /\ g.valLen = WayLength(g)
         /\ "LOCAL_MM" \notin kinds => Group(g.valId) # hPos(f.sw)
<1>1. f.sw \in Switches /\ f.dest \in Nodes
  BY DEF FlitType
<1>2. PICK n \in UNION {IntNodes(f.sw, kind) : kind \in kinds} :
        g = [f EXCEPT !.valId = n, !.chosen = TRUE,
                      !.valLen = HopsToDest(f.sw, n) + HopsToDest(SwitchOf(n), f.dest)]
  BY DEF Chosen
<1>3. PICK kind \in kinds : n \in IntNodes(f.sw, kind)
  BY <1>2
<1>4. n \in Nodes
  BY <1>3 DEF IntNodes
<1> DEFINE len == HopsToDest(f.sw, n) + HopsToDest(SwitchOf(n), f.dest)
<1>5. len \in 0..6
  <2>1. Counted(f.sw, n) /\ Counted(SwitchOf(n), f.dest)
    BY <1>1, <1>4, NodeSwitch, HopsCounted
  <2>2. HopsToDest(f.sw, n) \in 0..3 /\ HopsToDest(SwitchOf(n), f.dest) \in 0..3
    BY <2>1 DEF Counted
  <2> QED BY <2>2
<1> HIDE DEF len
<1>6. g = [f EXCEPT !.valId = n, !.chosen = TRUE, !.valLen = len]
  BY <1>2 DEF len
<1>7. /\ g \in FlitType /\ SamePlace(f, g) /\ g.type = f.type /\ g.reached = f.reached
      /\ g.status = f.status /\ g.valId = n /\ g.valLen = len
  BY <1>4, <1>5, <1>6 DEF FlitType, SamePlace
<1>8. g.valLen = WayLength(g)
  BY <1>7 DEF WayLength, len, SamePlace
<1>9. "LOCAL_MM" \notin kinds => Group(g.valId) # hPos(f.sw)
  BY <1>1, <1>3, <1>7, NodesAway DEF Kinds
<1> QED BY <1>7, <1>8, <1>9

(* Past the injection, or when nothing is to be told of the Valiant node.  *)
LEMMA DrawnAlready ==
  ASSUME NEW v, NEW f, Net(v, f),
         AtInjection(f) => /\ ~Away(v)
                           /\ v.routing \in WeighsBoth => f.chosen
  PROVE  Drawn(v, f, f)
BY DEF Drawn, Net, SamePlace, SameWay, Injected

LEMMA DrawnNow ==
  ASSUME NEW v, NEW f, Net(v, f), AtInjection(f), ~Away(v),
         NEW kinds \in SUBSET Kinds, NEW g \in Chosen(f, kinds)
  PROVE  Drawn(v, f, g)
<1>1. f \in FlitType
  BY DEF Net
<1> QED BY <1>1, ChosenFrom DEF Drawn

LEMMA DrawnByStatus ==
  ASSUME NEW v \in Configurations, NEW f, Net(v, f), NEW kinds,
         \A s \in Statuses : kinds[s] \in SUBSET Kinds,
         Away(v) /\ Group(f.src) # Group(f.dest) =>
             \A s \in Statuses : "LOCAL_MM" \notin kinds[s],
         NEW g \in ChosenByStatus(v, f, kinds)
  PROVE  Drawn(v, f, g)
<1>1. f \in FlitType
  BY DEF Net
<1>2. CASE ~AtInjection(f)
  <2>1. g = f
    BY <1>2 DEF ChosenByStatus
  <2> QED BY <1>2, <2>1, DrawnAlready
<1>3. CASE AtInjection(f)
  <2>1. AcorStatus(v, f) \subseteq Statuses
    BY DEF AcorStatus, Statuses, Configurations
  <2>2. PICK status \in AcorStatus(v, f) :
          g \in UNION {IF kind = "LOCAL_MM"
                       THEN Chosen([[f EXCEPT !.status = status] EXCEPT !.status = "RRGLSw"], {kind})
                       ELSE Chosen([f EXCEPT !.status = status], {kind}) : kind \in kinds[status]}
    BY <1>3 DEF ChosenByStatus
  <2>3. PICK kind \in kinds[status] :
          g \in IF kind = "LOCAL_MM"
                THEN Chosen([[f EXCEPT !.status = status] EXCEPT !.status = "RRGLSw"], {kind})
                ELSE Chosen([f EXCEPT !.status = status], {kind})
    BY <2>2
  <2>4. status \in Statuses /\ kinds[status] \in SUBSET Kinds /\ kind \in Kinds
    BY <2>1, <2>3
  <2>5. ASSUME NEW s \in Statuses
        PROVE  LET e == [f EXCEPT !.status = s]
               IN  /\ e \in FlitType /\ SamePlace(f, e) /\ e.type = f.type
                   /\ e.reached = f.reached
                   /\ [e EXCEPT !.status = "RRGLSw"] = [f EXCEPT !.status = "RRGLSw"]
    BY <1>1 DEF Statuses, FlitType, SamePlace
  <2>6. \E s \in Statuses : g \in Chosen([f EXCEPT !.status = s], {kind})
    BY <2>3, <2>4, <2>5 DEF Statuses
  <2>7. PICK s \in Statuses : g \in Chosen([f EXCEPT !.status = s], {kind})
    BY <2>6
  <2> DEFINE e == [f EXCEPT !.status = s]
  <2>8. e \in FlitType /\ SamePlace(f, e) /\ e.type = f.type /\ e.reached = f.reached
    BY <2>5
  <2> HIDE DEF e
  <2>9. {kind} \in SUBSET Kinds /\ g \in Chosen(e, {kind})
    BY <2>4, <2>7 DEF e
  <2>10. /\ g \in FlitType /\ SamePlace(e, g) /\ g.type = e.type /\ g.reached = e.reached
         /\ g.valLen = WayLength(g)
         /\ kind # "LOCAL_MM" => Group(g.valId) # hPos(e.sw)
    BY <2>8, <2>9, ChosenFrom
  <2>11. Away(v) /\ Group(f.src) # Group(f.dest) => Group(g.valId) # Group(f.src)
    <3>1. hPos(e.sw) = Group(f.src)
      BY <1>3, <2>8 DEF SamePlace, Net, Injected, Group
    <3> QED BY <2>4, <2>10, <3>1
  <2>12. SamePlace(f, g)
    BY <2>8, <2>10 DEF SamePlace
  <2> QED BY <1>3, <2>8, <2>10, <2>11, <2>12 DEF Drawn
<1> QED BY <1>2, <1>3

-----------------------------------------------------------------------------
(* The routings by way of a Valiant node.                                  *)
LEMMA LeavesFar ==
  ASSUME NEW f, f.sw \in Switches, f.dest \in Nodes
  PROVE  Leaves(f) <=> Near(f.sw, f.dest) # 3
<1>1. Nearer(f.sw, f.dest)
  BY NearerNext
<1>2. MinPort(f) = Toward(f.sw, f.dest)
  BY DEF MinPort, Toward
<1> QED BY <1>1, <1>2 DEF Nearer, Leaves

LEMMA SentByVal ==
  ASSUME NEW v \in Variants, v.routing \in ByValiant, NEW f, Net(v, f), NEW g, Drawn(v, f, g),
         NEW h, NEW there \in BOOLEAN, Becomes(g, h, "VALIANT", there),
         there => There(v, g), ~h.reached, ~There(v, g),
         ~AtInjection(f) => Via(v, f) /\ (v.routing \in Weighing => f.type = "VALIANT")
  PROVE  Sent(v, f, h, ValPort(h))
<1>1. h.type = "VALIANT" /\ SamePlace(g, h) /\ SameWay(g, h)
  BY DEF Becomes
<1>2. ~There(v, h)
  BY <1>1, SameThere
<1>3. Via(v, h) /\ Onward(v, h)
  BY <1>1, <1>2 DEF Via, Onward
<1> HIDE DEF Net, Drawn, Becomes, Sent, There, Via, Onward, Weighing, WeighsBoth, ByValiant
<1> DEFINE type == "VALIANT"
           out == ValPort(h)
<1>4. Becomes(g, h, type, there) /\ type = "VALIANT" /\ out = ValPort(h)
  OBVIOUS
<1> HIDE DEF type, out
<1>5. Sent(v, f, h, out)
  BY <1>3, <1>4, SentOn
<1> QED BY <1>4, <1>5

LEMMA SentDirect ==
  ASSUME NEW v \in Variants, v.routing \in ByValiant, NEW f, Net(v, f), NEW g, Drawn(v, f, g),
         NEW h, NEW type, NEW there \in BOOLEAN, Becomes(g, h, type, there),
         there => There(v, g), ~Via(v, h),
         ~AtInjection(f) =>
           /\ v.routing \in Weighing /\ f.type # "VALIANT" => type # "VALIANT"
           /\ ~Via(v, f) \/ There(v, f) \/ Near(f.sw, f.dest) = 3
           /\ v.misrouting = "MM" /\ InSource(f) /\ f.type = "VALIANT" => type = "VALIANT",
         v.routing \in WeighsBoth => type = "NONE"
  PROVE  Sent(v, f, h, MinPort(h))
<1> HIDE DEF Net, Drawn, Becomes, Sent, There, Via, Onward, Weighing, WeighsBoth, ByValiant
<1> DEFINE out == MinPort(h)
<1>1. out = MinPort(h)
  OBVIOUS
<1> HIDE DEF out
<1>2. Sent(v, f, h, out)
  BY <1>1, SentOn
<1> QED BY <1>1, <1>2

LEMMA WaysOfUgal ==
  ASSUME NEW f, NEW t \in EnrouteUgal(f)
  PROVE  \/ t = ByValUnlessReached(Reached(f, InValGroup(f))) /\ (GoesByVal(f) \/ AtInjection(f))
         \/ t = Direct(f) /\ ~GoesByVal(f)
BY Zenon DEF EnrouteUgal, Starts

LEMMA WaysOfPb ==
  ASSUME NEW f, NEW t, NEW there,
         \E m \in (IF Starts(f) THEN BOOLEAN ELSE {GoesByVal(f)}) :
            t = IF m THEN ByValUnlessReached(Reached(f, there))
                     ELSE Direct(IF Starts(f) THEN Unmarked(f) ELSE f)
  PROVE  \/ t = ByValUnlessReached(Reached(f, there)) /\ (GoesByVal(f) \/ AtInjection(f))
         \/ t = Direct(f) /\ ~GoesByVal(f)
         \/ t = Direct(Unmarked(f)) /\ AtInjection(f)
BY Zenon DEF Starts

(* The routings that keep the node setValNode drew.                        *)
LEMMA KeepersSent ==
  ASSUME NEW v \in Variants, UsesValNode(v), NEW f, Net(v, f),
         NEW t, NEW there \in BOOLEAN, there <=> There(v, f),
         \/ t = ByValUnlessReached(Reached(f, there)) /\ (GoesByVal(f) \/ AtInjection(f))
         \/ t = Direct(f) /\ ~GoesByVal(f)
         \/ t = Direct(Unmarked(f)) /\ AtInjection(f)
  PROVE  Sent(v, f, t.flit, t.out)
<1> DEFINE w == Reached(f, there)
           h == [w EXCEPT !.type = "VALIANT"]
           valiant == "VALIANT"
           none == "NONE"
           no == FALSE
<1>1. /\ v.routing \in ByValiant /\ ~Away(v) /\ v.routing \notin WeighsBoth
      /\ v.routing \notin {"obl", "acor"}
  BY DEF UsesValNode, ByValiant, Away, WeighsBoth
<1>2. Drawn(v, f, f)
  BY <1>1, DrawnAlready
<1>3. f \in FlitType /\ f.type \in Types
  BY DEF Net, FlitType, Types
<1>4. valiant \in Types /\ none \in Types /\ valiant = "VALIANT" /\ none = "NONE"
      /\ no \in BOOLEAN /\ ~no
  BY DEF Types
<1>5. /\ Becomes(f, h, valiant, there) /\ Becomes(f, Unmarked(f), none, no)
      /\ Becomes(f, f, f.type, no)
      /\ w.reached <=> h.reached
  <2>1. Becomes(f, h, valiant, there) /\ Becomes(f, Unmarked(f), none, no)
    BY <1>3, <1>4, MarkedAs DEF Unmarked
  <2>2. Becomes(f, f, f.type, no)
    BY <1>3, <1>4, MarkedAs
  <2>3. w.reached <=> h.reached
    BY <1>3 DEF Reached, FlitType
  <2> QED BY <2>1, <2>2, <2>3
<1>6. h.reached <=> f.reached \/ there
  BY <1>5 DEF Becomes
<1>7. Via(v, f) <=> GoesByVal(f)
  BY <1>1 DEF Via, GoesByVal
<1>8. CASE t = ByValUnlessReached(w) /\ (GoesByVal(f) \/ AtInjection(f))
  <2>1. CASE h.reached
    <3>1. t.flit = h /\ t.out = MinPort(h)
      BY <1>5, <1>8, <2>1 DEF ByValUnlessReached, Direct, To
    <3>2. ~Via(v, h)
      BY <2>1 DEF Via
    <3>3. ~AtInjection(f) => f.type = "VALIANT" /\ There(v, f)
      BY <1>6, <1>8, <2>1 DEF GoesByVal
    <3> HIDE DEF h, w, valiant, none, no
    <3>4. Sent(v, f, h, MinPort(h))
      BY <1>1, <1>2, <1>4, <1>5, <3>2, <3>3, SentDirect
    <3> QED BY <3>1, <3>4
  <2>2. CASE ~h.reached
    <3>1. t.flit = h /\ t.out = ValPort(w)
      BY <1>5, <1>8, <2>2 DEF ByValUnlessReached, ByVal, To
    <3>2. ValPort(w) = ValPort(h)
      BY <1>3 DEF ValPort, FlitType, Reached
    <3>3. ~AtInjection(f) => f.type = "VALIANT" /\ Via(v, f)
      BY <1>7, <1>8 DEF GoesByVal
    <3>4. ~There(v, f)
      BY <1>6, <2>2
    <3>5. Becomes(f, h, "VALIANT", there)
      BY <1>5
    <3> HIDE DEF h, w, valiant, none, no
    <3>6. Sent(v, f, h, ValPort(h))
      BY <1>1, <1>2, <2>2, <3>3, <3>4, <3>5, SentByVal
    <3> QED BY <3>1, <3>2, <3>6
  <2> QED BY <2>1, <2>2
<1>9. CASE t = Direct(f) /\ ~GoesByVal(f)
  <2>1. t.flit = f /\ t.out = MinPort(f) /\ ~Via(v, f)
    BY <1>7, <1>9 DEF Direct, To
  <2> HIDE DEF h, w, valiant, none, no
  <2>2. Sent(v, f, f, MinPort(f))
    BY <1>1, <1>2, <1>4, <1>5, <2>1, SentDirect
  <2> QED BY <2>1, <2>2
<1>10. CASE t = Direct(Unmarked(f)) /\ AtInjection(f)
  <2> DEFINE u == Unmarked(f)
  <2>1. t.flit = u /\ t.out = MinPort(u)
    BY <1>10 DEF Direct, To
  <2>2. ~Via(v, u) /\ Becomes(f, u, none, no)
    BY <1>1, <1>5 DEF Via, Becomes
  <2> HIDE DEF h, w, valiant, none, no, u
  <2>3. Sent(v, f, u, MinPort(u))
    BY <1>1, <1>2, <1>4, <1>10, <2>2, SentDirect
  <2> QED BY <2>1, <2>3
<1> QED BY <1>8, <1>9, <1>10

(* Past the injection nothing is drawn.                                    *)
LEMMA DrawnAsBefore ==
  ASSUME NEW v, NEW f, NEW g, Drawn(v, f, g), ~AtInjection(f)
  PROVE  /\ There(v, g) <=> There(v, f)
         /\ Via(v, g) <=> Via(v, f)
<1>1. SamePlace(f, g) /\ SameWay(f, g) /\ g.type = f.type /\ g.reached = f.reached
  BY DEF Drawn
<1> QED BY <1>1, SameThere DEF Via

(* The source group is left before a Valiant node in another is reached.   *)
LEMMA NotThereAtHome ==
  ASSUME NEW v, NEW f, Net(v, f), NEW g, Drawn(v, f, g), Away(v), InSource(f)
  PROVE  ~g.reached /\ ~There(v, g)
<1>1. /\ SamePlace(f, g) /\ g.reached = f.reached
      /\ ~AtInjection(f) => SameWay(f, g)
      /\ AtInjection(f) /\ Group(f.src) # Group(f.dest) => Group(g.valId) # Group(f.src)
  BY DEF Drawn
<1>2. ~f.reached /\ (~AtInjection(f) => Group(f.valId) # Group(f.src))
  BY DEF Net, Flagged, InSource
<1>3. Group(g.valId) # Group(f.src)
  BY <1>1, <1>2 DEF InSource, SameWay
<1> QED BY <1>1, <1>2, <1>3 DEF There, InValGroup, InValSwitch, InSource, Group, SamePlace

LEMMA ObliviousSent ==
  ASSUME NEW v \in Variants, v.routing = "obl", NEW f, Net(v, f),
         NEW t \in EnrouteOblivious(v, f)
  PROVE  Sent(v, f, t.flit, t.out)
<1> DEFINE valiant == "VALIANT"
           no == FALSE
           Arrived(x) == Reached(x, IF v.valiantDestination = "GROUP" THEN InValGroup(x)
                                                                      ELSE InValSwitch(x))
<1>1. /\ v.routing \in ByValiant /\ ~Away(v) /\ v.routing \notin WeighsBoth
      /\ v.routing \notin Weighing
  BY DEF ByValiant, Away, WeighsBoth, Weighing
<1>2. valiant \in Types /\ valiant = "VALIANT" /\ no \in BOOLEAN /\ ~no
  BY DEF Types
<1>3. PICK g : /\ g = f \/ (AtInjection(f) /\ g \in Chosen(f, ObliviousKinds(v, f)))
               /\ t = IF Arrived(g).reached THEN Direct(Arrived(g)) ELSE ByVal(g)
  BY Zenon DEF EnrouteOblivious
<1>4. Drawn(v, f, g)
  <2>1. CASE g = f
    BY <1>1, <2>1, DrawnAlready
  <2>2. CASE AtInjection(f) /\ g \in Chosen(f, ObliviousKinds(v, f))
    <3> DEFINE kinds == ObliviousKinds(v, f)
    <3>1. kinds \in SUBSET Kinds
      BY DEF ObliviousKinds, GlobalKinds, Kinds
    <3> HIDE DEF kinds
    <3>2. g \in Chosen(f, kinds)
      BY <2>2 DEF kinds
    <3> QED BY <1>1, <2>2, <3>1, <3>2, DrawnNow
  <2> QED BY <1>3, <2>1, <2>2
<1>5. g \in FlitType /\ g.type \in Types /\ g.type = f.type
  BY <1>4 DEF Drawn, FlitType, Types
<1> DEFINE there == There(v, g)
           h == Reached(g, there)
           w == [g EXCEPT !.type = "VALIANT"]
<1>6. there \in BOOLEAN
  BY DEF There, InValGroup, InValSwitch
<1>7. Arrived(g) = h
  BY DEF There, ToGroup
<1>8. Becomes(g, h, g.type, there) /\ Becomes(g, w, valiant, no)
  <2>1. Becomes(g, h, g.type, there)
    BY <1>5, <1>6, MarkedAs
  <2>2. Becomes(g, w, valiant, no)
    BY <1>2, <1>5, MarkedAs
  <2> QED BY <2>1, <2>2
<1>9. (h.reached <=> g.reached \/ there) /\ w.reached = g.reached
  BY <1>2, <1>5, <1>8 DEF Becomes, FlitType
<1>10. ~AtInjection(f) => (There(v, g) <=> There(v, f)) /\ (Via(v, g) <=> Via(v, f))
  BY <1>4, DrawnAsBefore
<1> HIDE DEF Arrived
<1>11. CASE h.reached
  <2>1. t.flit = h /\ t.out = MinPort(h)
    BY <1>3, <1>7, <1>11 DEF Direct, To
  <2>2. ~Via(v, h)
    BY <1>11 DEF Via
  <2>3. ~AtInjection(f) => ~Via(v, f) \/ There(v, f)
    BY <1>9, <1>10, <1>11 DEF Via
  <2> DEFINE type == g.type
  <2>4. Becomes(g, h, type, there) /\ type = f.type
    BY <1>5, <1>8
  <2> HIDE DEF h, w, valiant, no, type
  <2>5. Sent(v, f, h, MinPort(h))
    BY <1>1, <1>4, <1>6, <2>2, <2>3, <2>4, SentDirect
  <2> QED BY <2>1, <2>5
<1>12. CASE ~h.reached
  <2>1. t.flit = w /\ t.out = ValPort(g)
    BY <1>3, <1>7, <1>12 DEF ByVal, To
  <2>2. ValPort(g) = ValPort(w)
    BY <1>8, SameThere DEF Becomes
  <2>3. ~AtInjection(f) => Via(v, f)
    BY <1>1, <1>9, <1>10, <1>12 DEF Via
  <2>4. ~w.reached /\ ~There(v, g)
    BY <1>9, <1>12
  <2>5. Becomes(g, w, "VALIANT", no)
    BY <1>8
  <2> HIDE DEF h, w, valiant, no
  <2>6. Sent(v, f, w, ValPort(w))
    BY <1>1, <1>2, <1>4, <2>3, <2>4, <2>5, SentByVal
  <2> QED BY <2>1, <2>2, <2>6
<1> QED BY <1>11, <1>12

LEMMA AcorSent ==
  ASSUME NEW v \in Variants, v.routing = "acor", NEW f, Net(v, f), NEW t \in EnrouteAcor(v, f)
  PROVE  Sent(v, f, t.flit, t.out)
<1> DEFINE valiant == "VALIANT"
           none == "NONE"
           kinds == [s \in Statuses |-> AcorKinds([f EXCEPT !.status = s])]
<1>1. /\ v.routing \in ByValiant /\ Away(v) /\ v.routing \notin WeighsBoth
      /\ v.routing \notin Weighing /\ v \in Configurations
  BY Configured DEF ByValiant, Away, WeighsBoth, Weighing
<1>2. valiant \in Types /\ valiant = "VALIANT" /\ none \in Types /\ none = "NONE"
  BY DEF Types
<1>3. PICK g \in ChosenByStatus(v, f, kinds) :
        t = IF ReachedByStatus(g).reached THEN Direct(Unmarked(ReachedByStatus(g)))
            ELSE ByVal(ReachedByStatus(g))
  BY Zenon DEF EnrouteAcor
<1>4. Drawn(v, f, g)
  <2>1. f \in FlitType
    BY DEF Net
  <2>2. ASSUME NEW s \in Statuses
        PROVE  /\ kinds[s] \in SUBSET Kinds
               /\ Group(f.src) # Group(f.dest) => "LOCAL_MM" \notin kinds[s]
    <3> DEFINE e == [f EXCEPT !.status = s]
    <3>1. e.src = f.src /\ e.dest = f.dest /\ kinds[s] = AcorKinds(e)
      BY <2>1 DEF FlitType
    <3> HIDE DEF e, kinds
    <3> QED BY <3>1 DEF AcorKinds, GlobalKinds, Kinds
  <2> HIDE DEF kinds
  <2> QED BY <1>1, <1>3, <2>2, DrawnByStatus
<1>5. g \in FlitType /\ g.type = f.type
  BY <1>4 DEF Drawn
<1> DEFINE there == There(v, g)
           r == Reached(g, there)
           h == [r EXCEPT !.type = "NONE"]
           w == [r EXCEPT !.type = "VALIANT"]
<1>6. there \in BOOLEAN
  BY DEF There, InValGroup, InValSwitch
<1>7. ReachedByStatus(g) = r
  BY DEF There, ToGroup, ReachedByStatus
<1>8. Becomes(g, h, none, there) /\ Becomes(g, w, valiant, there)
  BY <1>2, <1>5, <1>6, MarkedAs
<1>9. /\ h.reached <=> g.reached \/ there
      /\ w.reached = h.reached /\ r.reached = h.reached
  <2>1. h.reached <=> g.reached \/ there
    BY <1>8 DEF Becomes
  <2>2. w.reached = h.reached /\ r.reached = h.reached
    BY <1>5 DEF Reached, FlitType
  <2> QED BY <2>1, <2>2
<1>10. ~AtInjection(f) => (There(v, g) <=> There(v, f)) /\ (Via(v, g) <=> Via(v, f))
  BY <1>4, DrawnAsBefore
<1>11. CASE h.reached
  <2>1. t.flit = h /\ t.out = MinPort(h)
    BY <1>3, <1>7, <1>9, <1>11 DEF Direct, To, Unmarked
  <2>2. ~Via(v, h)
    BY <1>11 DEF Via
  <2>3. ~AtInjection(f) => ~Via(v, f) \/ There(v, f)
    BY <1>9, <1>10, <1>11 DEF Via
  <2>4. ~InSource(f)
    BY <1>1, <1>4, <1>9, <1>11, NotThereAtHome
  <2> HIDE DEF h, w, r, valiant, none
  <2>5. Sent(v, f, h, MinPort(h))
    BY <1>1, <1>4, <1>6, <1>8, <2>2, <2>3, <2>4, SentDirect
  <2> QED BY <2>1, <2>5
<1>12. CASE ~h.reached
  <2>1. t.flit = w /\ t.out = ValPort(r)
    BY <1>3, <1>7, <1>9, <1>12 DEF ByVal, To
  <2>2. ValPort(r) = ValPort(w)
    BY <1>5 DEF ValPort, FlitType, Reached
  <2>3. ~AtInjection(f) => Via(v, f)
    BY <1>1, <1>9, <1>10, <1>12 DEF Via
  <2>4. ~w.reached /\ ~There(v, g)
    BY <1>9, <1>12
  <2>5. Becomes(g, w, "VALIANT", there)
    BY <1>8
  <2> HIDE DEF h, w, r, valiant, none
  <2>6. Sent(v, f, w, ValPort(w))
    BY <1>1, <1>4, <1>6, <2>3, <2>4, <2>5, SentByVal
  <2> QED BY <2>1, <2>2, <2>6
<1> QED BY <1>11, <1>12

(* The decision of srcAdp and pbAcor, once the Valiant node is drawn.      *)
LEMMA DecidersSent ==
  ASSUME NEW v \in Variants, v.routing \in WeighsBoth, v.misrouting = "MM" => Away(v),
         NEW f, Net(v, f), NEW g, Drawn(v, f, g),
         NEW there \in BOOLEAN, there <=> There(v, g),
         NEW t, \E m \in SourceAdpMisroutes(Reached(g, there)) :
                   t = IF m THEN ByVal(Reached(g, there)) ELSE Direct(Unmarked(Reached(g, there)))
  PROVE  Sent(v, f, t.flit, t.out)
<1> DEFINE valiant == "VALIANT"
           none == "NONE"
           r == Reached(g, there)
           h == [r EXCEPT !.type = "NONE"]
           w == [r EXCEPT !.type = "VALIANT"]
<1>1. /\ v.routing \in ByValiant /\ v.routing \notin {"obl", "acor"}
  BY DEF ByValiant, WeighsBoth
<1>2. valiant \in Types /\ valiant = "VALIANT" /\ none \in Types /\ none = "NONE"
  BY DEF Types
<1>3. g \in FlitType /\ g.type = f.type /\ g.reached = f.reached /\ SamePlace(f, g)
      /\ g.sw \in Switches /\ g.dest \in Nodes
  BY DEF Drawn, FlitType
<1>4. Becomes(g, h, none, there) /\ Becomes(g, w, valiant, there)
  BY <1>2, <1>3, MarkedAs
<1>5. /\ h.reached <=> g.reached \/ there
      /\ w.reached = h.reached /\ r.reached = h.reached
  <2>1. h.reached <=> g.reached \/ there
    BY <1>4 DEF Becomes
  <2>2. w.reached = h.reached /\ r.reached = h.reached
    BY <1>3 DEF Reached, FlitType
  <2> QED BY <2>1, <2>2
<1>6. ~AtInjection(f) => (There(v, g) <=> There(v, f)) /\ (Via(v, g) <=> Via(v, f))
  BY DrawnAsBefore
<1>7. /\ GoesByVal(r) <=> f.type = "VALIANT" /\ ~h.reached
      /\ AtInjection(r) <=> AtInjection(f)
      /\ Leaves(r) <=> Near(f.sw, f.dest) # 3
  <2>1. r.sw = g.sw /\ r.dest = g.dest /\ r.port = g.port /\ r.type = g.type
    BY <1>3 DEF Reached, FlitType
  <2>2. g.sw = f.sw /\ g.dest = f.dest /\ g.port = f.port
    BY <1>3 DEF SamePlace
  <2>3. Leaves(r) <=> Near(r.sw, r.dest) # 3
    BY <1>3, <2>1, LeavesFar
  <2> HIDE DEF r
  <2> QED BY <1>3, <1>5, <2>1, <2>2, <2>3 DEF GoesByVal, AtInjection
<1>8. \/ /\ t = ByVal(r) /\ ~r.reached
         /\ ~AtInjection(r) => GoesByVal(r)
      \/ /\ t = Direct(Unmarked(r))
         /\ ~AtInjection(r) => ~Leaves(r) \/ ~GoesByVal(r)
  <2> HIDE DEF r
  <2>1. PICK m \in SourceAdpMisroutes(r) : t = IF m THEN ByVal(r) ELSE Direct(Unmarked(r))
    BY DEF r
  <2> QED BY <2>1, Zenon DEF SourceAdpMisroutes, Starts, GoesByVal
<1>9. CASE t = ByVal(r) /\ ~r.reached /\ (~AtInjection(r) => GoesByVal(r))
  <2>1. t.flit = w /\ t.out = ValPort(r)
    BY <1>9 DEF ByVal, To
  <2>2. ValPort(r) = ValPort(w)
    BY <1>3 DEF ValPort, FlitType, Reached
  <2>3. ~w.reached /\ ~There(v, g)
    BY <1>5, <1>9
  <2>4. ~AtInjection(f) => f.type = "VALIANT" /\ Via(v, f)
    BY <1>1, <1>3, <1>5, <1>7, <1>9 DEF Via
  <2>5. Becomes(g, w, "VALIANT", there)
    BY <1>4
  <2> HIDE DEF h, w, r, valiant, none
  <2>6. Sent(v, f, w, ValPort(w))
    BY <1>1, <2>3, <2>4, <2>5, SentByVal
  <2> QED BY <2>1, <2>2, <2>6
<1>10. CASE t = Direct(Unmarked(r)) /\ (~AtInjection(r) => ~Leaves(r) \/ ~GoesByVal(r))
  <2>1. t.flit = h /\ t.out = MinPort(h)
    BY <1>10 DEF Direct, To, Unmarked
  <2>2. ~Via(v, h)
    BY <1>1, <1>3 DEF Via, Reached, FlitType
  <2>3. ~AtInjection(f) => ~Via(v, f) \/ There(v, f) \/ Near(f.sw, f.dest) = 3
    BY <1>1, <1>3, <1>5, <1>6, <1>7, <1>10 DEF Via
  <2>4. ~AtInjection(f) => ~(v.misrouting = "MM" /\ InSource(f) /\ f.type = "VALIANT")
    <3> SUFFICES ASSUME ~AtInjection(f), v.misrouting = "MM", InSource(f), f.type = "VALIANT"
                 PROVE  FALSE
      OBVIOUS
    <3>1. ~h.reached
      BY <1>5, NotThereAtHome
    <3>2. Near(f.sw, f.dest) # 3
      BY DEF InSource, Near, Group
    <3> QED BY <1>7, <1>10, <3>1, <3>2
  <2> HIDE DEF h, w, r, valiant, none
  <2>5. Sent(v, f, h, MinPort(h))
    BY <1>1, <1>2, <1>4, <2>2, <2>3, <2>4, SentDirect
  <2> QED BY <2>1, <2>5
<1> QED BY <1>8, <1>9, <1>10

LEMMA SourceAdpSent ==
  ASSUME NEW v \in Variants, v.routing = "srcAdp", NEW f, Net(v, f),
         NEW t \in EnrouteSourceAdp(v, f)
  PROVE  Sent(v, f, t.flit, t.out)
<1>1. /\ v.routing \in WeighsBoth /\ ~Away(v) /\ v.misrouting # "MM"
  BY Configured DEF WeighsBoth, Away, Accepted
<1> DEFINE kinds == SourceAdpKinds(v, f)
<1>2. PICK g : /\ IF AtInjection(f) /\ (v.resetVal \/ ~f.chosen) THEN g \in Chosen(f, kinds)
                  ELSE g = f
               /\ \E m \in SourceAdpMisroutes(Reached(g, InValSwitch(g))) :
                     t = IF m THEN ByVal(Reached(g, InValSwitch(g)))
                         ELSE Direct(Unmarked(Reached(g, InValSwitch(g))))
  BY Zenon DEF EnrouteSourceAdp
<1>3. Drawn(v, f, g)
  <2>1. CASE ~(AtInjection(f) /\ (v.resetVal \/ ~f.chosen))
    <3>1. g = f /\ (AtInjection(f) => f.chosen)
      BY <1>2, <2>1
    <3> QED BY <1>1, <3>1, DrawnAlready
  <2>2. CASE AtInjection(f) /\ (v.resetVal \/ ~f.chosen)
    <3>1. kinds \in SUBSET Kinds
      BY DEF SourceAdpKinds, GlobalKinds, Kinds
    <3> HIDE DEF kinds
    <3>2. g \in Chosen(f, kinds)
      BY <1>2, <2>2
    <3> QED BY <1>1, <2>2, <3>1, <3>2, DrawnNow
  <2> QED BY <2>1, <2>2
<1> DEFINE there == InValSwitch(g)
<1>4. there \in BOOLEAN /\ (there <=> There(v, g))
  BY DEF InValSwitch, There, ToGroup
<1>5. \E m \in SourceAdpMisroutes(Reached(g, there)) :
         t = IF m THEN ByVal(Reached(g, there)) ELSE Direct(Unmarked(Reached(g, there)))
  BY <1>2
<1> HIDE DEF there
<1> QED BY <1>1, <1>3, <1>4, <1>5, DecidersSent

LEMMA PbAcorSent ==
  ASSUME NEW v \in Variants, v.routing = "pbAcor", NEW f, Net(v, f),
         NEW t \in EnroutePbAcor(v, f)
  PROVE  Sent(v, f, t.flit, t.out)
<1> DEFINE kinds == [s \in Statuses |-> PbAcorKinds(v, [f EXCEPT !.status = s])]
<1>1. v.routing \in WeighsBoth /\ v \in Configurations /\ (v.misrouting = "MM" => Away(v))
  BY Configured DEF WeighsBoth, Away, Accepted, MixedModeAborts, Configurations
<1>2. PICK g \in ChosenByStatus(v, f, kinds) :
        \E m \in SourceAdpMisroutes(ReachedByStatus(g)) :
           t = IF m THEN ByVal(ReachedByStatus(g)) ELSE Direct(Unmarked(ReachedByStatus(g)))
  BY Zenon DEF EnroutePbAcor
<1>3. Drawn(v, f, g)
  <2>1. f \in FlitType
    BY DEF Net
  <2>2. ASSUME NEW s \in Statuses
        PROVE  /\ kinds[s] \in SUBSET Kinds
               /\ Away(v) /\ Group(f.src) # Group(f.dest) => "LOCAL_MM" \notin kinds[s]
    <3> DEFINE e == [f EXCEPT !.status = s]
    <3>1. e.src = f.src /\ e.dest = f.dest /\ kinds[s] = PbAcorKinds(v, e)
      BY <2>1 DEF FlitType
    <3>2. Away(v) => v.valiantType # "FULL"
      BY DEF Away
    <3> HIDE DEF e, kinds
    <3> QED BY <3>1, <3>2 DEF PbAcorKinds, GlobalKinds, Kinds
  <2> HIDE DEF kinds
  <2> QED BY <1>1, <1>2, <2>2, DrawnByStatus
<1> DEFINE there == IF g.status = "CRGLGr" THEN InValGroup(g) ELSE InValSwitch(g)
<1>4. there \in BOOLEAN /\ (there <=> There(v, g))
  BY DEF InValSwitch, InValGroup, There, ToGroup
<1>5. \E m \in SourceAdpMisroutes(Reached(g, there)) :
         t = IF m THEN ByVal(Reached(g, there)) ELSE Direct(Unmarked(Reached(g, there)))
  BY <1>2 DEF ReachedByStatus
<1> HIDE DEF there
<1> QED BY <1>1, <1>3, <1>4, <1>5, DecidersSent

(* All of them.                                                            *)
LEMMA ByValiantSent ==
  ASSUME NEW v \in Variants, v.routing \in ByValiant, NEW f, Net(v, f),
         NEW t \in EnrouteAtSource(v, f)
  PROVE  Sent(v, f, t.flit, t.out)
<1>1. CASE v.routing = "ugal"
  <2> DEFINE there == InValGroup(f)
  <2>1. UsesValNode(v) /\ there \in BOOLEAN /\ (there <=> There(v, f)) /\ t \in EnrouteUgal(f)
    BY <1>1 DEF UsesValNode, InValGroup, There, ToGroup, EnrouteAtSource
  <2>2. \/ t = ByValUnlessReached(Reached(f, there)) /\ (GoesByVal(f) \/ AtInjection(f))
        \/ t = Direct(f) /\ ~GoesByVal(f)
    BY <2>1, WaysOfUgal
  <2> HIDE DEF there
  <2> QED BY <2>1, <2>2, KeepersSent
<1>2. CASE v.routing = "pb"
  <2> DEFINE there == InValGroup(f)
  <2>1. UsesValNode(v) /\ there \in BOOLEAN /\ (there <=> There(v, f)) /\ t \in EnroutePb(f)
    BY <1>2 DEF UsesValNode, InValGroup, There, ToGroup, EnrouteAtSource
  <2>2. \E m \in (IF Starts(f) THEN BOOLEAN ELSE {GoesByVal(f)}) :
            t = IF m THEN ByValUnlessReached(Reached(f, there))
                     ELSE Direct(IF Starts(f) THEN Unmarked(f) ELSE f)
    BY <2>1, Zenon DEF EnroutePb
  <2> HIDE DEF there
  <2>3. \/ t = ByValUnlessReached(Reached(f, there)) /\ (GoesByVal(f) \/ AtInjection(f))
        \/ t = Direct(f) /\ ~GoesByVal(f)
        \/ t = Direct(Unmarked(f)) /\ AtInjection(f)
    BY <2>2, WaysOfPb
  <2> QED BY <2>1, <2>3, KeepersSent
<1>3. CASE v.routing = "pbAny"
  <2> DEFINE there == InValSwitch(f)
  <2>1. UsesValNode(v) /\ there \in BOOLEAN /\ (there <=> There(v, f)) /\ t \in EnroutePbAny(f)
    BY <1>3 DEF UsesValNode, InValSwitch, There, ToGroup, EnrouteAtSource
  <2>2. \E m \in (IF Starts(f) THEN BOOLEAN ELSE {GoesByVal(f)}) :
            t = IF m THEN ByValUnlessReached(Reached(f, there))
                     ELSE Direct(IF Starts(f) THEN Unmarked(f) ELSE f)
    BY <2>1, Zenon DEF EnroutePbAny
  <2> HIDE DEF there
  <2>3. \/ t = ByValUnlessReached(Reached(f, there)) /\ (GoesByVal(f) \/ AtInjection(f))
        \/ t = Direct(f) /\ ~GoesByVal(f)
        \/ t = Direct(Unmarked(f)) /\ AtInjection(f)
    BY <2>2, WaysOfPb
  <2> QED BY <2>1, <2>3, KeepersSent
<1>4. CASE v.routing = "obl"
  BY <1>4, ObliviousSent DEF EnrouteAtSource
<1>5. CASE v.routing = "srcAdp"
  BY <1>5, SourceAdpSent DEF EnrouteAtSource
<1>6. CASE v.routing = "acor"
  BY <1>6, AcorSent DEF EnrouteAtSource
<1>7. CASE v.routing = "pbAcor"
  BY <1>7, PbAcorSent DEF EnrouteAtSource
<1> QED BY <1>1, <1>2, <1>3, <1>4, <1>5, <1>6, <1>7 DEF ByValiant

-----------------------------------------------------------------------------
(* What a hop makes of a flit.                                             *)
OffHome(f) == hPos(f.sw) = Group(f.src) /\ hPos(f.sw) # Group(f.dest)

(* The hop is one within the group that is to be followed by one out of it.*)
LeavesNext(v, g, out) ==
    /\ PortType(out) = "local" /\ OffHome(g)
    /\ ~g.globalDone /\ g.type \notin {"GLOBAL", "GLOBAL_MANDATORY", "VALIANT"}
    /\ IF v.misrouting = "MM" THEN PortType(g.port) = "local"
       ELSE /\ v.misrouting \in {"NRG", "RRG"}
            /\ out # MinPort(g) /\ PortType(g.port) # "global"

SameAims(g, h) ==
    /\ h.src = g.src /\ h.dest = g.dest /\ h.valId = g.valId /\ h.reached = g.reached
    /\ h.type = g.type /\ h.status = g.status /\ h.minLen = g.minLen /\ h.valLen = g.valLen

Moved(v, g, h, out, vc) ==
    /\ h \in FlitType /\ SameAims(g, h)
    /\ h.sw = Next_(g.sw, out) /\ h.port = Entry(g.sw, out) /\ h.channel = vc
    /\ h.hopCount = g.hopCount + 1 /\ g.hopCount \in Nat
    /\ h.byVal <=> IF AtInjection(g) THEN g.type = "VALIANT" ELSE g.byVal
    /\ h.localDone <=> /\ hPos(h.sw) = hPos(g.sw)
                       /\ g.localDone \/ g.type \in {"LOCAL", "LOCAL_MM"}
    /\ h.globalDone <=> g.globalDone \/ g.type \in {"GLOBAL", "GLOBAL_MANDATORY"}
    /\ h.mandatory <=> \/ hPos(h.sw) = hPos(g.sw) /\ g.mandatory
                       \/ LeavesNext(v, g, out)

LEMMA Crossing ==
  ASSUME NEW v \in Variants, NEW g \in FlitType, NEW out \in LinkPorts, NEW vc \in Channels
  PROVE  Moved(v, g, Traverse(v, g, out, vc), out, vc)
<1> DEFINE next == neighList[FALSE][g.sw][out]
           entry == neighPort[FALSE][g.sw][out]
           local == g.localDone \/ g.type \in {"LOCAL", "LOCAL_MM"}
           global == g.globalDone \/ g.type \in {"GLOBAL", "GLOBAL_MANDATORY"}
           marked == [g EXCEPT !.localDone = local, !.globalDone = global]
           left == IF hPos(next) # hPos(g.sw)
                   THEN [marked EXCEPT !.mandatory = FALSE, !.localDone = FALSE]
                   ELSE marked
           must == MustLeave(v, marked, out)
           byVal == IF AtInjection(g) THEN g.type = "VALIANT" ELSE left.byVal
           mandatory == left.mandatory \/ must
           h == [left EXCEPT !.mandatory = mandatory, !.sw = next, !.port = entry,
                             !.channel = vc, !.hopCount = left.hopCount + 1, !.byVal = byVal]
<1>1. Crosses(g.sw, out)
  BY Link DEF FlitType
<1>2. /\ next \in Switches /\ entry \in Ports
      /\ next = Next_(g.sw, out) /\ entry = Entry(g.sw, out)
  <2>1. next = Next_(g.sw, out) /\ entry = Entry(g.sw, out)
    BY DEF Next_, Entry
  <2> HIDE DEF next, entry
  <2> QED BY <1>1, <2>1, PortOfLink DEF Crosses
<1>3. /\ local \in BOOLEAN /\ global \in BOOLEAN /\ must \in BOOLEAN
  BY DEF FlitType, MustLeave
<1> HIDE DEF next, entry, local, global, must
<1>4. /\ marked \in FlitType /\ SameAims(g, marked) /\ marked.hopCount = g.hopCount
      /\ marked.byVal = g.byVal
      /\ marked.localDone = local /\ marked.globalDone = global
      /\ marked.mandatory = g.mandatory /\ marked.sw = g.sw /\ marked.port = g.port
  BY <1>3 DEF FlitType, SameAims
<1>5. g.hopCount \in Nat /\ g.type \in Types /\ g.globalDone \in BOOLEAN
  BY DEF FlitType, Types
<1> HIDE DEF marked
<1>6. must <=> LeavesNext(v, g, out)
  <2>1. v.misrouting \in {"CRG", "MM", "NRG", "RRG"}
    BY Configured DEF Configurations
  <2>2. MinPort(marked) = MinPort(g) /\ marked.src = g.src /\ marked.dest = g.dest
        /\ marked.type = g.type
    BY <1>4 DEF MinPort, SameAims
  <2> QED BY <1>4, <2>1, <2>2 DEF must, MustLeave, LeavesNext, OffHome, global
<1>7. /\ left \in FlitType /\ SameAims(g, left) /\ left.hopCount = g.hopCount
      /\ left.byVal = g.byVal
      /\ left.localDone <=> hPos(next) = hPos(g.sw) /\ local
      /\ left.globalDone = global
      /\ left.mandatory <=> hPos(next) = hPos(g.sw) /\ g.mandatory
  <2>1. CASE hPos(next) = hPos(g.sw)
    BY <1>4, <2>1
  <2>2. CASE hPos(next) # hPos(g.sw)
    BY <1>4, <2>2 DEF FlitType, SameAims
  <2> QED BY <2>1, <2>2
<1> HIDE DEF left
<1>8. mandatory \in BOOLEAN /\ byVal \in BOOLEAN
  BY <1>3, <1>7 DEF FlitType
<1> HIDE DEF mandatory, byVal
<1>9. /\ h \in FlitType /\ SameAims(g, h) /\ h.hopCount = g.hopCount + 1
      /\ h.localDone = left.localDone /\ h.globalDone = left.globalDone
      /\ h.mandatory = mandatory /\ h.sw = next /\ h.port = entry /\ h.channel = vc
      /\ h.byVal = byVal
  <2> DEFINE there == [left EXCEPT !.mandatory = mandatory, !.sw = next, !.port = entry]
             hops == left.hopCount + 1
  <2>0. hops \in Nat
    BY <1>5, <1>7
  <2> HIDE DEF hops
  <2>a. there \in FlitType
    BY <1>2, <1>7, <1>8 DEF FlitType
  <2> HIDE DEF there
  <2>b. [there EXCEPT !.channel = vc, !.hopCount = hops, !.byVal = byVal] \in FlitType
    BY <1>8, <2>0, <2>a DEF FlitType
  <2>1. h \in FlitType
    BY <2>b, Zenon DEF there, hops
  <2>2. /\ h.hopCount = g.hopCount + 1
        /\ h.localDone = left.localDone /\ h.globalDone = left.globalDone
        /\ h.mandatory = mandatory /\ h.sw = next /\ h.port = entry /\ h.channel = vc
        /\ h.byVal = byVal
    BY <1>7 DEF FlitType
  <2>3. SameAims(g, h)
    BY <1>7 DEF FlitType, SameAims
  <2> QED BY <2>1, <2>2, <2>3
<1>10. h = Traverse(v, g, out, vc)
  BY Zenon DEF Traverse, h, mandatory, left, marked, must, byVal, local, global, next, entry
<1> HIDE DEF h
<1>11. Moved(v, g, h, out, vc)
  BY <1>2, <1>5, <1>6, <1>7, <1>9 DEF Moved, mandatory, local, global, byVal
<1> QED BY <1>10, <1>11

-----------------------------------------------------------------------------
(* By way of a Valiant node: a flit that waits.                            *)
LEMMA Placed ==
  ASSUME NEW v, NEW f, Net(v, f)
  PROVE  /\ f \in FlitType /\ f.sw \in Switches /\ f.port \in Ports /\ f.dest \in Nodes
         /\ f.valId \in Nodes /\ f.src \in Nodes /\ f.hopCount \in Nat
         /\ PortType(f.port) \in {"node", "local", "global"}
BY DEF Net, FlitType, PortType

(* How long the way is on which a flit is.                                 *)
Measured(f) ==
    /\ HopsToDest(f.sw, f.dest) \in 0..3 /\ HopsToDest(f.sw, f.valId) \in 0..3
    /\ HopsToDest(SwitchOf(f.valId), f.dest) \in 0..3 /\ WayLength(f) \in 0..6
    /\ Near(f.sw, f.dest) \in 0..3 /\ Near(f.sw, f.valId) \in 0..3
    /\ Near(f.sw, f.dest) = 3 => HopsToDest(f.sw, f.dest) = 0

LEMMA Measures ==
  ASSUME NEW f, f.sw \in Switches, f.dest \in Nodes, f.valId \in Nodes
  PROVE  Measured(f)
<1>1. SwitchOf(f.valId) \in Switches
  BY NodeSwitch
<1>2. /\ Counted(f.sw, f.dest) /\ Counted(f.sw, f.valId)
      /\ Counted(SwitchOf(f.valId), f.dest)
      /\ Nearer(f.sw, f.dest) /\ Nearer(f.sw, f.valId)
  BY <1>1, HopsCounted, NearerNext
<1>3. /\ HopsToDest(f.sw, f.dest) \in 0..3 /\ HopsToDest(f.sw, f.valId) \in 0..3
      /\ HopsToDest(SwitchOf(f.valId), f.dest) \in 0..3
  BY <1>2 DEF Counted
<1>4. Near(f.sw, f.dest) \in 0..3 /\ Near(f.sw, f.valId) \in 0..3
  BY <1>2 DEF Nearer
<1>5. Near(f.sw, f.dest) = 3 => HopsToDest(f.sw, f.dest) = 0
  BY <1>2 DEF Counted, Nearer
<1>6. WayLength(f) = HopsToDest(f.sw, f.valId) + HopsToDest(SwitchOf(f.valId), f.dest)
  BY DEF WayLength
<1> QED BY <1>3, <1>4, <1>5, <1>6 DEF Measured

(* The Valiant node's switch is no nearer than in the group of the flit.   *)
LEMMA ThereShorter ==
  ASSUME NEW v, NEW f, f.sw \in Switches, f.dest \in Nodes, f.valId \in Nodes, There(v, f)
  PROVE  HopsToDest(f.sw, f.dest) <= WayLength(f)
<1> DEFINE t == SwitchOf(f.valId)
<1>1. t \in Switches /\ hPos(f.sw) = hPos(t)
  BY NodeSwitch DEF There, InValGroup, InValSwitch, Group
<1>2. Measured(f) /\ Counted(f.sw, f.valId)
  BY Measures, HopsCounted
<1>3. CASE f.sw = t
  <2>1. WayLength(f) = HopsToDest(f.sw, f.valId) + HopsToDest(f.sw, f.dest)
    BY <1>3 DEF WayLength
  <2> QED BY <1>2, <2>1 DEF Measured
<1>4. CASE f.sw # t
  <2>1. HopsToDest(f.sw, f.valId) \in 1..3
    BY <1>2, <1>4 DEF Counted
  <2>2. HopsToDest(f.sw, f.dest) <= 1 + HopsToDest(t, f.dest)
    BY <1>1, Roundabout
  <2>3. WayLength(f) = HopsToDest(f.sw, f.valId) + HopsToDest(t, f.dest)
    BY DEF WayLength
  <2> QED BY <1>2, <2>1, <2>2, <2>3 DEF Measured
<1> QED BY <1>3, <1>4

LEMMA ByValiantStays ==
  ASSUME NEW v \in Variants, v.routing \in ByValiant, NEW f, Net(v, f), NEW g, NEW out,
         Sent(v, f, g, out)
  PROVE  Net(v, g)
<1>1. /\ g \in FlitType /\ SamePlace(f, g) /\ (~AtInjection(f) => SameWay(f, g))
  BY DEF Sent
<1>2. /\ g.sw = f.sw /\ g.port = f.port /\ g.channel = f.channel /\ g.src = f.src
      /\ g.dest = f.dest /\ g.hopCount = f.hopCount /\ g.minLen = f.minLen
      /\ g.byVal = f.byVal /\ g.localDone = f.localDone /\ g.globalDone = f.globalDone
      /\ g.mandatory = f.mandatory
  BY <1>1 DEF SamePlace
<1>3. /\ AtInjection(g) <=> AtInjection(f)
      /\ InSource(g) <=> InSource(f)
      /\ ~AtInjection(f) => /\ g.valId = f.valId /\ g.valLen = f.valLen
                            /\ WayLength(g) = WayLength(f) /\ (There(v, g) <=> There(v, f))
  BY <1>1, <1>2, SameThere DEF AtInjection, InSource, SameWay
<1>4. Measured(f) /\ Measured(g) /\ f.hopCount \in Nat
  BY <1>1, Placed, Measures DEF FlitType
<1>5. ~AtInjection(f) =>
        /\ Via(v, g) => Via(v, f)
        /\ v.routing \in Weighing /\ f.type # "VALIANT" => g.type # "VALIANT"
        /\ Via(v, f) /\ ~Via(v, g) => There(v, f) \/ Near(f.sw, f.dest) = 3
        /\ v.misrouting = "MM" /\ InSource(f) /\ f.type = "VALIANT" => g.type = "VALIANT"
  BY DEF Sent
<1>6. v.routing \notin InTransit /\ v.routing # "car" /\ v.routing # "par" /\ v.routing # "olm"
  BY DEF InTransit, ByValiant
<1>7. PathBounded(v, g)
  <2>1. Ahead(v, g) = IF Via(v, g) THEN 5 + HopsToDest(g.sw, g.valId)
                                   ELSE 2 + HopsToDest(g.sw, g.dest)
    BY <1>6 DEF Ahead
  <2>2. Ahead(v, f) = IF Via(v, f) THEN 5 + HopsToDest(f.sw, f.valId)
                                   ELSE 2 + HopsToDest(f.sw, f.dest)
    BY <1>6 DEF Ahead
  <2>3. CASE AtInjection(f)
    <3>1. f.hopCount = 0
      BY <2>3 DEF Net, Injected
    <3> QED BY <1>2, <1>4, <2>1, <3>1 DEF PathBounded, Measured
  <2>4. CASE ~AtInjection(f)
    <3>1. f.hopCount + Ahead(v, f) <= 8
      BY <1>6 DEF Net, PathBounded
    <3>2. Ahead(v, g) <= Ahead(v, f)
      BY <1>2, <1>3, <1>4, <1>5, <2>1, <2>2, <2>4 DEF Measured
    <3>3. Ahead(v, g) \in Nat /\ Ahead(v, f) \in Nat
      BY <1>4, <2>1, <2>2 DEF Measured
    <3> QED BY <1>2, <1>4, <3>1, <3>2, <3>3 DEF PathBounded
  <2> QED BY <2>3, <2>4
<1>8. InOrder(v, g)
  <2> SUFFICES ASSUME v.usage = "BASE" PROVE InOrder(v, g)
    BY DEF InOrder
  <2>1. Length(v.routing) \in 5..7 /\ Len(typeVc[v.routing]) = Length(v.routing)
    BY Configured, HopTypes DEF Bases
  <2>2. PICK i \in 0..Len(typeVc[v.routing]) : At(v, f, i) /\ i <= Furthest(v, f)
    BY DEF Net, InOrder
  <2>3. At(v, g, i)
    BY <1>2, <1>3, <2>2 DEF At
  <2>4. /\ Furthest(v, f) = IF Onward(v, f) THEN Near(f.sw, f.valId)
                            ELSE Length(v.routing) - 3 + Near(f.sw, f.dest)
        /\ Furthest(v, g) = IF Onward(v, g) THEN Near(g.sw, g.valId)
                            ELSE Length(v.routing) - 3 + Near(g.sw, g.dest)
    BY <1>6, <2>1 DEF Furthest
  <2>5. i <= Furthest(v, g)
    <3>1. CASE AtInjection(f)
      <4>1. i = 0
        BY <2>2, <3>1 DEF At
      <4> QED BY <1>4, <2>1, <2>4, <4>1 DEF Measured
    <3>2. CASE ~AtInjection(f)
      <4>1. Onward(v, g) => Onward(v, f)
        BY <1>3, <1>5, <3>2 DEF Onward
      <4>2. Onward(v, f) => Near(f.sw, f.valId) <= 2
        <5>1. Near(f.sw, f.valId) = 3 => There(v, f)
          BY DEF Near, There, InValGroup, InValSwitch, Group
        <5> QED BY <1>4, <5>1 DEF Onward, Measured
      <4> QED BY <1>2, <1>3, <1>4, <2>1, <2>2, <2>4, <3>2, <4>1, <4>2 DEF Measured
    <3> QED BY <3>1, <3>2
  <2> QED BY <1>6, <2>3, <2>5 DEF InOrder
<1>9. Injected(v, g)
  <2>1. Injected(v, f)
    BY DEF Net
  <2>2. v.routing \in WeighsBoth /\ AtInjection(f) => g.valLen = WayLength(g)
    BY DEF Sent
  <2> QED BY <1>2, <1>3, <2>1, <2>2 DEF Injected
<1>10. Weighed(v, g)
  <2>1. Weighed(v, f)
    BY DEF Net
  <2>2. CASE AtInjection(f)
    BY <1>2, <1>3, <2>1, <2>2 DEF Weighed
  <2>3. CASE ~AtInjection(f)
    <3>1. ASSUME v.routing \in Weighing, ~g.byVal
          PROVE  g.type # "VALIANT" /\ g.hopCount + HopsToDest(g.sw, g.dest) = g.minLen
      BY <1>2, <1>5, <2>1, <2>3, <3>1 DEF Weighed
    <3>2. ASSUME v.routing \in WeighsBoth, g.byVal
          PROVE  IF Via(v, g) THEN g.hopCount + WayLength(g) = g.valLen
                 ELSE g.hopCount + HopsToDest(g.sw, g.dest) <= g.valLen
      <4>1. IF Via(v, f) THEN f.hopCount + WayLength(f) = f.valLen
            ELSE f.hopCount + HopsToDest(f.sw, f.dest) <= f.valLen
        BY <1>2, <2>1, <2>3, <3>2 DEF Weighed
      <4>2. There(v, f) \/ Near(f.sw, f.dest) = 3 => HopsToDest(f.sw, f.dest) <= WayLength(f)
        <5>1. There(v, f) => HopsToDest(f.sw, f.dest) <= WayLength(f)
          BY Placed, ThereShorter
        <5> QED BY <1>4, <5>1 DEF Measured
      <4> QED BY <1>2, <1>3, <1>4, <1>5, <2>3, <4>1, <4>2 DEF Measured
    <3> QED BY <1>2, <1>3, <2>1, <3>1, <3>2 DEF Weighed
  <2> QED BY <2>2, <2>3
<1>11. Flagged(v, g)
  <2>1. Flagged(v, f)
    BY DEF Net
  <2>2. Away(v) /\ Group(f.src) # Group(f.dest) =>
           Group(g.valId) # Group(f.src) /\ (InSource(f) => ~g.reached)
    BY DEF Sent
  <2>3. ASSUME v.misrouting = "MM", InSource(g), ~AtInjection(g), g.type # "VALIANT"
        PROVE  Near(g.sw, g.dest) = 1
    BY <1>2, <1>3, <1>5, <2>1, <2>3 DEF Flagged
  <2> QED BY <1>2, <1>3, <1>6, <2>1, <2>2, <2>3 DEF Flagged
<1>12. Misroutes(v, g)
  BY <1>6 DEF Misroutes
<1> QED BY <1>1, <1>7, <1>8, <1>9, <1>10, <1>11, <1>12 DEF Net

-----------------------------------------------------------------------------
(* The hop a moved flit has made.                                          *)
LEMMA GivenChannel ==
  ASSUME NEW v \in Variants, NEW e, Net(v, e), NEW out \in LinkPorts,
         NEW vc \in NextChannels(v, e, out)
  PROVE  vc \in Channels
<1>1. CASE v.usage # "BASE"
  <2>1. NextChannels(v, e, out) \subseteq Channels
    BY <1>1, SomeChannel
  <2> QED BY <2>1
<1>2. CASE v.usage = "BASE"
  <2>1. PortType(e.port) \in {"node", "local", "global"}
    BY Placed
  <2>2. v.routing = "olm" /\ e.localDone => PortType(e.port) = "local"
    BY DEF Net, Misroutes, InTransit
  <2>3. PICK i \in 0..Len(typeVc[v.routing]) : At(v, e, i)
    BY <1>2 DEF Net, InOrder
  <2>4. Continues(v, e, i, out)
    BY <1>2, <2>1, <2>2, <2>3, HopOn
  <2> QED BY <2>4 DEF Continues, MayMake
<1> QED BY <1>1, <1>2

(* The k-th hop, by the output, is the first after the i-th that may be,   *)
(* or repeats one.                                                         *)
Makes(v, e, h, i, out, k) ==
    /\ k \in 0..Len(typeVc[v.routing]) /\ k # 0 /\ At(v, h, k)
    /\ IF Repeats(v, e, out) THEN k <= i
       ELSE /\ i < k
            /\ \A j \in 1..Length(v.routing) :
                  i < j /\ typeVc[v.routing][j] = PortType(out) => k <= j

LEMMA MadeNext ==
  ASSUME NEW v \in Variants, v.usage = "BASE", NEW e, Net(v, e), NEW i, At(v, e, i),
         NEW out \in LinkPorts, NEW vc \in NextChannels(v, e, out),
         NEW g, g.sw \in Switches, NEW h, Moved(v, g, h, out, vc)
  PROVE  \E k \in 0..Len(typeVc[v.routing]) : Makes(v, e, h, i, out, k)
<1>1. PortType(e.port) \in {"node", "local", "global"}
  BY Placed
<1>2. v.routing = "olm" /\ e.localDone => PortType(e.port) = "local"
  BY DEF Net, Misroutes, InTransit
<1>3. Continues(v, e, i, out)
  BY <1>1, <1>2, HopOn
<1>4. PICK k \in 1..Length(v.routing) : MayMake(v, e, i, out, vc, k)
  BY <1>3 DEF Continues
<1>5. Len(typeVc[v.routing]) = Length(v.routing) /\ Length(v.routing) \in 5..7
  BY Configured, HopTypes DEF Bases
<1>6. PortType(h.port) = PortType(out) /\ h.channel = vc /\ PortType(out) # "node"
  BY Link DEF Moved, Crosses
<1>7. /\ typeVc[v.routing][k] = PortType(out) /\ vc = petitionVc[v.routing][k]
      /\ IF Repeats(v, e, out) THEN k <= i ELSE Follows(v.routing, i, PortType(out), vc, k)
  BY <1>4 DEF MayMake
<1>8. At(v, h, k)
  BY <1>5, <1>6, <1>7 DEF At, AtInjection
<1> QED BY <1>5, <1>7, <1>8 DEF Makes, Follows

(* The flit makes the first hop of the kind of the output, no later than   *)
(* the j-th.                                                               *)
LEMMA MadeBy ==
  ASSUME NEW v \in Variants, v.usage = "BASE", NEW e, Net(v, e), NEW i, At(v, e, i), i \in Nat,
         NEW out \in LinkPorts, NEW vc \in NextChannels(v, e, out),
         NEW g, g.sw \in Switches, NEW h, Moved(v, g, h, out, vc),
         NEW j \in 1..Length(v.routing), i < j, typeVc[v.routing][j] = PortType(out),
         ~Repeats(v, e, out), v.routing # "car", j <= Furthest(v, h), Furthest(v, h) \in Nat
  PROVE  InOrder(v, h)
<1>1. PICK k \in 0..Len(typeVc[v.routing]) : Makes(v, e, h, i, out, k)
  BY MadeNext
<1>2. Len(typeVc[v.routing]) \in Nat /\ Length(v.routing) \in Nat
  BY Configured, HopTypes DEF Bases
<1>3. k <= j
  BY <1>1 DEF Makes
<1>4. k <= Furthest(v, h) /\ At(v, h, k)
  BY <1>1, <1>2, <1>3 DEF Makes
<1> QED BY <1>4 DEF InOrder

-----------------------------------------------------------------------------
(* By way of a Valiant node: a flit that moves.                            *)
LEMMA ByValiantHops ==
  ASSUME NEW r \in ByValiant
  PROVE  /\ Length(r) = IF r \in {"ugal", "pb"} THEN 5 ELSE 6
         /\ typeVc[r][1] = "local" /\ typeVc[r][2] = "global" /\ typeVc[r][3] = "local"
         /\ typeVc[r][Length(r) - 2] = "local" /\ typeVc[r][Length(r) - 1] = "global"
         /\ typeVc[r][Length(r)] = "local"
<1>1. r \in HopsIn5 \cup HopsIn6 \cup HopsIn7
  BY DEF ByValiant, HopsIn5, HopsIn6
<1>2. CASE r \in {"ugal", "pb"}
  <2>1. Length(r) = 5 /\ GlobalAt(r) = {2, 4}
    BY <1>2 DEF Length, GlobalAt, HopsIn5, HopsIn6
  <2> QED BY <1>1, <1>2, <2>1, HopTypes
<1>3. CASE r \notin {"ugal", "pb"}
  <2>1. Length(r) = 6 /\ GlobalAt(r) = {2, 5}
    BY <1>3 DEF Length, GlobalAt, HopsIn5, HopsIn6, ByValiant
  <2> QED BY <1>1, <1>3, <2>1, HopTypes
<1> QED BY <1>2, <1>3

(* What it needs to be on, other than its mark.                            *)
Heads(v, g, out) ==
    /\ \/ out = ValPort(g) /\ g.type = "VALIANT" /\ Onward(v, g)
       \/ out = MinPort(g) /\ ~Via(v, g)
    /\ v.routing \in WeighsBoth =>
         /\ ~Via(v, g) => g.type = "NONE"
         /\ AtInjection(g) => g.valLen = WayLength(g)
    /\ Away(v) /\ Group(g.src) # Group(g.dest) => Group(g.valId) # Group(g.src)

(* A hop along the path to node n.                                         *)
Step(g, h, n, out) ==
    LET near == Near(g.sw, n) IN
    /\ near \in 0..2 /\ Near(h.sw, n) \in (near + 1)..3
    /\ near = 0 => Near(h.sw, n) = 1
    /\ PortType(out) = IF near = 1 THEN "global" ELSE "local"
    /\ HopsToDest(h.sw, n) = HopsToDest(g.sw, n) - 1
    /\ hPos(h.sw) = IF near = 1 THEN Group(n) ELSE hPos(g.sw)
    /\ near = 1 => hPos(g.sw) # Group(n)
    /\ h.sw \in Switches

LEMMA StepTo ==
  ASSUME NEW v, NEW g, g.sw \in Switches, NEW n \in Nodes, NEW out \in LinkPorts, out = Toward(g.sw, n),
         NEW h, NEW vc, Moved(v, g, h, out, vc)
  PROVE  Step(g, h, n, out)
<1>1. Nearer(g.sw, n) /\ Counted(g.sw, n)
  BY NearerNext, HopsCounted
<1>2. h.sw = Next_(g.sw, Toward(g.sw, n))
  BY DEF Moved
<1>3. Near(g.sw, n) \in 0..3 /\ Near(g.sw, n) # 3
  BY <1>1, PortOfLink DEF Nearer
<1>4. g.sw # SwitchOf(n)
  BY <1>3 DEF Near
<1>5. HopsToDest(h.sw, n) = HopsToDest(g.sw, n) - 1
  BY <1>1, <1>2, <1>4 DEF Counted
<1>6. Near(g.sw, n) = 1 => hPos(g.sw) # Group(n)
  BY DEF Near
<1> QED BY <1>1, <1>2, <1>3, <1>5, <1>6 DEF Nearer, Step

LEMMA MovedKinds ==
  ASSUME NEW v \in Variants, NEW g, g.sw \in Switches, NEW out \in LinkPorts, NEW h, NEW vc,
         Moved(v, g, h, out, vc)
  PROVE  /\ ~AtInjection(h) /\ PortType(h.port) = PortType(out)
         /\ PortType(out) \in {"local", "global"} /\ out \in Ports
         /\ PortType(out) = "local" <=> hPos(h.sw) = hPos(g.sw)
<1>1. Crosses(g.sw, out) /\ h.port = Entry(g.sw, out) /\ h.sw = Next_(g.sw, out)
  BY Link DEF Moved
<1> QED BY <1>1, PortOfLink DEF Crosses, AtInjection

LEMMA HeadsAlong ==
  ASSUME NEW v \in Variants, v.routing \in ByValiant, NEW g, Net(v, g), NEW out \in LinkPorts,
         Heads(v, g, out), NEW h, NEW vc, Moved(v, g, h, out, vc)
  PROVE  /\ Via(v, g) => Step(g, h, g.valId, out) /\ g.type = "VALIANT" /\ Onward(v, g)
         /\ ~Via(v, g) => Step(g, h, g.dest, out) /\ out = MinPort(g)
         /\ ~h.mandatory
         /\ Via(v, h) <=> Via(v, g)
<1>1. g.sw \in Switches /\ g.valId \in Nodes /\ g.dest \in Nodes
  BY Placed
<1>2. ValPort(g) = Toward(g.sw, g.valId) /\ MinPort(g) = Toward(g.sw, g.dest)
  BY DEF ValPort, MinPort, Toward
<1>3. ASSUME Via(v, g)
      PROVE  Step(g, h, g.valId, out) /\ g.type = "VALIANT" /\ Onward(v, g)
  <2>1. out = ValPort(g) /\ g.type = "VALIANT" /\ Onward(v, g)
    BY <1>3 DEF Heads
  <2>2. Step(g, h, g.valId, out)
    BY <1>1, <1>2, <2>1, StepTo
  <2> QED BY <2>1, <2>2
<1>4. ASSUME ~Via(v, g) PROVE Step(g, h, g.dest, out) /\ out = MinPort(g)
  <2>1. out = MinPort(g)
    BY <1>4 DEF Heads, Onward
  <2>2. Step(g, h, g.dest, out)
    BY <1>1, <1>2, <2>1, StepTo
  <2> QED BY <2>1, <2>2
<1>5. Via(v, h) <=> Via(v, g)
  BY DEF Via, Moved, SameAims
<1>6. ~h.mandatory
  <2>1. ~g.mandatory
    BY DEF Net, Flagged, ByValiant, InTransit
  <2>2. ~LeavesNext(v, g, out)
    <3> SUFFICES ASSUME LeavesNext(v, g, out) PROVE FALSE
      OBVIOUS
    <3>1. g.type # "VALIANT" /\ out = MinPort(g) /\ OffHome(g) /\ PortType(out) = "local"
      BY DEF LeavesNext, Heads
    <3>2. v.misrouting = "MM" /\ PortType(g.port) = "local"
      BY <3>1 DEF LeavesNext
    <3>3. Near(g.sw, g.dest) = 1
      BY <3>1, <3>2 DEF Net, Flagged, OffHome, InSource, AtInjection
    <3>4. Step(g, h, g.dest, out)
      BY <1>1, <1>2, <3>1, StepTo
    <3> QED BY <3>1, <3>3, <3>4 DEF Step
  <2> QED BY <2>1, <2>2 DEF Moved
<1> QED BY <1>3, <1>4, <1>5, <1>6

LEMMA ByValiantMoves ==
  ASSUME NEW v \in Variants, v.routing \in ByValiant, NEW g, Net(v, g), NEW out \in LinkPorts,
         Heads(v, g, out), NEW vc \in NextChannels(v, g, out), NEW h, Moved(v, g, h, out, vc)
  PROVE  Net(v, h)
<1>1. /\ Via(v, g) => Step(g, h, g.valId, out) /\ g.type = "VALIANT" /\ Onward(v, g)
      /\ ~Via(v, g) => Step(g, h, g.dest, out) /\ out = MinPort(g)
      /\ ~h.mandatory
      /\ Via(v, h) <=> Via(v, g)
  BY HeadsAlong
<1>2. /\ h \in FlitType /\ h.src = g.src /\ h.dest = g.dest /\ h.valId = g.valId
      /\ h.reached = g.reached /\ h.type = g.type /\ h.status = g.status /\ h.minLen = g.minLen
      /\ h.valLen = g.valLen /\ h.hopCount = g.hopCount + 1 /\ g.hopCount \in Nat
      /\ h.byVal <=> IF AtInjection(g) THEN g.type = "VALIANT" ELSE g.byVal
  BY DEF Moved, SameAims
<1>3. g.sw \in Switches /\ g.dest \in Nodes /\ g.valId \in Nodes /\ g.src \in Nodes /\ h.sw \in Switches
  BY <1>2, Placed DEF FlitType
<1>4. Measured(g) /\ Measured(h)
  BY <1>2, <1>3, Measures
<1>5. /\ ~AtInjection(h) /\ PortType(h.port) = PortType(out)
      /\ PortType(out) \in {"local", "global"}
      /\ PortType(out) = "local" <=> hPos(h.sw) = hPos(g.sw)
  BY <1>3, MovedKinds
<1>6. v.routing \notin InTransit /\ v.routing # "car" /\ v.routing # "par" /\ v.routing # "olm"
  BY DEF InTransit, ByValiant
<1>7. Via(v, g) => WayLength(h) = WayLength(g) - 1
  <2>1. /\ WayLength(h) = HopsToDest(h.sw, g.valId) + HopsToDest(SwitchOf(g.valId), g.dest)
        /\ WayLength(g) = HopsToDest(g.sw, g.valId) + HopsToDest(SwitchOf(g.valId), g.dest)
    BY <1>2 DEF WayLength
  <2> QED BY <1>1, <1>4, <2>1 DEF Step, Measured
<1>8. PathBounded(v, h)
  <2>1. /\ Ahead(v, g) = IF Via(v, g) THEN 5 + HopsToDest(g.sw, g.valId)
                                      ELSE 2 + HopsToDest(g.sw, g.dest)
        /\ Ahead(v, h) = IF Via(v, g) THEN 5 + HopsToDest(h.sw, g.valId)
                                      ELSE 2 + HopsToDest(h.sw, g.dest)
    BY <1>1, <1>2, <1>6 DEF Ahead
  <2>2. g.hopCount + Ahead(v, g) <= 8
    BY <1>6 DEF Net, PathBounded
  <2>3. Ahead(v, h) = Ahead(v, g) - 1 /\ Ahead(v, g) \in Nat
    BY <1>1, <1>4, <2>1 DEF Step, Measured
  <2> QED BY <1>2, <2>2, <2>3 DEF PathBounded
<1>9. InOrder(v, h)
  <2> SUFFICES ASSUME v.usage = "BASE" PROVE InOrder(v, h)
    BY DEF InOrder
  <2> DEFINE n == Length(v.routing)
             j == IF Via(v, g) THEN Near(g.sw, g.valId) + 1
                               ELSE n - 2 + Near(g.sw, g.dest)
  <2>1. n = (IF v.routing \in {"ugal", "pb"} THEN 5 ELSE 6) /\ Len(typeVc[v.routing]) = n
    BY Configured, HopTypes, ByValiantHops DEF Bases
  <2>2. PICK i \in 0..n : At(v, g, i) /\ i <= Furthest(v, g)
    BY <2>1 DEF Net, InOrder
  <2>3. Furthest(v, g) = j - 1
    BY <1>1, <1>4, <1>6, <2>1 DEF Furthest, Onward, Measured
  <2>4. j \in 1..n /\ typeVc[v.routing][j] = PortType(out)
    <3>1. CASE Via(v, g)
      <4>1. Near(g.sw, g.valId) \in 0..2 /\ j = Near(g.sw, g.valId) + 1
            /\ PortType(out) = IF Near(g.sw, g.valId) = 1 THEN "global" ELSE "local"
        BY <1>1, <3>1 DEF Step
      <4>2. typeVc[v.routing][1] = "local" /\ typeVc[v.routing][2] = "global"
            /\ typeVc[v.routing][3] = "local"
        BY ByValiantHops
      <4>3. j = 1 \/ j = 2 \/ j = 3
        BY <4>1
      <4> HIDE DEF j
      <4> QED BY <2>1, <4>1, <4>2, <4>3
    <3>2. CASE ~Via(v, g)
      <4>1. Near(g.sw, g.dest) \in 0..2 /\ j = n - 2 + Near(g.sw, g.dest)
            /\ PortType(out) = IF Near(g.sw, g.dest) = 1 THEN "global" ELSE "local"
        BY <1>1, <3>2 DEF Step
      <4>2. typeVc[v.routing][n - 2] = "local" /\ typeVc[v.routing][n - 1] = "global"
            /\ typeVc[v.routing][n] = "local"
        BY ByValiantHops
      <4>3. j = n - 2 \/ j = n - 1 \/ j = n
        BY <2>1, <4>1
      <4> HIDE DEF j
      <4> QED BY <2>1, <4>1, <4>2, <4>3
    <3> QED BY <3>1, <3>2
  <2>5. Furthest(v, h) = IF Onward(v, h) THEN Near(h.sw, g.valId) ELSE n - 3 + Near(h.sw, g.dest)
    BY <1>2, <1>6, <2>1 DEF Furthest
  <2>6. Near(h.sw, g.dest) \in 0..3 /\ Near(h.sw, g.valId) \in 0..3
    BY <1>2, <1>4 DEF Measured
  <2>7. j <= Furthest(v, h) /\ Furthest(v, h) \in Nat
    <3>1. CASE Via(v, g)
      <4>1. Near(h.sw, g.valId) \in (Near(g.sw, g.valId) + 1)..3 /\ Near(g.sw, g.valId) \in 0..2
        BY <1>1, <3>1 DEF Step
      <4>2. v.routing \in {"ugal", "pb"} => Near(g.sw, g.valId) # 2
        <5>1. v.routing \in {"ugal", "pb"} => ~InValGroup(g)
          BY <1>1, <3>1 DEF Onward, There, ToGroup
        <5>2. Near(g.sw, g.valId) = 2 => InValGroup(g)
          BY DEF Near, InValGroup
        <5> QED BY <5>1, <5>2
      <4> QED BY <2>1, <2>5, <2>6, <3>1, <4>1, <4>2
    <3>2. CASE ~Via(v, g)
      <4>1. Near(h.sw, g.dest) \in (Near(g.sw, g.dest) + 1)..3 /\ Near(g.sw, g.dest) \in 0..2
        BY <1>1, <3>2 DEF Step
      <4> QED BY <1>1, <2>1, <2>5, <2>6, <3>2, <4>1 DEF Onward
    <3> QED BY <3>1, <3>2
  <2>8. ~Repeats(v, g, out)
    BY <1>6 DEF Repeats
  <2>9. i < j
    BY <2>2, <2>3, <2>4, <2>1
  <2> HIDE DEF j, n
  <2> QED BY <1>3, <1>6, <2>2, <2>4, <2>7, <2>8, <2>9, MadeBy DEF n
<1>10. Injected(v, h)
  BY <1>5 DEF Injected
<1>11. Weighed(v, h)
  <2>1. Weighed(v, g) /\ Injected(v, g)
    BY DEF Net
  <2>2. h.minLen = MinPathLength(h.src, h.dest)
    BY <1>2, <2>1 DEF Weighed
  <2>3. ASSUME v.routing \in Weighing, ~h.byVal
        PROVE  h.type # "VALIANT" /\ h.hopCount + HopsToDest(h.sw, h.dest) = h.minLen
    <3>1. g.type # "VALIANT" /\ g.hopCount + HopsToDest(g.sw, g.dest) = g.minLen
      <4>1. CASE AtInjection(g)
        <5>1. g.type # "VALIANT" /\ g.hopCount = 0 /\ g.sw = SwitchOf(g.src)
          BY <1>2, <2>1, <2>3, <4>1 DEF Injected
        <5>2. g.minLen = HopsToDest(g.sw, g.dest)
          BY <1>3, <2>1, <5>1, MinPathHops DEF Weighed
        <5> QED BY <1>4, <5>1, <5>2 DEF Measured
      <4>2. CASE ~AtInjection(g)
        BY <1>2, <2>1, <2>3, <4>2 DEF Weighed
      <4> QED BY <4>1, <4>2
    <3>2. HopsToDest(h.sw, g.dest) = HopsToDest(g.sw, g.dest) - 1
      BY <1>1, <3>1 DEF Step
    <3> QED BY <1>2, <1>4, <3>1, <3>2 DEF Measured
  <2>4. ASSUME v.routing \in WeighsBoth, h.byVal
        PROVE  IF Via(v, h) THEN h.hopCount + WayLength(h) = h.valLen
               ELSE h.hopCount + HopsToDest(h.sw, h.dest) <= h.valLen
    <3>1. IF Via(v, g) THEN g.hopCount + WayLength(g) = g.valLen
          ELSE g.hopCount + HopsToDest(g.sw, g.dest) <= g.valLen
      <4>1. CASE AtInjection(g)
        <5>1. Via(v, g) /\ g.hopCount = 0 /\ g.valLen = WayLength(g)
          BY <1>2, <2>1, <2>4, <4>1 DEF Injected, Heads
        <5> QED BY <1>4, <5>1 DEF Measured
      <4>2. CASE ~AtInjection(g)
        BY <1>2, <2>1, <2>4, <4>2 DEF Weighed
      <4> QED BY <4>1, <4>2
    <3>2. g.valLen \in 0..6
      BY DEF Net, FlitType
    <3>3. ~Via(v, g) => HopsToDest(h.sw, g.dest) = HopsToDest(g.sw, g.dest) - 1
      BY <1>1 DEF Step
    <3> QED BY <1>1, <1>2, <1>4, <1>7, <3>1, <3>2, <3>3 DEF Measured
  <2> QED BY <2>2, <2>3, <2>4 DEF Weighed
<1>12. Flagged(v, h)
  <2>1. Flagged(v, g)
    BY DEF Net
  <2>2. ASSUME Away(v), Group(h.src) # Group(h.dest)
        PROVE  Group(h.valId) # Group(h.src) /\ (InSource(h) => ~h.reached)
    <3>1. Group(g.valId) # Group(g.src)
      BY <1>2, <2>2 DEF Heads
    <3>2. InSource(h) => InSource(g)
      <4>1. CASE Via(v, g)
        BY <1>1, <1>2, <3>1, <4>1 DEF Step, InSource
      <4>2. CASE ~Via(v, g)
        BY <1>1, <1>2, <2>2, <4>2 DEF Step, InSource
      <4> QED BY <4>1, <4>2
    <3> QED BY <1>2, <2>1, <2>2, <3>1, <3>2 DEF Flagged
  <2>3. ASSUME v.misrouting = "MM", InSource(h), h.type # "VALIANT"
        PROVE  Near(h.sw, h.dest) = 1
    <3>1. ~Via(v, g)
      BY <1>1, <1>2, <2>3
    <3>2. Step(g, h, g.dest, out)
      BY <1>1, <3>1
    <3>3. hPos(h.sw) # Group(g.dest)
      BY <1>2, <2>3 DEF InSource
    <3>4. Near(h.sw, g.dest) \notin {2, 3}
      BY <3>3 DEF Near, Group
    <3> QED BY <1>2, <3>2, <3>4 DEF Step
  <2> QED BY <1>1, <2>2, <2>3 DEF Flagged
<1>13. Misroutes(v, h)
  BY <1>6 DEF Misroutes
<1> QED BY <1>2, <1>8, <1>9, <1>10, <1>11, <1>12, <1>13 DEF Net

-----------------------------------------------------------------------------
(* CAR and minCond.                                                        *)
LEMMA MinPortOf ==
  ASSUME NEW g, g.sw \in Switches, g.dest \in Nodes
  PROVE  /\ MinPort(g) = Toward(g.sw, g.dest) /\ MinPort(g) \in Ports
         /\ Near(g.sw, g.dest) = 3 => PortType(MinPort(g)) = "node"
         /\ Near(g.sw, g.dest) # 3 => MinPort(g) \in LinkPorts
         /\ Near(g.sw, g.dest) = 1 => PortType(MinPort(g)) = "global"
         /\ Near(g.sw, g.dest) \in {0, 2} => PortType(MinPort(g)) = "local"
<1>1. Nearer(g.sw, g.dest) /\ MinPort(g) = Toward(g.sw, g.dest)
  BY NearerNext DEF MinPort, Toward
<1> QED BY <1>1 DEF Nearer

(* What car leaves of a flit, and asks for.                                *)
Tries(f, g, out) ==
    /\ g \in FlitType /\ SamePlace(f, g)
    /\ \/ out = ValPort(g) /\ g.type = "VALIANT" /\ ~InValSwitch(g)
       \/ out = MinPort(g) /\ g.type = "NONE"

LEMMA CarTries ==
  ASSUME NEW v \in Variants, v.routing = "car", NEW f, Net(v, f), NEW t \in EnrouteCar(v, f)
  PROVE  Tries(f, t.flit, t.out)
<1> DEFINE kinds == CarKinds(v)
           none == "NONE"
           valiant == "VALIANT"
           no == FALSE
<1>1. f \in FlitType
  BY DEF Net
<1>2. PICK g : /\ g = f \/ g \in Chosen(f, kinds)
               /\ \E m \in CarMisroutes(Unmarked(Reached(g, InValSwitch(g)))) :
                     t = IF m THEN ByVal(Unmarked(Reached(g, InValSwitch(g))))
                         ELSE Direct(Unmarked(Reached(g, InValSwitch(g))))
  BY Zenon DEF EnrouteCar
<1>3. g \in FlitType /\ SamePlace(f, g)
  <2>1. CASE g = f
    BY <1>1, <2>1 DEF SamePlace
  <2>2. CASE g \in Chosen(f, kinds)
    <3>1. kinds \in SUBSET Kinds
      BY DEF CarKinds, GlobalKinds, Kinds
    <3> HIDE DEF kinds
    <3> QED BY <1>1, <2>2, <3>1, ChosenFrom
  <2> QED BY <1>2, <2>1, <2>2
<1> DEFINE there == InValSwitch(g)
           h == [Reached(g, there) EXCEPT !.type = "NONE"]
           w == [h EXCEPT !.type = "VALIANT"]
<1>4. there \in BOOLEAN /\ none \in Types /\ none = "NONE" /\ valiant \in Types
      /\ valiant = "VALIANT" /\ no \in BOOLEAN
  BY DEF InValSwitch, Types
<1>5. Becomes(g, h, none, there)
  BY <1>3, <1>4, MarkedAs
<1>6. h \in FlitType /\ SamePlace(g, h) /\ SameWay(g, h) /\ h.type = "NONE"
      /\ (h.reached <=> g.reached \/ there)
  BY <1>5 DEF Becomes
<1>7. Becomes(h, w, valiant, no)
  BY <1>4, <1>6, MarkedAs
<1>8. w \in FlitType /\ SamePlace(h, w) /\ SameWay(h, w) /\ w.type = "VALIANT"
  BY <1>7 DEF Becomes
<1>9. SamePlace(f, h) /\ SamePlace(f, w)
  BY <1>3, <1>6, <1>8 DEF SamePlace
<1>10. \/ t = ByVal(h) /\ ~h.reached
       \/ t = Direct(h)
  <2>1. h = Unmarked(Reached(g, InValSwitch(g)))
    BY DEF Unmarked
  <2> HIDE DEF h
  <2>2. PICK m \in CarMisroutes(h) : t = IF m THEN ByVal(h) ELSE Direct(h)
    BY <1>2, <2>1
  <2> QED BY <2>2, Zenon DEF CarMisroutes
<1>11. CASE t = ByVal(h) /\ ~h.reached
  <2>1. t.flit = w /\ t.out = ValPort(h)
    BY <1>11 DEF ByVal, To
  <2>2. ValPort(h) = ValPort(w)
    BY <1>8, SameThere
  <2>3. ~InValSwitch(w)
    BY <1>6, <1>8, <1>11 DEF InValSwitch, SamePlace, SameWay
  <2> QED BY <1>8, <1>9, <2>1, <2>2, <2>3 DEF Tries
<1>12. CASE t = Direct(h)
  <2>1. t.flit = h /\ t.out = MinPort(h)
    BY <1>12 DEF Direct, To
  <2> QED BY <1>6, <1>9, <2>1 DEF Tries
<1> QED BY <1>10, <1>11, <1>12

LEMMA CarStays ==
  ASSUME NEW v \in Variants, v.routing = "car", NEW f, Net(v, f), NEW g, NEW out, Tries(f, g, out)
  PROVE  Net(v, g)
<1>1. /\ g \in FlitType /\ g.sw = f.sw /\ g.port = f.port /\ g.channel = f.channel
      /\ g.src = f.src /\ g.dest = f.dest /\ g.hopCount = f.hopCount /\ g.minLen = f.minLen
      /\ g.byVal = f.byVal /\ g.localDone = f.localDone /\ g.globalDone = f.globalDone
      /\ g.mandatory = f.mandatory
  BY DEF Tries, SamePlace
<1>2. AtInjection(g) <=> AtInjection(f)
  BY <1>1 DEF AtInjection
<1>3. /\ v.routing \notin Weighing /\ v.routing \notin WeighsBoth /\ ~Away(v)
      /\ v.routing \notin ByValiant /\ v.routing \notin InTransit
      /\ v.routing # "par" /\ v.routing # "olm"
  BY DEF Weighing, WeighsBoth, Away, ByValiant, InTransit
<1>4. PathBounded(v, g) /\ Misroutes(v, g)
  BY <1>3 DEF PathBounded, Misroutes
<1>5. InOrder(v, g)
  <2>1. \A i : At(v, f, i) => At(v, g, i)
    BY <1>1, <1>2 DEF At
  <2>2. Furthest(v, f) = 7 /\ Furthest(v, g) = 7
    BY <1>3 DEF Furthest
  <2> QED BY <1>1, <2>1, <2>2 DEF Net, InOrder
<1>6. Injected(v, g) /\ Weighed(v, g) /\ Flagged(v, g)
  BY <1>1, <1>2, <1>3 DEF Net, Injected, Weighed, Flagged
<1> QED BY <1>1, <1>4, <1>5, <1>6 DEF Net

LEMMA CarMoves ==
  ASSUME NEW v \in Variants, v.routing = "car", NEW g, Net(v, g), NEW out \in LinkPorts,
         g.type = "VALIANT" \/ out = MinPort(g),
         NEW vc \in NextChannels(v, g, out), NEW h, Moved(v, g, h, out, vc)
  PROVE  Net(v, h)
<1>1. /\ h \in FlitType /\ h.src = g.src /\ h.dest = g.dest /\ h.minLen = g.minLen
      /\ h.hopCount = g.hopCount + 1 /\ g.hopCount \in Nat
  BY DEF Moved, SameAims
<1>2. g.sw \in Switches
  BY Placed
<1>3. ~AtInjection(h)
  BY <1>2, MovedKinds
<1>4. /\ v.routing \notin Weighing /\ v.routing \notin WeighsBoth /\ ~Away(v)
      /\ v.routing \notin ByValiant /\ v.routing \notin InTransit
      /\ v.routing # "par" /\ v.routing # "olm"
  BY DEF Weighing, WeighsBoth, Away, ByValiant, InTransit
<1>5. ~h.mandatory
  <2>1. ~g.mandatory
    BY <1>4 DEF Net, Flagged
  <2>2. v.misrouting # "MM"
    BY Configured DEF Accepted, MixedModeAborts
  <2> QED BY <2>1, <2>2 DEF Moved, LeavesNext
<1>6. InOrder(v, h)
  <2> SUFFICES ASSUME v.usage = "BASE" PROVE InOrder(v, h)
    BY DEF InOrder
  <2>1. PICK i \in 0..Len(typeVc[v.routing]) : At(v, g, i) /\ g.hopCount <= i
    BY DEF Net, InOrder
  <2>2. Len(typeVc[v.routing]) = 7
    <3>1. Length(v.routing) = 7 /\ v.routing \in HopsIn7
      BY DEF Length, HopsIn5, HopsIn6, HopsIn7
    <3> QED BY <3>1, HopTypes
  <2>3. PICK k \in 0..Len(typeVc[v.routing]) : Makes(v, g, h, i, out, k)
    BY <1>2, <2>1, MadeNext
  <2>4. k > i /\ At(v, h, k)
    BY <1>4, <2>3 DEF Makes, Repeats
  <2>5. Furthest(v, h) = 7
    BY <1>4 DEF Furthest
  <2> QED BY <1>1, <2>1, <2>2, <2>3, <2>4, <2>5 DEF InOrder
<1>7. PathBounded(v, h) /\ Misroutes(v, h) /\ Injected(v, h)
  BY <1>3, <1>4 DEF PathBounded, Misroutes, Injected
<1>8. Weighed(v, h) /\ Flagged(v, h)
  BY <1>1, <1>4, <1>5 DEF Net, Weighed, Flagged
<1> QED BY <1>1, <1>6, <1>7, <1>8 DEF Net

(* What minCond leaves of a flit, and asks for.                            *)
Decides(f, g, out) ==
    /\ g \in FlitType /\ SamePlace(f, g) /\ SameWay(f, g)
    /\ \/ out = MinPort(g)
       \/ out \in GlobalPorts /\ AtInjection(g) /\ g.type = "GLOBAL"

LEMMA MinCondDecides ==
  ASSUME NEW v \in Variants, v.routing = "minCond", NEW f, Net(v, f), NEW t \in EnrouteMinCond(f)
  PROVE  Decides(f, t.flit, t.out)
<1> DEFINE Marked(type) == [f EXCEPT !.enrouted = TRUE, !.type = type]
<1>1. f \in FlitType /\ f.port \in Ports
  BY DEF Net, FlitType
<1>2. \/ t = To(Marked("GLOBAL"), f.port + GlobalOffset) /\ AtInjection(f)
      \/ t = Direct(Marked("NONE"))
  BY Zenon DEF EnrouteMinCond
<1>3. ASSUME NEW type \in {"GLOBAL", "NONE"}
      PROVE  LET g == Marked(type)
             IN  g \in FlitType /\ SamePlace(f, g) /\ SameWay(f, g) /\ g.type = type
  BY <1>1 DEF FlitType, SamePlace, SameWay
<1>4. CASE t = To(Marked("GLOBAL"), f.port + GlobalOffset) /\ AtInjection(f)
  <2> DEFINE g == Marked("GLOBAL")
  <2>1. g \in FlitType /\ SamePlace(f, g) /\ SameWay(f, g) /\ g.type = "GLOBAL"
    BY <1>3
  <2>2. t.flit = g /\ t.out = f.port + GlobalOffset
    BY <1>4 DEF To
  <2> HIDE DEF g
  <2>3. AtInjection(g)
    BY <1>4, <2>1 DEF AtInjection, SamePlace
  <2>4. t.out \in GlobalPorts
    <3>1. P = H
      BY Configured DEF Accepted
    <3>2. f.port \in 0..(P - 1)
      BY <1>1, <1>4, SizeAssumption DEF AtInjection, PortType, Ports, LocalOffset, SizeAssumption
    <3> QED BY <2>2, <3>1, <3>2, SizeAssumption DEF GlobalPorts, GlobalOffset, SizeAssumption
  <2> QED BY <2>1, <2>2, <2>3, <2>4 DEF Decides
<1>5. CASE t = Direct(Marked("NONE"))
  <2> DEFINE g == Marked("NONE")
  <2>1. g \in FlitType /\ SamePlace(f, g) /\ SameWay(f, g)
    BY <1>3
  <2>2. t.flit = g /\ t.out = MinPort(g)
    BY <1>5 DEF To, Direct
  <2> HIDE DEF g
  <2> QED BY <2>1, <2>2 DEF Decides
<1> QED BY <1>2, <1>4, <1>5

LEMMA MinCondStays ==
  ASSUME NEW v \in Variants, v.routing = "minCond", NEW f, Net(v, f), NEW g, NEW out,
         Decides(f, g, out)
  PROVE  Net(v, g)
<1>1. /\ g \in FlitType /\ g.sw = f.sw /\ g.port = f.port /\ g.channel = f.channel
      /\ g.src = f.src /\ g.dest = f.dest /\ g.hopCount = f.hopCount /\ g.minLen = f.minLen
      /\ g.byVal = f.byVal /\ g.localDone = f.localDone /\ g.globalDone = f.globalDone
      /\ g.mandatory = f.mandatory
  BY DEF Decides, SamePlace
<1>2. AtInjection(g) <=> AtInjection(f)
  BY <1>1 DEF AtInjection
<1>3. /\ v.routing \notin Weighing /\ v.routing \notin WeighsBoth /\ ~Away(v)
      /\ v.routing \notin ByValiant /\ v.routing \notin InTransit
      /\ v.routing # "par" /\ v.routing # "olm" /\ v.routing # "car"
  BY DEF Weighing, WeighsBoth, Away, ByValiant, InTransit
<1>4. ~Via(v, f) /\ ~Via(v, g) /\ ~Onward(v, f) /\ ~Onward(v, g)
  BY <1>3 DEF Via, Onward
<1>5. Ahead(v, g) = Ahead(v, f) /\ Furthest(v, g) = Furthest(v, f)
  BY <1>1, <1>3, <1>4 DEF Ahead, Furthest
<1>6. PathBounded(v, g) /\ Misroutes(v, g)
  BY <1>1, <1>3, <1>5 DEF Net, PathBounded, Misroutes
<1>7. InOrder(v, g)
  <2>1. \A i : At(v, f, i) => At(v, g, i)
    BY <1>1, <1>2 DEF At
  <2> QED BY <1>1, <1>5, <2>1 DEF Net, InOrder
<1>8. Injected(v, g) /\ Weighed(v, g) /\ Flagged(v, g)
  BY <1>1, <1>2, <1>3 DEF Net, Injected, Weighed, Flagged
<1> QED BY <1>1, <1>6, <1>7, <1>8 DEF Net

LEMMA MinCondMoves ==
  ASSUME NEW v \in Variants, v.routing = "minCond", NEW g, Net(v, g), NEW out \in LinkPorts,
         out = MinPort(g) \/ (out \in GlobalPorts /\ AtInjection(g)),
         NEW vc \in NextChannels(v, g, out), NEW h, Moved(v, g, h, out, vc)
  PROVE  Net(v, h)
<1>1. /\ h \in FlitType /\ h.src = g.src /\ h.dest = g.dest /\ h.minLen = g.minLen
      /\ h.hopCount = g.hopCount + 1 /\ g.hopCount \in Nat /\ h.valId = g.valId
  BY DEF Moved, SameAims
<1>2. g.sw \in Switches /\ g.dest \in Nodes /\ g.valId \in Nodes /\ h.sw \in Switches
  BY <1>1, Placed DEF FlitType
<1>3. ~AtInjection(h)
  BY <1>2, MovedKinds
<1>4. /\ v.routing \notin Weighing /\ v.routing \notin WeighsBoth /\ ~Away(v)
      /\ v.routing \notin ByValiant /\ v.routing \notin InTransit
      /\ v.routing # "par" /\ v.routing # "olm" /\ v.routing # "car"
  BY DEF Weighing, WeighsBoth, Away, ByValiant, InTransit
<1>5. ~h.mandatory
  <2>1. ~g.mandatory
    BY <1>4 DEF Net, Flagged
  <2>2. v.misrouting = "CRG"
    BY Configured DEF Accepted
  <2> QED BY <2>1, <2>2 DEF Moved, LeavesNext
<1>6. ~Via(v, g) /\ ~Via(v, h) /\ ~Onward(v, g) /\ ~Onward(v, h)
  BY <1>4 DEF Via, Onward
<1>7. Measured(g) /\ Measured(h)
  BY <1>1, <1>2, Measures
<1>8. Ahead(v, g) = 2 + HopsToDest(g.sw, g.dest) /\ Ahead(v, h) = 2 + HopsToDest(h.sw, h.dest)
  BY <1>4, <1>6 DEF Ahead
<1>9. out = MinPort(g) => Step(g, h, g.dest, out)
  BY <1>2, MinPortOf, StepTo
<1>10. PathBounded(v, h)
  <2>1. CASE out = MinPort(g)
    <3>1. g.hopCount + Ahead(v, g) <= 8
      BY <1>4 DEF Net, PathBounded
    <3> QED BY <1>1, <1>7, <1>8, <1>9, <2>1, <3>1 DEF Step, Measured, PathBounded
  <2>2. CASE AtInjection(g)
    <3>1. g.hopCount = 0
      BY <2>2 DEF Net, Injected
    <3> QED BY <1>1, <1>7, <1>8, <3>1 DEF Measured, PathBounded
  <2> QED BY <2>1, <2>2
<1>11. InOrder(v, h)
  <2> SUFFICES ASSUME v.usage = "BASE" PROVE InOrder(v, h)
    BY DEF InOrder
  <2>1. /\ Length(v.routing) = 5 /\ Len(typeVc[v.routing]) = 5
        /\ typeVc[v.routing][2] = "global" /\ typeVc[v.routing][3] = "local"
        /\ typeVc[v.routing][4] = "global" /\ typeVc[v.routing][5] = "local"
    <3>1. Length(v.routing) = 5 /\ v.routing \in HopsIn5 /\ GlobalAt(v.routing) = {2, 4}
      BY DEF Length, HopsIn5, GlobalAt
    <3>2. /\ Len(typeVc[v.routing]) = 5
          /\ \A i \in 1..5 : typeVc[v.routing][i] = IF i \in {2, 4} THEN "global" ELSE "local"
      BY <3>1, HopTypes
    <3> QED BY <3>1, <3>2
  <2>2. PICK i \in 0..5 : At(v, g, i) /\ i <= Furthest(v, g)
    BY <2>1 DEF Net, InOrder
  <2>3. Furthest(v, g) = 2 + Near(g.sw, g.dest) /\ Furthest(v, h) = 2 + Near(h.sw, g.dest)
    BY <1>1, <1>4, <1>6, <2>1 DEF Furthest
  <2>4. ~Repeats(v, g, out)
    BY <1>4 DEF Repeats
  <2>5. Near(h.sw, g.dest) \in 0..3
    BY <1>1, <1>7 DEF Measured
  <2>6. CASE out = MinPort(g)
    <3> DEFINE j == 3 + Near(g.sw, g.dest)
    <3>1. /\ Near(g.sw, g.dest) \in 0..2 /\ Near(h.sw, g.dest) \in (Near(g.sw, g.dest) + 1)..3
          /\ PortType(out) = IF Near(g.sw, g.dest) = 1 THEN "global" ELSE "local"
      BY <1>9, <2>6 DEF Step
    <3>2. j = 3 \/ j = 4 \/ j = 5
      BY <3>1
    <3>3. /\ i < j /\ j <= Furthest(v, h) /\ Furthest(v, h) \in Nat
          /\ j = 4 <=> Near(g.sw, g.dest) = 1
      BY <2>2, <2>3, <2>5, <3>1
    <3> HIDE DEF j
    <3>4. j \in 1..Length(v.routing) /\ typeVc[v.routing][j] = PortType(out)
      BY <2>1, <3>1, <3>2, <3>3
    <3> QED BY <1>2, <1>4, <2>2, <2>4, <3>3, <3>4, MadeBy
  <2>7. CASE out \in GlobalPorts /\ AtInjection(g)
    <3> DEFINE j == 2
    <3>1. i = 0 /\ PortType(out) = "global"
      BY <2>2, <2>7, KindPorts DEF At
    <3>2. /\ i < j /\ j <= Furthest(v, h) /\ Furthest(v, h) \in Nat
          /\ j \in 1..Length(v.routing) /\ typeVc[v.routing][j] = PortType(out)
      BY <2>1, <2>3, <2>5, <3>1
    <3> HIDE DEF j
    <3> QED BY <1>2, <1>4, <2>2, <2>4, <3>2, MadeBy
  <2> QED BY <2>6, <2>7
<1>12. Injected(v, h) /\ Weighed(v, h) /\ Flagged(v, h) /\ Misroutes(v, h)
  BY <1>1, <1>3, <1>4, <1>5 DEF Net, Injected, Weighed, Flagged, Misroutes
<1> QED BY <1>1, <1>10, <1>11, <1>12 DEF Net

-----------------------------------------------------------------------------
(* In-transit misrouting: what a routing leaves of a flit.                 *)
MisroutingTypes(v, f) == IF v.routing = "par" THEN ParTypes(v, f) ELSE OlmTypes(v, f)

(* The hop off the minimal path that may be tried.                         *)
OffWay(v, f, kind, out) ==
    /\ out # MinPort(f) /\ out \in PortsOf(kind)
    /\ kind \in MisroutingTypes(v, f) \ {"NONE"}
    /\ f.mandatory \/ Near(f.sw, f.dest) # 3

(* The flit, as nextChannel sees it (e) and as it goes on (g).             *)
Ventures(v, f, e, g, out) ==
    /\ g \in FlitType /\ SamePlace(f, g)
    /\ \/ e = f /\ out = MinPort(f) /\ g.type = "NONE"
       \/ e = g /\ OffWay(v, f, g.type, out)

OffKinds == {"LOCAL", "LOCAL_MM", "GLOBAL", "GLOBAL_MANDATORY"}

LEMMA TypesTried ==
  ASSUME NEW v \in Variants, v.routing \in InTransit, NEW f
  PROVE  MisroutingTypes(v, f) \subseteq OffKinds \cup {"NONE"}
<1>1. v.misrouting \in {"CRG", "MM", "NRG", "RRG"}
  BY Configured DEF Configurations
<1> QED BY <1>1 DEF MisroutingTypes, ParTypes, OlmTypes, MixedModeType, OffKinds

LEMMA NodeBehind ==
  ASSUME NEW s \in Switches
  PROVE  P * s \in Nodes
<1>1. s * P \in Nodes
  BY TableAssumptions, SameNames, D!FirstNode
<1>2. s \in Int /\ P \in Int
  BY SizeAssumption DEF SizeAssumption, Switches
<1> QED BY <1>1, <1>2

(* A candidate: the flit with the kind of misrouting, and a port of it.    *)
Tried(v, f, t) ==
    /\ t.flit \in FlitType /\ SamePlace(f, t.flit)
    /\ t.flit.type \in MisroutingTypes(v, f) \ {"NONE"} /\ t.out \in PortsOf(t.flit.type)

LEMMA ParCandidates ==
  ASSUME NEW v \in Variants, v.routing = "par", NEW f \in FlitType, NEW t \in EnroutePar(v, f)
  PROVE  Tried(v, f, t)
<1> DEFINE kinds == ParTypes(v, f)
           nominees == [k \in kinds |-> ParNominates(f, k)]
<1>1. kinds = MisroutingTypes(v, f) /\ kinds \subseteq OffKinds \cup {"NONE"}
  BY TypesTried DEF MisroutingTypes, InTransit
<1>2. DOMAIN nominees = kinds /\ \A k \in kinds : nominees[k] = ParNominates(f, k)
  OBVIOUS
<1> HIDE DEF kinds
<1>3. t \in UNION {{[out |-> c.out, flit |-> [c.flit EXCEPT !.type = kind]] :
                      c \in nominees[kind]} : kind \in DOMAIN nominees \ {"NONE"}}
  BY Zenon DEF EnroutePar, MisrouteCandidates, nominees, kinds
<1> HIDE DEF nominees
<1>4. PICK kind \in kinds \ {"NONE"} :
        t \in {[out |-> c.out, flit |-> [c.flit EXCEPT !.type = kind]] : c \in nominees[kind]}
  BY <1>2, <1>3
<1>5. PICK c \in nominees[kind] : t = [out |-> c.out, flit |-> [c.flit EXCEPT !.type = kind]]
  BY <1>4
<1>6. c.out \in PortsOf(kind) /\ c.flit = f
  BY <1>2, <1>5 DEF ParNominates
<1>7. t.out = c.out /\ t.flit = [f EXCEPT !.type = kind] /\ kind \in Types
  BY <1>1, <1>5, <1>6 DEF OffKinds, Types
<1>8. t.flit \in FlitType /\ SamePlace(f, t.flit) /\ t.flit.type = kind
  BY <1>7 DEF FlitType, SamePlace, Types
<1> QED BY <1>1, <1>6, <1>7, <1>8 DEF Tried

LEMMA OlmCandidates ==
  ASSUME NEW v \in Variants, v.routing = "olm", NEW f \in FlitType, NEW t \in EnrouteOlm(v, f)
  PROVE  Tried(v, f, t)
<1> DEFINE kinds == OlmTypes(v, f)
           nominees == [k \in kinds |-> OlmNominates(f, k)]
<1>1. kinds = MisroutingTypes(v, f) /\ kinds \subseteq OffKinds \cup {"NONE"}
  BY TypesTried DEF MisroutingTypes, InTransit
<1>2. DOMAIN nominees = kinds /\ \A k \in kinds : nominees[k] = OlmNominates(f, k)
  OBVIOUS
<1> HIDE DEF kinds
<1>3. t \in UNION {{[out |-> c.out, flit |-> [c.flit EXCEPT !.type = kind]] :
                      c \in nominees[kind]} : kind \in DOMAIN nominees \ {"NONE"}}
  BY Zenon DEF EnrouteOlm, MisrouteCandidates, nominees, kinds
<1> HIDE DEF nominees
<1>4. PICK kind \in kinds \ {"NONE"} :
        t \in {[out |-> c.out, flit |-> [c.flit EXCEPT !.type = kind]] : c \in nominees[kind]}
  BY <1>2, <1>3
<1>5. PICK c \in nominees[kind] : t = [out |-> c.out, flit |-> [c.flit EXCEPT !.type = kind]]
  BY <1>4
<1> DEFINE Behind(out) ==
             P * IF hPos(f.sw) = Group(f.src) /\ kind \in {"LOCAL", "LOCAL_MM"}
                 THEN Next_(Next_(f.sw, out), GlobalOffset) ELSE Next_(f.sw, out)
<1>6. PICK out \in PortsOf(kind) : c = [out |-> out, flit |-> [f EXCEPT !.valId = Behind(out)]]
  <2>1. OlmNominates(f, kind)
          = {[out |-> out, flit |-> [f EXCEPT !.valId = Behind(out)]] : out \in PortsOf(kind)}
    BY DEF OlmNominates
  <2>2. c \in OlmNominates(f, kind)
    BY <1>2, <1>5
  <2> HIDE DEF Behind
  <2> QED BY <2>1, <2>2, Zenon
<1>7. Behind(out) \in Nodes
  <2>1. out \in LinkPorts /\ GlobalOffset \in LinkPorts
    BY KindPorts DEF PortsOf
  <2>2. Next_(f.sw, out) \in Switches
    BY <2>1, Link DEF Crosses, FlitType
  <2>3. Next_(Next_(f.sw, out), GlobalOffset) \in Switches
    BY <2>1, <2>2, Link DEF Crosses
  <2> QED BY <2>2, <2>3, NodeBehind
<1> DEFINE n == Behind(out)
           b == [f EXCEPT !.valId = n]
<1> HIDE DEF Behind
<1>8. c.out = out /\ c.flit = b
  BY <1>6
<1>9. b \in FlitType /\ SamePlace(f, b)
  <2> HIDE DEF n
  <2>1. n \in Nodes
    BY <1>7 DEF n
  <2> QED BY <2>1 DEF FlitType, SamePlace
<1> HIDE DEF b
<1>10. t.out = c.out /\ t.flit = [b EXCEPT !.type = kind] /\ kind \in Types
  BY <1>1, <1>5, <1>8 DEF OffKinds, Types
<1>11. t.flit \in FlitType /\ SamePlace(b, t.flit) /\ t.flit.type = kind
  BY <1>9, <1>10 DEF FlitType, SamePlace, Types
<1>12. SamePlace(f, t.flit)
  BY <1>9, <1>11 DEF SamePlace
<1> QED BY <1>1, <1>8, <1>10, <1>11, <1>12 DEF Tried

LEMMA InTransitVentures ==
  ASSUME NEW v \in Variants, v.routing \in InTransit, NEW f, Net(v, f),
         NEW o \in EnrouteInTransit(v, f)
  PROVE  Ventures(v, f, o.seen, o.to.flit, o.to.out)
<1> DEFINE tried == IF TRUE \notin MisrouteCondition(f) THEN {}
                    ELSE IF v.routing = "par" THEN EnroutePar(v, f) ELSE EnrouteOlm(v, f)
<1>1. f \in FlitType /\ f.sw \in Switches /\ f.dest \in Nodes
  BY Placed
<1>2. \A t \in tried : Tried(v, f, t) /\ TRUE \in MisrouteCondition(f)
  <2> SUFFICES ASSUME NEW t \in tried PROVE Tried(v, f, t) /\ TRUE \in MisrouteCondition(f)
    OBVIOUS
  <2>1. TRUE \in MisrouteCondition(f)
    OBVIOUS
  <2>2. CASE v.routing = "par"
    BY <1>1, <2>2, ParCandidates
  <2>3. CASE v.routing = "olm"
    BY <1>1, <2>3, OlmCandidates
  <2> QED BY <2>1, <2>2, <2>3 DEF InTransit
<1>3. TRUE \in MisrouteCondition(f) => f.mandatory \/ Near(f.sw, f.dest) # 3
  <2>1. TRUE \in MisrouteCondition(f) => f.mandatory \/ Leaves(f)
    BY Zenon DEF MisrouteCondition
  <2> QED BY <1>1, <2>1, LeavesFar
<1>4. \/ \E g \in {Unmarked(t.flit) : t \in tried} \cup {Unmarked(f)} :
            o = [to |-> To(g, MinPort(f)), seen |-> f]
      \/ \E t \in tried : ValidMisroutePort(f, t.out) /\ o = [to |-> t, seen |-> t.flit]
  BY Zenon DEF EnrouteInTransit
<1> HIDE DEF tried
<1>5. ASSUME NEW x \in FlitType, SamePlace(f, x)
      PROVE  /\ Unmarked(x) \in FlitType /\ SamePlace(f, Unmarked(x))
             /\ Unmarked(x).type = "NONE"
  BY <1>5 DEF Unmarked, FlitType, SamePlace
<1>6. CASE \E g \in {Unmarked(t.flit) : t \in tried} \cup {Unmarked(f)} :
              o = [to |-> To(g, MinPort(f)), seen |-> f]
  <2>1. PICK g \in {Unmarked(t.flit) : t \in tried} \cup {Unmarked(f)} :
           o = [to |-> To(g, MinPort(f)), seen |-> f]
    BY <1>6
  <2>2. g \in FlitType /\ SamePlace(f, g) /\ g.type = "NONE"
    <3>1. CASE g = Unmarked(f)
      <4>1. SamePlace(f, f)
        BY DEF SamePlace
      <4> QED BY <1>1, <1>5, <3>1, <4>1
    <3>2. CASE g \in {Unmarked(t.flit) : t \in tried}
      <4>1. PICK t \in tried : g = Unmarked(t.flit)
        BY <3>2
      <4> QED BY <1>2, <1>5, <4>1 DEF Tried
    <3> QED BY <2>1, <3>1, <3>2
  <2>3. o.seen = f /\ o.to.flit = g /\ o.to.out = MinPort(f)
    BY <2>1 DEF To
  <2> QED BY <2>2, <2>3 DEF Ventures
<1>7. CASE \E t \in tried : ValidMisroutePort(f, t.out) /\ o = [to |-> t, seen |-> t.flit]
  <2>1. PICK t \in tried : ValidMisroutePort(f, t.out) /\ o = [to |-> t, seen |-> t.flit]
    BY <1>7
  <2>2. o.seen = t.flit /\ o.to = t
    BY <2>1
  <2>3. Tried(v, f, t) /\ (f.mandatory \/ Near(f.sw, f.dest) # 3) /\ t.out # MinPort(f)
    BY <1>2, <1>3, <2>1 DEF ValidMisroutePort
  <2> QED BY <2>2, <2>3 DEF Ventures, OffWay, Tried
<1> QED BY <1>4, <1>6, <1>7

(* What stays as it was when a flit waits.                                 *)
LEMMA SameAhead ==
  ASSUME NEW v, v.routing \in InTransit, NEW f, NEW g, SamePlace(f, g)
  PROVE  /\ AtInjection(g) <=> AtInjection(f)
         /\ InSource(g) <=> InSource(f)
         /\ OffHome(g) <=> OffHome(f)
         /\ AheadInTransit(g) = AheadInTransit(f) /\ Ahead(v, g) = Ahead(v, f)
         /\ Furthest(v, g) = Furthest(v, f) /\ MinPort(g) = MinPort(f)
         /\ \A i : At(v, g, i) <=> At(v, f, i)
<1>1. /\ AtInjection(g) <=> AtInjection(f)
      /\ InSource(g) <=> InSource(f)
      /\ OffHome(g) <=> OffHome(f)
      /\ MinPort(g) = MinPort(f)
  BY DEF SamePlace, AtInjection, InSource, OffHome, MinPort
<1>2. AheadInTransit(g) = AheadInTransit(f) /\ Ahead(v, g) = Ahead(v, f)
  BY <1>1 DEF AheadInTransit, Ahead, SamePlace
<1>3. Furthest(v, g) = Furthest(v, f)
  BY <1>1 DEF Furthest, SamePlace, InTransit
<1>4. \A i : At(v, g, i) <=> At(v, f, i)
  BY <1>1 DEF At, SamePlace
<1> QED BY <1>1, <1>2, <1>3, <1>4

LEMMA InTransitStays ==
  ASSUME NEW v \in Variants, v.routing \in InTransit, NEW f, Net(v, f), NEW e, NEW g, NEW out,
         Ventures(v, f, e, g, out)
  PROVE  Net(v, g) /\ Net(v, e) /\ SamePlace(e, g)
<1>1. g \in FlitType /\ SamePlace(f, g)
  BY DEF Ventures
<1>2. /\ g.sw = f.sw /\ g.port = f.port /\ g.channel = f.channel
      /\ g.src = f.src /\ g.dest = f.dest /\ g.hopCount = f.hopCount /\ g.minLen = f.minLen
      /\ g.byVal = f.byVal /\ g.localDone = f.localDone /\ g.globalDone = f.globalDone
      /\ g.mandatory = f.mandatory
  BY <1>1 DEF SamePlace
<1>3. /\ AtInjection(g) <=> AtInjection(f)
      /\ InSource(g) <=> InSource(f)
      /\ Ahead(v, g) = Ahead(v, f)
      /\ Furthest(v, g) = Furthest(v, f)
      /\ \A i : At(v, g, i) <=> At(v, f, i)
  BY <1>1, SameAhead
<1>4. /\ v.routing \notin Weighing /\ v.routing \notin WeighsBoth /\ ~Away(v)
      /\ v.routing \notin ByValiant /\ v.routing # "car"
  BY DEF Weighing, WeighsBoth, Away, ByValiant, InTransit
<1>5. g.type # "VALIANT"
  <2>1. MisroutingTypes(v, f) \subseteq OffKinds \cup {"NONE"}
    BY TypesTried
  <2> QED BY <2>1 DEF Ventures, OffWay, OffKinds
<1>6. PathBounded(v, g) /\ InOrder(v, g)
  BY <1>2, <1>3, <1>4 DEF Net, PathBounded, InOrder
<1>7. Injected(v, g) /\ Weighed(v, g) /\ Flagged(v, g)
  BY <1>2, <1>3, <1>4 DEF Net, Injected, Weighed, Flagged
<1>8. Misroutes(v, g)
  BY <1>2, <1>3, <1>5 DEF Net, Misroutes
<1>9. Net(v, g)
  BY <1>1, <1>6, <1>7, <1>8 DEF Net
<1>10. e = f \/ e = g
  BY DEF Ventures
<1>11. SamePlace(g, g)
  BY DEF SamePlace
<1> QED BY <1>1, <1>9, <1>10, <1>11

-----------------------------------------------------------------------------
(* In-transit misrouting: a flit that moves.                               *)
LEMMA InTransitHops ==
  /\ Length("par") = 7 /\ Len(typeVc["par"]) = 7
  /\ typeVc["par"][1] = "local" /\ typeVc["par"][2] = "local" /\ typeVc["par"][3] = "global"
  /\ typeVc["par"][4] = "local" /\ typeVc["par"][5] = "local" /\ typeVc["par"][6] = "global"
  /\ typeVc["par"][7] = "local"
  /\ Length("olm") = 5 /\ Len(typeVc["olm"]) = 5
  /\ typeVc["olm"][1] = "local" /\ typeVc["olm"][2] = "global" /\ typeVc["olm"][3] = "local"
  /\ typeVc["olm"][4] = "global" /\ typeVc["olm"][5] = "local"
<1>1. Length("par") = 7 /\ GlobalAt("par") = {3, 6} /\ "par" \in HopsIn7
  BY DEF Length, GlobalAt, HopsIn5, HopsIn6, HopsIn7
<1>2. Length("olm") = 5 /\ GlobalAt("olm") = {2, 4} /\ "olm" \in HopsIn5
  BY DEF Length, GlobalAt, HopsIn5, HopsIn6, HopsIn7
<1>3. /\ Len(typeVc["par"]) = 7
      /\ \A i \in 1..7 : typeVc["par"][i] = IF i \in {3, 6} THEN "global" ELSE "local"
  BY <1>1, HopTypes
<1>4. /\ Len(typeVc["olm"]) = 5
      /\ \A i \in 1..5 : typeVc["olm"][i] = IF i \in {2, 4} THEN "global" ELSE "local"
  BY <1>2, HopTypes
<1> QED BY <1>1, <1>2, <1>3, <1>4

(* What is known of a flit in the network.                                 *)
Standing(v, g) ==
    LET near == Near(g.sw, g.dest) IN
    /\ near \in 0..3
    /\ near \in {2, 3} <=> hPos(g.sw) = Group(g.dest)
    /\ g.hopCount \in Nat /\ g.hopCount + AheadInTransit(g) <= 8
    /\ OffHome(g) <=> InSource(g)
    /\ InSource(g) => near \in {0, 1}
    /\ AtInjection(g) => /\ g.hopCount = 0 /\ ~g.localDone /\ ~g.globalDone /\ ~g.mandatory
                         /\ hPos(g.sw) = Group(g.src)
    /\ PortType(g.port) \in {"node", "local", "global"}
    /\ g.mandatory =>
         /\ InSource(g) /\ near = 0
         /\ v.misrouting = "MM" \/ (v.routing = "olm" /\ v.misrouting \in {"NRG", "RRG"})
    /\ g.localDone => PortType(g.port) = "local"
    /\ InSource(g) /\ ~AtInjection(g) =>
         /\ PortType(g.port) = "local" /\ ~g.globalDone
         /\ ~g.mandatory => ~g.localDone /\ near = 1
    /\ g.type # "VALIANT"

LEMMA Stands ==
  ASSUME NEW v \in Variants, v.routing \in InTransit, NEW g, Net(v, g)
  PROVE  Standing(v, g)
<1>1. /\ g.sw \in Switches /\ g.dest \in Nodes /\ g.valId \in Nodes /\ g.hopCount \in Nat
      /\ PortType(g.port) \in {"node", "local", "global"}
  BY Placed
<1>2. Near(g.sw, g.dest) \in 0..3
  BY <1>1, Measures DEF Measured
<1>3. Near(g.sw, g.dest) \in {2, 3} <=> hPos(g.sw) = Group(g.dest)
  BY DEF Near, Group
<1>4. OffHome(g) <=> InSource(g)
  BY DEF OffHome, InSource
<1>5. InSource(g) => hPos(g.sw) # Group(g.dest)
  BY DEF InSource
<1>6. g.hopCount + AheadInTransit(g) <= 8
  BY DEF Net, PathBounded, Ahead, InTransit
<1>7. AtInjection(g) => /\ g.hopCount = 0 /\ ~g.localDone /\ ~g.globalDone /\ ~g.mandatory
                        /\ hPos(g.sw) = Group(g.src)
  BY DEF Net, Injected, Group
<1>8. Misroutes(v, g)
  BY DEF Net
<1>9. /\ g.type # "VALIANT"
      /\ g.mandatory =>
           /\ InSource(g)
           /\ v.misrouting = "MM" \/ (v.routing = "olm" /\ v.misrouting \in {"NRG", "RRG"})
      /\ g.localDone => PortType(g.port) = "local"
      /\ InSource(g) /\ ~AtInjection(g) =>
           /\ PortType(g.port) = "local" /\ ~g.globalDone
           /\ g.mandatory => Near(g.sw, g.dest) = 0
           /\ ~g.mandatory => ~g.localDone /\ Near(g.sw, g.dest) = 1
  BY <1>8 DEF Misroutes
<1> QED BY <1>1, <1>2, <1>3, <1>4, <1>5, <1>6, <1>7, <1>9 DEF Standing

(* Where the next hop of the sequence puts it.                             *)
LastHop(v, g) == IF AtInjection(g) THEN 0 ELSE Furthest(v, g)

Onto(v, e, g, h, out) ==
    /\ Furthest(v, h) \in Nat /\ LastHop(v, g) \in Nat
    /\ IF Repeats(v, e, out) THEN LastHop(v, g) <= Furthest(v, h)
       ELSE \E j \in 1..Length(v.routing) :
              /\ LastHop(v, g) < j /\ j <= Furthest(v, h)
              /\ typeVc[v.routing][j] = PortType(out)

Lands(v, e, g, h, out) ==
    /\ h.hopCount + AheadInTransit(h) <= 8 /\ Misroutes(v, h)
    /\ Onto(v, e, g, h, out)

LEMMA Landed ==
  ASSUME NEW v \in Variants, v.routing \in InTransit, NEW e, Net(v, e), NEW g, Net(v, g),
         SamePlace(e, g), NEW out \in LinkPorts, NEW vc \in NextChannels(v, e, out),
         NEW h, Moved(v, g, h, out, vc), Lands(v, e, g, h, out)
  PROVE  Net(v, h)
<1>1. /\ h \in FlitType /\ h.src = g.src /\ h.dest = g.dest /\ h.minLen = g.minLen
  BY DEF Moved, SameAims
<1>2. g.sw \in Switches
  BY Placed
<1>3. ~AtInjection(h)
  BY <1>2, MovedKinds
<1>4. /\ v.routing \notin Weighing /\ v.routing \notin WeighsBoth /\ ~Away(v)
      /\ v.routing \notin ByValiant /\ v.routing # "car"
  BY DEF Weighing, WeighsBoth, Away, ByValiant, InTransit
<1>5. PathBounded(v, h)
  BY DEF Lands, PathBounded, Ahead
<1>6. InOrder(v, h)
  <2> SUFFICES ASSUME v.usage = "BASE" PROVE InOrder(v, h)
    BY DEF InOrder
  <2>1. PICK i \in 0..Len(typeVc[v.routing]) : At(v, g, i) /\ i <= Furthest(v, g)
    BY DEF Net, InOrder
  <2>2. At(v, e, i) /\ Len(typeVc[v.routing]) \in Nat
    BY <2>1, SameAhead, InTransitHops DEF InTransit
  <2>3. i <= LastHop(v, g)
    BY <2>1 DEF LastHop, At
  <2>4. Onto(v, e, g, h, out)
    BY DEF Lands
  <2>5. CASE Repeats(v, e, out)
    <3>1. PICK k \in 0..Len(typeVc[v.routing]) : Makes(v, e, h, i, out, k)
      BY <1>2, <2>2, MadeNext
    <3>2. k <= i /\ At(v, h, k)
      BY <2>5, <3>1 DEF Makes
    <3>3. k <= Furthest(v, h)
      BY <2>2, <2>3, <2>4, <2>5, <3>2 DEF Onto
    <3> QED BY <1>4, <3>2, <3>3 DEF InOrder
  <2>6. CASE ~Repeats(v, e, out)
    <3>1. PICK j \in 1..Length(v.routing) :
            LastHop(v, g) < j /\ j <= Furthest(v, h) /\ typeVc[v.routing][j] = PortType(out)
      BY <2>4, <2>6 DEF Onto
    <3>2. i < j /\ Furthest(v, h) \in Nat
      BY <2>2, <2>3, <2>4, <3>1 DEF Onto
    <3> QED BY <1>2, <1>4, <2>2, <2>6, <3>1, <3>2, MadeBy
  <2> QED BY <2>5, <2>6
<1>7. Injected(v, h) /\ Weighed(v, h) /\ Flagged(v, h)
  BY <1>1, <1>3, <1>4 DEF Net, Injected, Weighed, Flagged
<1> QED BY <1>1, <1>5, <1>6, <1>7 DEF Net, Lands

(* Where a moved flit is, from where it was.                               *)
Left(v, g, h, out) ==
    /\ h.src = g.src /\ h.dest = g.dest /\ h.type = g.type /\ h.hopCount = g.hopCount + 1
    /\ ~AtInjection(h) /\ PortType(h.port) = PortType(out)
    /\ PortType(out) \in {"local", "global"}
    /\ PortType(out) = "local" <=> hPos(h.sw) = hPos(g.sw)
    /\ h.localDone <=> hPos(h.sw) = hPos(g.sw) /\ (g.localDone \/ g.type \in {"LOCAL", "LOCAL_MM"})
    /\ h.globalDone <=> g.globalDone \/ g.type \in {"GLOBAL", "GLOBAL_MANDATORY"}
    /\ h.mandatory <=> (hPos(h.sw) = hPos(g.sw) /\ g.mandatory) \/ LeavesNext(v, g, out)
    /\ Near(h.sw, h.dest) \in 0..3
    /\ Near(h.sw, h.dest) \in {2, 3} <=> hPos(h.sw) = Group(g.dest)
    /\ InSource(h) <=> hPos(h.sw) = Group(g.src) /\ Group(g.src) # Group(g.dest)
    /\ InSource(g) <=> hPos(g.sw) = Group(g.src) /\ Group(g.src) # Group(g.dest)
    /\ g.dest \in Nodes /\ g.sw \in Switches

LEMMA Leaving ==
  ASSUME NEW v \in Variants, NEW g, Net(v, g), NEW out \in LinkPorts, NEW vc,
         NEW h, Moved(v, g, h, out, vc)
  PROVE  Left(v, g, h, out)
<1>1. g.sw \in Switches /\ g.dest \in Nodes
  BY Placed
<1>2. /\ ~AtInjection(h) /\ PortType(h.port) = PortType(out)
      /\ PortType(out) \in {"local", "global"}
      /\ PortType(out) = "local" <=> hPos(h.sw) = hPos(g.sw)
  BY <1>1, MovedKinds
<1>3. h \in FlitType /\ h.src = g.src /\ h.dest = g.dest /\ h.type = g.type
  BY DEF Moved, SameAims
<1>4. Near(h.sw, h.dest) \in 0..3
  <2>1. h.sw \in Switches /\ h.dest \in Nodes
    BY <1>3 DEF FlitType
  <2> QED BY <2>1, NearerNext DEF Nearer
<1>5. Near(h.sw, h.dest) \in {2, 3} <=> hPos(h.sw) = Group(g.dest)
  BY <1>3 DEF Near, Group
<1>6. /\ InSource(h) <=> hPos(h.sw) = Group(g.src) /\ Group(g.src) # Group(g.dest)
      /\ InSource(g) <=> hPos(g.sw) = Group(g.src) /\ Group(g.src) # Group(g.dest)
  BY <1>3 DEF InSource
<1>7. /\ h.hopCount = g.hopCount + 1
      /\ h.localDone <=> hPos(h.sw) = hPos(g.sw) /\ (g.localDone \/ g.type \in {"LOCAL", "LOCAL_MM"})
      /\ h.globalDone <=> g.globalDone \/ g.type \in {"GLOBAL", "GLOBAL_MANDATORY"}
      /\ h.mandatory <=> (hPos(h.sw) = hPos(g.sw) /\ g.mandatory) \/ LeavesNext(v, g, out)
  BY DEF Moved
<1> QED BY <1>1, <1>2, <1>3, <1>4, <1>5, <1>6, <1>7 DEF Left

(* Along the minimal path.                                                 *)
LEMMA NotMandatory ==
  ASSUME NEW v \in Variants, v.routing \in InTransit, NEW g,
         NEW out \in LinkPorts, PortType(out) = "local", MayAsk(g, out)
  PROVE  ~g.mandatory
BY SizeAssumption DEF MayAsk, PortType, LinkPorts, SizeAssumption, LocalOffset, GlobalOffset

(* No hop along the path is asked for by one that has to leave, nor makes  *)
(* one that has to.                                                        *)
LEMMA MinimalUnmarked ==
  ASSUME NEW v \in Variants, v.routing \in InTransit, NEW g, Net(v, g), NEW out \in LinkPorts,
         out = MinPort(g), g.type = "NONE", MayAsk(g, out), NEW vc, NEW h,
         Moved(v, g, h, out, vc)
  PROVE  /\ ~g.mandatory /\ ~h.mandatory /\ Step(g, h, g.dest, out)
         /\ h.globalDone <=> g.globalDone
         /\ h.localDone <=> hPos(h.sw) = hPos(g.sw) /\ g.localDone
<1>1. Standing(v, g) /\ Left(v, g, h, out)
  BY Stands, Leaving
<1>2. Step(g, h, g.dest, out)
  <2>1. g.sw \in Switches /\ g.dest \in Nodes
    BY Placed
  <2> QED BY <2>1, MinPortOf, StepTo
<1>3. ~g.mandatory
  <2>1. g.mandatory => PortType(out) = "local"
    BY <1>1, <1>2 DEF Standing, Step
  <2> QED BY <2>1, NotMandatory
<1>4. ~LeavesNext(v, g, out)
  <2> SUFFICES ASSUME LeavesNext(v, g, out) PROVE FALSE
    OBVIOUS
  <2>1. PortType(out) = "local" /\ OffHome(g) /\ PortType(g.port) = "local"
    BY DEF LeavesNext
  <2>2. InSource(g) /\ ~AtInjection(g)
    BY <1>1, <2>1 DEF Standing, AtInjection
  <2>3. Near(g.sw, g.dest) = 1
    BY <1>1, <1>3, <2>2 DEF Standing
  <2> QED BY <1>2, <2>1, <2>3 DEF Step
<1>5. ~h.mandatory
  BY <1>1, <1>3, <1>4 DEF Left
<1>6. /\ h.globalDone <=> g.globalDone
      /\ h.localDone <=> hPos(h.sw) = hPos(g.sw) /\ g.localDone
  BY <1>1 DEF Left
<1> QED BY <1>2, <1>3, <1>5, <1>6

LEMMA MinimalAtHome ==
  ASSUME NEW v \in Variants, v.routing \in InTransit, NEW e, NEW g, Net(v, g), SamePlace(e, g),
         InSource(g), NEW out \in LinkPorts, out = MinPort(g), g.type = "NONE",
         MayAsk(g, out), NEW vc, NEW h, Moved(v, g, h, out, vc)
  PROVE  Lands(v, e, g, h, out)
<1> DEFINE near == Near(g.sw, g.dest)
           then == Near(h.sw, h.dest)
<1>1. Standing(v, g) /\ Left(v, g, h, out)
  BY Stands, Leaving
<1>2. /\ ~g.mandatory /\ ~h.mandatory /\ Step(g, h, g.dest, out)
      /\ h.globalDone <=> g.globalDone
      /\ h.localDone <=> hPos(h.sw) = hPos(g.sw) /\ g.localDone
  BY MinimalUnmarked
<1>3. /\ near \in {0, 1} /\ h.hopCount = g.hopCount + 1 /\ g.hopCount \in Nat
      /\ ~AtInjection(h) /\ then \in 0..3
      /\ then \in {2, 3} <=> hPos(h.sw) = Group(g.dest)
      /\ g.hopCount + AheadInTransit(g) <= 8
  BY <1>1 DEF Standing, Left
<1>4. /\ near = 0 => then = 1 /\ hPos(h.sw) = hPos(g.sw) /\ PortType(out) = "local"
      /\ near = 1 => hPos(h.sw) = Group(g.dest) /\ PortType(out) = "global"
  BY <1>1, <1>2 DEF Step, Left
<1>5. /\ AtInjection(g) => g.hopCount = 0 /\ ~g.localDone /\ ~g.globalDone
      /\ ~AtInjection(g) => ~g.localDone /\ near = 1 /\ ~g.globalDone
  BY <1>1, <1>2 DEF Standing
<1>6. InSource(h) <=> near = 0
  BY <1>1, <1>3, <1>4 DEF Left
<1>7. /\ AheadInTransit(g) = IF AtInjection(g) THEN 8 ELSE 7
      /\ near = 0 => AheadInTransit(h) = 7
      /\ near = 1 => AheadInTransit(h) \in {0, 2}
  <2>1. AheadInTransit(g) = IF AtInjection(g) THEN 8 ELSE 7
    BY <1>2 DEF AheadInTransit
  <2>2. near = 0 => AheadInTransit(h) = 7
    BY <1>2, <1>3, <1>6 DEF AheadInTransit
  <2>3. near = 1 => AheadInTransit(h) \in {0, 2}
    <3>1. ~h.localDone
      BY <1>2, <1>5
    <3>2. near = 1 => ~InSource(h) /\ then \in {2, 3}
      BY <1>3, <1>4, <1>6
    <3> QED BY <3>1, <3>2 DEF AheadInTransit
  <2> QED BY <2>1, <2>2, <2>3
<1>8. h.hopCount + AheadInTransit(h) <= 8
  <2> HIDE DEF near, then
  <2>1. CASE near = 0
    BY <1>3, <1>5, <1>7, <2>1
  <2>2. CASE near = 1
    BY <1>3, <1>5, <1>7, <2>2
  <2> QED BY <1>3, <2>1, <2>2
<1>9. Misroutes(v, h)
  <2>1. ~h.localDone /\ ~h.globalDone /\ h.type # "VALIANT"
    BY <1>1, <1>2, <1>5 DEF Left
  <2>2. near = 0 => then = 1 /\ PortType(h.port) = "local"
    BY <1>1, <1>4 DEF Left
  <2> QED BY <1>2, <1>6, <2>1, <2>2 DEF Misroutes
<1>10. Onto(v, e, g, h, out)
  <2>1. ~Repeats(v, e, out)
    <3>1. MinPort(e) = MinPort(g) /\ e.localDone = g.localDone
      BY DEF SamePlace, MinPort
    <3> QED BY <1>5, <3>1 DEF Repeats, Turned
  <2>2. CASE v.routing = "par"
    <3>1. /\ LastHop(v, g) = IF AtInjection(g) THEN 0 ELSE 1
          /\ near = 0 => Furthest(v, h) = 1
      BY <1>2, <1>3, <1>6, <2>2 DEF LastHop, Furthest
    <3>2. near = 1 => Furthest(v, h) = then + 4 /\ then \in {2, 3}
      <4>1. near = 1 => ~InSource(h) /\ then \in {2, 3}
        BY <1>3, <1>4, <1>6
      <4> QED BY <2>2, <4>1 DEF Furthest
    <3> DEFINE j == IF near = 0 THEN 1 ELSE 3
    <3>3. j \in 1..Length(v.routing) /\ typeVc[v.routing][j] = PortType(out)
      BY <1>3, <1>4, <2>2, InTransitHops
    <3>4. /\ LastHop(v, g) < j /\ j <= Furthest(v, h) /\ Furthest(v, h) \in Nat
          /\ LastHop(v, g) \in Nat
      BY <1>3, <1>5, <3>1, <3>2
    <3> QED BY <2>1, <3>3, <3>4 DEF Onto
  <2>3. CASE v.routing = "olm"
    <3>1. /\ LastHop(v, g) = IF AtInjection(g) THEN 0 ELSE 1
          /\ near = 0 => Furthest(v, h) = 1
      BY <1>2, <1>3, <1>6, <2>3 DEF LastHop, Furthest
    <3>2. near = 1 => Furthest(v, h) = then + 2 /\ then \in {2, 3}
      <4>1. near = 1 => ~InSource(h) /\ then \in {2, 3}
        BY <1>3, <1>4, <1>6
      <4> QED BY <2>3, <4>1 DEF Furthest
    <3> DEFINE j == IF near = 0 THEN 1 ELSE 2
    <3>3. j \in 1..Length(v.routing) /\ typeVc[v.routing][j] = PortType(out)
      BY <1>3, <1>4, <2>3, InTransitHops
    <3>4. /\ LastHop(v, g) < j /\ j <= Furthest(v, h) /\ Furthest(v, h) \in Nat
          /\ LastHop(v, g) \in Nat
      BY <1>3, <1>5, <3>1, <3>2
    <3> QED BY <2>1, <3>3, <3>4 DEF Onto
  <2> QED BY <2>2, <2>3 DEF InTransit
<1> QED BY <1>8, <1>9, <1>10 DEF Lands

LEMMA MinimalAway ==
  ASSUME NEW v \in Variants, v.routing \in InTransit, NEW e, NEW g, Net(v, g), SamePlace(e, g),
         ~InSource(g), NEW out \in LinkPorts, out = MinPort(g), g.type = "NONE",
         MayAsk(g, out), NEW vc, NEW h, Moved(v, g, h, out, vc)
  PROVE  Lands(v, e, g, h, out)
<1> DEFINE near == Near(g.sw, g.dest)
           then == Near(h.sw, h.dest)
<1>1. Standing(v, g) /\ Left(v, g, h, out)
  BY Stands, Leaving
<1>2. /\ ~g.mandatory /\ ~h.mandatory /\ Step(g, h, g.dest, out)
      /\ h.localDone <=> hPos(h.sw) = hPos(g.sw) /\ g.localDone
  BY MinimalUnmarked
<1>3. /\ h.hopCount = g.hopCount + 1 /\ g.hopCount \in Nat
      /\ ~AtInjection(h) /\ then \in 0..3
      /\ g.hopCount + AheadInTransit(g) <= 8
  BY <1>1 DEF Standing, Left
<1>4. h.dest = g.dest
  BY <1>1 DEF Left
<1>5. /\ near \in {0, 1, 2} /\ then \in (near + 1)..3
      /\ near = 0 => then = 1
      /\ PortType(out) = IF near = 1 THEN "global" ELSE "local"
  BY <1>2, <1>4 DEF Step
<1>6. ~InSource(h)
  BY <1>1, <1>2 DEF Left, Step
<1>7. near = 1 => ~h.localDone
  BY <1>2 DEF Step
<1>8. /\ AheadInTransit(g) = IF near = 2 THEN (IF g.localDone THEN 1 ELSE 2)
                             ELSE IF near = 1 THEN 3 ELSE IF g.localDone THEN 4 ELSE 5
      /\ AheadInTransit(h) = IF then = 3 THEN 0
                             ELSE IF then = 2 THEN (IF h.localDone THEN 1 ELSE 2) ELSE 3
  <2>1. AheadInTransit(g) = IF near = 2 THEN (IF g.localDone THEN 1 ELSE 2)
                             ELSE IF near = 1 THEN 3 ELSE IF g.localDone THEN 4 ELSE 5
    BY <1>5 DEF AheadInTransit
  <2>2. then \in {1, 2, 3}
    BY <1>3, <1>5
  <2>3. AheadInTransit(h) = IF then = 3 THEN 0
                             ELSE IF then = 2 THEN (IF h.localDone THEN 1 ELSE 2) ELSE 3
    BY <1>6, <2>2 DEF AheadInTransit
  <2> QED BY <2>1, <2>3
<1>9. h.hopCount + AheadInTransit(h) <= 8
  <2> HIDE DEF near, then
  <2>1. CASE near = 0
    BY <1>3, <1>5, <1>8, <2>1
  <2>2. CASE near = 1
    BY <1>3, <1>5, <1>7, <1>8, <2>2
  <2>3. CASE near = 2
    BY <1>3, <1>5, <1>8, <2>3
  <2> QED BY <1>5, <2>1, <2>2, <2>3
<1>10. Misroutes(v, h)
  <2>1. h.localDone => PortType(h.port) = "local"
    BY <1>1, <1>2 DEF Left
  <2>2. h.type # "VALIANT"
    BY <1>1 DEF Left
  <2> QED BY <1>2, <1>6, <2>1, <2>2 DEF Misroutes
<1>11. Onto(v, e, g, h, out)
  <2>1. CASE v.routing = "par"
    <3>1. /\ LastHop(v, g) \in 0..(near + 4)
          /\ Furthest(v, h) = then + 4
      <4>1. Furthest(v, g) = IF near = 0 THEN (IF g.localDone THEN 4 ELSE 3) ELSE near + 4
        BY <2>1 DEF Furthest
      <4>2. then # 0
        BY <1>5
      <4>3. Furthest(v, h) = then + 4
        BY <1>6, <2>1, <4>2 DEF Furthest
      <4> HIDE DEF near, then
      <4> QED BY <1>5, <4>1, <4>3 DEF LastHop
    <3> DEFINE j == near + 5
    <3>2. j = 5 \/ j = 6 \/ j = 7
      BY <1>5
    <3>3. /\ LastHop(v, g) < j /\ j <= Furthest(v, h) /\ Furthest(v, h) \in Nat
          /\ LastHop(v, g) \in Nat /\ (j = 6 <=> near = 1)
      BY <1>3, <1>5, <3>1
    <3> HIDE DEF j
    <3>4. j \in 1..Length(v.routing) /\ typeVc[v.routing][j] = PortType(out)
      BY <1>5, <2>1, <3>2, <3>3, InTransitHops
    <3>5. ~Repeats(v, e, out)
      BY <2>1 DEF Repeats
    <3> QED BY <3>3, <3>4, <3>5 DEF Onto
  <2>2. CASE v.routing = "olm"
    <3>1. /\ LastHop(v, g) \in 0..(near + 2)
          /\ Furthest(v, h) = then + 2
      <4>1. Furthest(v, g) = near + 2 /\ Furthest(v, h) = then + 2
        BY <1>6, <2>2 DEF Furthest
      <4> HIDE DEF near, then
      <4> QED BY <1>5, <4>1 DEF LastHop
    <3> DEFINE j == near + 3
    <3>2. j = 3 \/ j = 4 \/ j = 5
      BY <1>5
    <3>3. /\ LastHop(v, g) < j /\ j <= Furthest(v, h) /\ Furthest(v, h) \in Nat
          /\ LastHop(v, g) \in Nat /\ (j = 4 <=> near = 1) /\ LastHop(v, g) <= Furthest(v, h)
      BY <1>3, <1>5, <3>1
    <3> HIDE DEF j
    <3>4. j \in 1..Length(v.routing) /\ typeVc[v.routing][j] = PortType(out)
      BY <1>5, <2>2, <3>2, <3>3, InTransitHops
    <3> QED BY <3>3, <3>4 DEF Onto
  <2> QED BY <2>1, <2>2 DEF InTransit
<1> QED BY <1>9, <1>10, <1>11 DEF Lands

(* Off it.                                                                 *)
LEMMA OffTypes ==
  ASSUME NEW v \in Variants, v.routing \in InTransit, NEW f, NEW kind, NEW out,
         OffWay(v, f, kind, out)
  PROVE  /\ kind \in OffKinds /\ out \in LinkPorts
         /\ PortType(out) = IF kind \in {"LOCAL", "LOCAL_MM"} THEN "local" ELSE "global"
         /\ kind \in {"GLOBAL", "GLOBAL_MANDATORY"} => OffHome(f)
         /\ f.mandatory /\ OffHome(f)
              /\ (v.misrouting = "MM" \/ (v.routing = "olm" /\ v.misrouting \in {"NRG", "RRG"}))
              => kind = "GLOBAL_MANDATORY"
         /\ kind \in {"LOCAL", "LOCAL_MM"} /\ OffHome(f) =>
              \/ v.misrouting = "MM" /\ ~AtInjection(f)
              \/ v.routing = "olm" /\ v.misrouting \in {"NRG", "RRG"}
         /\ kind \in {"LOCAL", "LOCAL_MM"} /\ ~OffHome(f) =>
              /\ ~f.localDone /\ MinPort(f) < GlobalOffset
              /\ v.routing = "par" => hPos(f.sw) # Group(f.dest)
<1>1. v.misrouting \in {"CRG", "MM", "NRG", "RRG"}
  BY Configured DEF Configurations
<1>2. kind \in MisroutingTypes(v, f) \ {"NONE"} /\ out \in PortsOf(kind)
  BY DEF OffWay
<1>3. kind \in OffKinds
  BY <1>2, TypesTried
<1>4. /\ out \in LinkPorts
      /\ PortType(out) = IF kind \in {"LOCAL", "LOCAL_MM"} THEN "local" ELSE "global"
  BY <1>2, KindPorts DEF PortsOf
<1>5. AwayFromHome(f) <=> OffHome(f)
  BY DEF AwayFromHome, OffHome
<1>6. CASE v.routing = "par"
  <2>1. kind \in ParTypes(v, f) /\ kind # "NONE"
    BY <1>2, <1>6 DEF MisroutingTypes
  <2>2. CASE OffHome(f)
    <3>1. \/ kind \in {"GLOBAL"} /\ v.misrouting = "CRG"
          \/ kind = MixedModeType(f) /\ v.misrouting = "MM"
      BY <1>1, <1>5, <2>1, <2>2 DEF ParTypes
    <3> QED BY <1>3, <1>4, <1>6, <2>1, <2>2, <3>1 DEF MixedModeType
  <2>3. CASE ~OffHome(f)
    <3>1. kind = "LOCAL" /\ ~f.localDone /\ MinPort(f) < GlobalOffset /\ hPos(f.sw) # Group(f.dest)
      BY <1>5, <2>1, <2>3 DEF ParTypes
    <3> QED BY <1>3, <1>4, <2>3, <3>1
  <2> QED BY <2>2, <2>3
<1>7. CASE v.routing = "olm"
  <2>1. kind \in OlmTypes(v, f) /\ kind # "NONE"
    BY <1>2, <1>7 DEF MisroutingTypes
  <2>2. CASE OffHome(f)
    <3>1. \/ kind = "GLOBAL" /\ v.misrouting = "CRG"
          \/ kind = MixedModeType(f) /\ v.misrouting = "MM"
          \/ /\ v.misrouting \in {"NRG", "RRG"}
             /\ kind \in IF f.mandatory THEN {"GLOBAL_MANDATORY"} ELSE {"LOCAL", "GLOBAL"}
      BY <1>1, <1>5, <2>1, <2>2 DEF OlmTypes
    <3> QED BY <1>3, <1>4, <1>7, <2>1, <2>2, <3>1 DEF MixedModeType
  <2>3. CASE ~OffHome(f)
    <3>1. kind = "LOCAL" /\ ~f.localDone /\ MinPort(f) < GlobalOffset
      BY <1>5, <2>1, <2>3 DEF OlmTypes
    <3> QED BY <1>3, <1>4, <1>7, <2>3, <3>1
  <2> QED BY <2>2, <2>3
<1> QED BY <1>6, <1>7 DEF InTransit

LEMMA OffByLink ==
  ASSUME NEW v, NEW g, g.sw \in Switches, g.dest \in Nodes, NEW out \in LinkPorts,
         out # MinPort(g), NEW vc, NEW h, Moved(v, g, h, out, vc)
  PROVE  /\ PortType(out) = "local" =>
              Near(h.sw, h.dest) = IF Near(g.sw, g.dest) \in {0, 1} THEN 0 ELSE 2
         /\ PortType(out) = "global" /\ hPos(g.sw) # Group(g.dest) => hPos(h.sw) # Group(g.dest)
<1>1. out # Toward(g.sw, g.dest) /\ h.sw = Next_(g.sw, out) /\ h.dest = g.dest
  BY DEF MinPort, Toward, Moved, SameAims
<1>2. OffPath(g.sw, out, g.dest)
  BY <1>1, LinkOffPath
<1> QED BY <1>1, <1>2 DEF OffPath

LEMMA MisroutedByGlobal ==
  ASSUME NEW v \in Variants, v.routing \in InTransit, NEW e, NEW g, Net(v, g),
         SamePlace(e, g), NEW out \in LinkPorts, PortType(out) = "global",
         out # MinPort(g), OffHome(g), NEW vc, NEW h, Moved(v, g, h, out, vc)
  PROVE  Lands(v, e, g, h, out)
<1> DEFINE then == Near(h.sw, h.dest)
<1>1. Standing(v, g) /\ Left(v, g, h, out)
  BY Stands, Leaving
<1>2. InSource(g) /\ hPos(h.sw) # hPos(g.sw) /\ ~InSource(h) /\ hPos(h.sw) # Group(g.dest)
  <2>1. InSource(g) /\ hPos(g.sw) # Group(g.dest) /\ hPos(h.sw) # hPos(g.sw)
    BY <1>1 DEF Standing, Left, OffHome
  <2>2. hPos(h.sw) # Group(g.dest)
    BY <1>1, <2>1, OffByLink DEF Left
  <2>3. ~InSource(h)
    BY <1>1, <2>1 DEF Left
  <2> QED BY <2>1, <2>2, <2>3
<1>3. ~h.mandatory /\ ~h.localDone /\ then \in {0, 1} /\ h.hopCount = g.hopCount + 1
  BY <1>1, <1>2 DEF Left, LeavesNext
<1>4. /\ g.hopCount \in Nat /\ g.hopCount + AheadInTransit(g) <= 8
      /\ AheadInTransit(g) \in {6, 7, 8}
  BY <1>1, <1>2 DEF Standing, AheadInTransit
<1>5. AheadInTransit(h) \in {3, 5}
  BY <1>2, <1>3 DEF AheadInTransit
<1>6. h.hopCount + AheadInTransit(h) <= 8
  <2> HIDE DEF then
  <2> QED BY <1>3, <1>4, <1>5
<1>7. Misroutes(v, h)
  <2>1. h.type # "VALIANT"
    BY <1>1 DEF Left, Standing
  <2> QED BY <1>2, <1>3, <2>1 DEF Misroutes
<1>8. ~Repeats(v, e, out)
  BY DEF Repeats
<1>9. CASE v.routing = "par"
  <2>1. LastHop(v, g) \in 0..2 /\ Furthest(v, h) \in {3, 5}
    BY <1>2, <1>3, <1>9 DEF LastHop, Furthest
  <2> DEFINE j == 3
  <2>2. LastHop(v, g) < j /\ j <= Furthest(v, h) /\ j \in 1..Length(v.routing)
        /\ typeVc[v.routing][j] = PortType(out) /\ Furthest(v, h) \in Nat /\ LastHop(v, g) \in Nat
    BY <1>9, <2>1, InTransitHops
  <2> QED BY <1>6, <1>7, <1>8, <2>2 DEF Onto, Lands
<1>10. CASE v.routing = "olm"
  <2>1. LastHop(v, g) \in 0..1 /\ Furthest(v, h) \in {2, 3}
    BY <1>2, <1>3, <1>10 DEF LastHop, Furthest
  <2> DEFINE j == 2
  <2>2. LastHop(v, g) < j /\ j <= Furthest(v, h) /\ j \in 1..Length(v.routing)
        /\ typeVc[v.routing][j] = PortType(out) /\ Furthest(v, h) \in Nat /\ LastHop(v, g) \in Nat
    BY <1>10, <2>1, InTransitHops
  <2> QED BY <1>6, <1>7, <1>8, <2>2 DEF Onto, Lands
<1> QED BY <1>9, <1>10 DEF InTransit

LEMMA MisroutedAtHome ==
  ASSUME NEW v \in Variants, v.routing \in InTransit, NEW e, NEW g, Net(v, g),
         SamePlace(e, g), NEW out \in LinkPorts, PortType(out) = "local",
         out # MinPort(g), OffHome(g), g.type \in {"LOCAL", "LOCAL_MM"}, ~g.mandatory,
         \/ v.misrouting = "MM" /\ ~AtInjection(g)
         \/ v.routing = "olm" /\ v.misrouting \in {"NRG", "RRG"},
         NEW vc, NEW h, Moved(v, g, h, out, vc)
  PROVE  Lands(v, e, g, h, out)
<1>1. Standing(v, g) /\ Left(v, g, h, out)
  BY Stands, Leaving
<1>2. InSource(g) /\ Near(g.sw, g.dest) \in {0, 1} /\ ~g.globalDone
  BY <1>1 DEF Standing
<1>3. hPos(h.sw) = hPos(g.sw) /\ InSource(h) /\ Near(h.sw, h.dest) = 0
  <2>1. hPos(h.sw) = hPos(g.sw) /\ InSource(h)
    BY <1>1, <1>2 DEF Left
  <2>2. Near(h.sw, h.dest) = 0
    BY <1>1, <1>2, OffByLink DEF Left
  <2> QED BY <2>1, <2>2
<1>4. h.mandatory
  <2>1. PortType(g.port) # "global"
    BY <1>1, <1>2 DEF Standing, AtInjection
  <2>2. v.misrouting = "MM" => PortType(g.port) = "local"
    BY <1>1, <1>2 DEF Standing
  <2>3. LeavesNext(v, g, out)
    BY <1>2, <2>1, <2>2 DEF LeavesNext
  <2> QED BY <1>1, <2>3 DEF Left
<1>5. /\ ~AtInjection(h) /\ PortType(h.port) = "local" /\ ~h.globalDone
      /\ h.type # "VALIANT" /\ h.hopCount = g.hopCount + 1
  BY <1>1, <1>2 DEF Left, Standing
<1>6. h.hopCount + AheadInTransit(h) <= 8
  <2>1. AheadInTransit(h) = 6
    BY <1>3, <1>4, <1>5 DEF AheadInTransit
  <2>2. AheadInTransit(g) \in {7, 8}
    BY <1>2 DEF AheadInTransit
  <2>3. g.hopCount \in Nat /\ g.hopCount + AheadInTransit(g) <= 8
    BY <1>1 DEF Standing
  <2> QED BY <1>5, <2>1, <2>2, <2>3
<1>7. Misroutes(v, h)
  BY <1>3, <1>4, <1>5 DEF Misroutes
<1>8. CASE v.routing = "par"
  <2>1. v.misrouting = "MM" /\ ~AtInjection(g)
    BY <1>8
  <2>2. LastHop(v, g) = 1 /\ Furthest(v, h) = 2
    BY <1>2, <1>3, <1>4, <1>5, <1>8, <2>1 DEF LastHop, Furthest
  <2> DEFINE j == 2
  <2>3. LastHop(v, g) < j /\ j <= Furthest(v, h) /\ j \in 1..Length(v.routing)
        /\ typeVc[v.routing][j] = PortType(out) /\ Furthest(v, h) \in Nat /\ LastHop(v, g) \in Nat
    BY <1>8, <2>2, InTransitHops
  <2>4. ~Repeats(v, e, out)
    BY <1>8 DEF Repeats
  <2> QED BY <1>6, <1>7, <2>3, <2>4 DEF Onto, Lands
<1>9. CASE v.routing = "olm"
  <2>1. LastHop(v, g) = (IF AtInjection(g) THEN 0 ELSE 1) /\ Furthest(v, h) = 1
    BY <1>2, <1>3, <1>5, <1>9 DEF LastHop, Furthest
  <2>2. MinPort(e) = MinPort(g) /\ e.localDone = g.localDone /\ e.port = g.port
    BY DEF SamePlace, MinPort
  <2>3. Repeats(v, e, out) <=> ~AtInjection(g)
    <3>1. AtInjection(g) => ~g.localDone /\ PortType(g.port) = "node"
      BY <1>1 DEF Standing, AtInjection
    <3> QED BY <1>9, <2>2, <3>1 DEF Repeats, Turned, AtInjection
  <2> DEFINE j == 1
  <2>4. /\ AtInjection(g) => LastHop(v, g) < j
        /\ j <= Furthest(v, h) /\ j \in 1..Length(v.routing)
        /\ typeVc[v.routing][j] = PortType(out) /\ Furthest(v, h) \in Nat /\ LastHop(v, g) \in Nat
        /\ LastHop(v, g) <= Furthest(v, h)
    BY <1>9, <2>1, InTransitHops
  <2> QED BY <1>6, <1>7, <2>3, <2>4 DEF Onto, Lands
<1> QED BY <1>8, <1>9 DEF InTransit

LEMMA MisroutedAway ==
  ASSUME NEW v \in Variants, v.routing \in InTransit, NEW e, NEW g, Net(v, g),
         SamePlace(e, g), NEW out \in LinkPorts, PortType(out) = "local",
         out # MinPort(g), ~OffHome(g), g.type \in {"LOCAL", "LOCAL_MM"}, ~g.mandatory,
         ~g.localDone, MinPort(g) < GlobalOffset, Near(g.sw, g.dest) # 3,
         v.routing = "par" => hPos(g.sw) # Group(g.dest),
         NEW vc, NEW h, Moved(v, g, h, out, vc)
  PROVE  Lands(v, e, g, h, out)
<1> DEFINE near == Near(g.sw, g.dest)
           then == Near(h.sw, h.dest)
<1>1. Standing(v, g) /\ Left(v, g, h, out) /\ g.sw \in Switches /\ g.dest \in Nodes
  BY Stands, Leaving DEF Left
<1>2. near \in {0, 2}
  <2>1. near = 1 => PortType(MinPort(g)) = "global"
    BY <1>1, MinPortOf
  <2>2. PortType(MinPort(g)) # "global"
    BY DEF PortType
  <2>3. near \in 0..3 /\ near # 3
    BY <1>1 DEF Standing
  <2> QED BY <2>1, <2>2, <2>3
<1>3. ~InSource(g) /\ hPos(h.sw) = hPos(g.sw) /\ ~InSource(h) /\ then = near
  <2>1. ~InSource(g) /\ hPos(h.sw) = hPos(g.sw)
    BY <1>1 DEF Standing, Left
  <2>2. ~InSource(h)
    BY <1>1, <2>1 DEF Left
  <2>3. then = near
    BY <1>1, <1>2, OffByLink
  <2> QED BY <2>1, <2>2, <2>3
<1>4. /\ ~h.mandatory /\ h.localDone /\ ~AtInjection(h) /\ PortType(h.port) = "local"
      /\ h.type # "VALIANT" /\ h.hopCount = g.hopCount + 1
  BY <1>1, <1>3 DEF Left, LeavesNext
<1>5. h.hopCount + AheadInTransit(h) <= 8
  <2>1. AheadInTransit(g) = IF near = 2 THEN 2 ELSE 5
    BY <1>2, <1>3 DEF AheadInTransit
  <2>2. AheadInTransit(h) = IF near = 2 THEN 1 ELSE 4
    BY <1>2, <1>3, <1>4 DEF AheadInTransit
  <2>3. g.hopCount \in Nat /\ g.hopCount + AheadInTransit(g) <= 8
    BY <1>1 DEF Standing
  <2> HIDE DEF near, then
  <2> QED BY <1>2, <1>4, <2>1, <2>2, <2>3
<1>6. Misroutes(v, h)
  BY <1>3, <1>4 DEF Misroutes
<1>7. CASE v.routing = "par"
  <2>1. near = 0
    BY <1>1, <1>2, <1>7 DEF Standing
  <2>2. LastHop(v, g) \in {0, 3} /\ Furthest(v, h) = 4
    BY <1>3, <1>4, <1>7, <2>1 DEF LastHop, Furthest
  <2> DEFINE j == 4
  <2>3. LastHop(v, g) < j /\ j <= Furthest(v, h) /\ j \in 1..Length(v.routing)
        /\ typeVc[v.routing][j] = PortType(out) /\ Furthest(v, h) \in Nat /\ LastHop(v, g) \in Nat
    BY <1>7, <2>2, InTransitHops
  <2>4. ~Repeats(v, e, out)
    BY <1>7 DEF Repeats
  <2> QED BY <1>5, <1>6, <2>3, <2>4 DEF Onto, Lands
<1>8. CASE v.routing = "olm"
  <2>1. LastHop(v, g) = (IF AtInjection(g) THEN 0 ELSE near + 2) /\ Furthest(v, h) = near + 2
    BY <1>3, <1>8 DEF LastHop, Furthest
  <2>2. MinPort(e) = MinPort(g) /\ e.localDone = g.localDone /\ e.port = g.port
    BY DEF SamePlace, MinPort
  <2>3. Repeats(v, e, out) <=> ~AtInjection(g)
    BY <1>8, <2>2 DEF Repeats, Turned, AtInjection
  <2> DEFINE j == 1
  <2>4. /\ AtInjection(g) => LastHop(v, g) < j
        /\ j <= Furthest(v, h) /\ j \in 1..Length(v.routing)
        /\ typeVc[v.routing][j] = PortType(out) /\ Furthest(v, h) \in Nat /\ LastHop(v, g) \in Nat
        /\ LastHop(v, g) <= Furthest(v, h)
    BY <1>2, <1>8, <2>1, InTransitHops
  <2> QED BY <1>5, <1>6, <2>3, <2>4 DEF Onto, Lands
<1> QED BY <1>7, <1>8 DEF InTransit

(* Whatever it asks for.                                                   *)
LEMMA InTransitMoves ==
  ASSUME NEW v \in Variants, v.routing \in InTransit, NEW f, Net(v, f), NEW e, NEW g, NEW out,
         Ventures(v, f, e, g, out), out \in LinkPorts, MayAsk(g, out),
         NEW vc \in NextChannels(v, e, out), NEW h, Moved(v, g, h, out, vc)
  PROVE  Net(v, h)
<1>1. Net(v, g) /\ Net(v, e) /\ SamePlace(e, g)
  BY InTransitStays
<1>2. SamePlace(f, g)
  BY DEF Ventures
<1>3. /\ AtInjection(g) <=> AtInjection(f)
      /\ OffHome(g) <=> OffHome(f)
      /\ MinPort(g) = MinPort(f) /\ g.mandatory = f.mandatory /\ g.localDone = f.localDone
      /\ g.sw = f.sw /\ g.dest = f.dest
  BY <1>2, SameAhead DEF SamePlace
<1>4. Lands(v, e, g, h, out)
  <2>1. CASE out = MinPort(f) /\ g.type = "NONE"
    <3>1. CASE InSource(g)
      BY <1>1, <1>3, <2>1, <3>1, MinimalAtHome
    <3>2. CASE ~InSource(g)
      BY <1>1, <1>3, <2>1, <3>2, MinimalAway
    <3> QED BY <3>1, <3>2
  <2>2. CASE OffWay(v, f, g.type, out)
    <3> DEFINE kind == g.type
    <3>1. OffWay(v, f, kind, out)
      BY <2>2
    <3> HIDE DEF kind
    <3>2. /\ kind \in OffKinds
          /\ PortType(out) = IF kind \in {"LOCAL", "LOCAL_MM"} THEN "local" ELSE "global"
          /\ kind \in {"GLOBAL", "GLOBAL_MANDATORY"} => OffHome(f)
          /\ kind \in {"LOCAL", "LOCAL_MM"} /\ OffHome(f) =>
              \/ v.misrouting = "MM" /\ ~AtInjection(f)
              \/ v.routing = "olm" /\ v.misrouting \in {"NRG", "RRG"}
          /\ kind \in {"LOCAL", "LOCAL_MM"} /\ ~OffHome(f) =>
              /\ ~f.localDone /\ MinPort(f) < GlobalOffset
              /\ v.routing = "par" => hPos(f.sw) # Group(f.dest)
      BY <3>1, OffTypes
    <3>3. out # MinPort(g) /\ (g.mandatory \/ Near(g.sw, g.dest) # 3)
      BY <1>3, <3>1 DEF OffWay
    <3>4. CASE kind \in {"GLOBAL", "GLOBAL_MANDATORY"}
      BY <1>1, <1>3, <3>2, <3>3, <3>4, MisroutedByGlobal
    <3>5. CASE kind \in {"LOCAL", "LOCAL_MM"} /\ OffHome(f)
      <4>1. ~g.mandatory
        BY <3>2, <3>5, NotMandatory
      <4>2. g.type \in {"LOCAL", "LOCAL_MM"}
        BY <3>5 DEF kind
      <4> QED BY <1>1, <1>3, <3>2, <3>3, <3>5, <4>1, <4>2, MisroutedAtHome
    <3>6. CASE kind \in {"LOCAL", "LOCAL_MM"} /\ ~OffHome(f)
      <4>1. ~g.mandatory
        BY <3>2, <3>6, NotMandatory
      <4>2. g.type \in {"LOCAL", "LOCAL_MM"}
        BY <3>6 DEF kind
      <4> QED BY <1>1, <1>3, <3>2, <3>3, <3>6, <4>1, <4>2, MisroutedAway
    <3> QED BY <3>2, <3>4, <3>5, <3>6 DEF OffKinds
  <2> QED BY <2>1, <2>2 DEF Ventures
<1> QED BY <1>1, <1>4, Landed

-----------------------------------------------------------------------------
(* Every routing: what enroute makes of the flit f.  It leaves it as g, to *)
(* ask for out; e is the flit as nextChannel saw it.                       *)
Routed(v, f, e, g, out) ==
    \/ v.routing \in ByValiant /\ e = g /\ Sent(v, f, g, out)
    \/ v.routing = "car" /\ e = g /\ Tries(f, g, out)
    \/ v.routing = "minCond" /\ e = g /\ Decides(f, g, out)
    \/ v.routing \in InTransit /\ Ventures(v, f, e, g, out)

Result(v, e, g, out, r) ==
    r.flit = g /\ r.out = out /\ r.vc \in NextChannels(v, e, out)

LEMMA Routes ==
  ASSUME NEW v \in Variants
  PROVE  v.routing \in ByValiant \cup InTransit \cup {"car", "minCond"}
  BY Configured DEF Configurations

LEMMA EnrouteRouted ==
  ASSUME NEW v \in Variants, NEW f, Net(v, f), NEW r \in Enroute(v, f)
  PROVE  \E e, g, out : Routed(v, f, e, g, out) /\ Result(v, e, g, out, r)
<1> DEFINE Results(o) == {[out |-> o.to.out, vc |-> vc, flit |-> o.to.flit] :
                             vc \in NextChannels(v, o.seen, o.to.out)}
<1>0. ASSUME NEW o, r \in Results(o) PROVE Result(v, o.seen, o.to.flit, o.to.out, r)
  <2>1. PICK vc \in NextChannels(v, o.seen, o.to.out) :
          r = [out |-> o.to.out, vc |-> vc, flit |-> o.to.flit]
    BY <1>0
  <2> QED BY <2>1 DEF Result
<1>1. CASE v.routing \in InTransit
  <2>0. r \in UNION {Results(o) : o \in EnrouteInTransit(v, f)}
    BY <1>1, Zenon DEF Enroute, InTransit
  <2> HIDE DEF Results
  <2>1. \E o \in EnrouteInTransit(v, f) : Result(v, o.seen, o.to.flit, o.to.out, r)
    BY <1>0, <2>0
  <2>2. PICK o \in EnrouteInTransit(v, f) : Result(v, o.seen, o.to.flit, o.to.out, r)
    BY <2>1
  <2>3. Routed(v, f, o.seen, o.to.flit, o.to.out)
    BY <1>1, InTransitVentures DEF Routed
  <2> QED BY <2>2, <2>3
<1>2. CASE v.routing \notin InTransit
  <2> DEFINE Outcome_(t) == [to |-> t, seen |-> t.flit]
  <2>0. r \in UNION {Results(o) : o \in {Outcome_(t) : t \in EnrouteAtSource(v, f)}}
    BY <1>2, Zenon DEF Enroute, InTransit
  <2>a. \A t : Outcome_(t).to = t /\ Outcome_(t).seen = t.flit
    OBVIOUS
  <2> HIDE DEF Results, Outcome_
  <2>1. \E t \in EnrouteAtSource(v, f) : Result(v, t.flit, t.flit, t.out, r)
    <3>1. PICK t \in EnrouteAtSource(v, f) : r \in Results(Outcome_(t))
      BY <2>0
    <3> QED BY <1>0, <2>a, <3>1
  <2>2. PICK t \in EnrouteAtSource(v, f) : Result(v, t.flit, t.flit, t.out, r)
    BY <2>1
  <2>3. Routed(v, f, t.flit, t.flit, t.out)
    <3>1. CASE v.routing \in ByValiant
      BY <3>1, ByValiantSent DEF Routed
    <3>2. CASE v.routing = "car"
      <4>1. EnrouteAtSource(v, f) = EnrouteCar(v, f)
        BY <3>2 DEF EnrouteAtSource
      <4> QED BY <3>2, <4>1, CarTries DEF Routed
    <3>3. CASE v.routing = "minCond"
      <4>1. EnrouteAtSource(v, f) = EnrouteMinCond(f)
        BY <3>3 DEF EnrouteAtSource
      <4> QED BY <3>3, <4>1, MinCondDecides DEF Routed
    <3> QED BY <1>2, <3>1, <3>2, <3>3, Routes
  <2> QED BY <2>2, <2>3
<1> QED BY <1>1, <1>2

LEMMA RoutedStays ==
  ASSUME NEW v \in Variants, NEW f, Net(v, f), NEW e, NEW g, NEW out, Routed(v, f, e, g, out)
  PROVE  Net(v, g) /\ Net(v, e) /\ SamePlace(f, g) /\ SamePlace(e, g)
<1>1. CASE v.routing \in ByValiant /\ e = g /\ Sent(v, f, g, out)
  <2>1. Net(v, g)
    BY <1>1, ByValiantStays
  <2> QED BY <1>1, <2>1 DEF Sent, SamePlace
<1>2. CASE v.routing = "car" /\ e = g /\ Tries(f, g, out)
  <2>1. Net(v, g)
    BY <1>2, CarStays
  <2> QED BY <1>2, <2>1 DEF Tries, SamePlace
<1>3. CASE v.routing = "minCond" /\ e = g /\ Decides(f, g, out)
  <2>1. Net(v, g)
    BY <1>3, MinCondStays
  <2> QED BY <1>3, <2>1 DEF Decides, SamePlace
<1>4. CASE v.routing \in InTransit /\ Ventures(v, f, e, g, out)
  <2>1. Net(v, g) /\ Net(v, e) /\ SamePlace(e, g)
    BY <1>4, InTransitStays
  <2> QED BY <1>4, <2>1 DEF Ventures
<1> QED BY <1>1, <1>2, <1>3, <1>4 DEF Routed

(* It asks for a link, or it is at the switch of its destination.          *)
Asks(g, out) ==
    /\ out \in Ports
    /\ PortType(out) # "node" => out \in LinkPorts
    /\ PortType(out) = "node" => g.sw = SwitchOf(g.dest)

LEMMA AsksAlong ==
  ASSUME NEW g, g.sw \in Switches, g.dest \in Nodes
  PROVE  Asks(g, MinPort(g))
<1>1. Near(g.sw, g.dest) \in 0..3 /\ (Near(g.sw, g.dest) = 3 <=> g.sw = SwitchOf(g.dest))
  BY NearerNext DEF Nearer
<1> DEFINE out == MinPort(g)
<1>2. /\ out \in Ports
      /\ Near(g.sw, g.dest) = 3 => PortType(out) = "node"
      /\ Near(g.sw, g.dest) # 3 => out \in LinkPorts
      /\ Near(g.sw, g.dest) = 1 => PortType(out) = "global"
      /\ Near(g.sw, g.dest) \in {0, 2} => PortType(out) = "local"
  BY MinPortOf
<1> HIDE DEF out
<1>3. Asks(g, out)
  BY <1>1, <1>2 DEF Asks
<1> QED BY <1>3 DEF out

LEMMA AsksByVal ==
  ASSUME NEW g, g.sw \in Switches, g.valId \in Nodes, ~InValSwitch(g)
  PROVE  Asks(g, ValPort(g))
<1>1. Nearer(g.sw, g.valId) /\ ValPort(g) = Toward(g.sw, g.valId)
  BY NearerNext DEF ValPort, Toward
<1>2. Near(g.sw, g.valId) # 3 /\ Near(g.sw, g.valId) \in 0..3
  BY <1>1 DEF Nearer, InValSwitch
<1>3. Toward(g.sw, g.valId) \in LinkPorts
  BY <1>1, <1>2, Zenon DEF Nearer
<1>4. ValPort(g) \in LinkPorts
  BY <1>1, <1>3
<1> DEFINE out == ValPort(g)
<1> HIDE DEF out
<1>5. out \in LinkPorts
  BY <1>4 DEF out
<1>6. PortType(out) \in {"local", "global"} /\ out \in Ports
  BY <1>5, PortOfLink
<1>7. Asks(g, out)
  BY <1>5, <1>6 DEF Asks
<1> QED BY <1>7 DEF out

LEMMA AsksByLink ==
  ASSUME NEW g, NEW out \in LinkPorts
  PROVE  Asks(g, out)
BY PortOfLink DEF Asks

LEMMA RoutedAsks ==
  ASSUME NEW v \in Variants, NEW f, Net(v, f), NEW e, NEW g, NEW out, Routed(v, f, e, g, out)
  PROVE  Asks(g, out)
<1>1. Net(v, g) /\ SamePlace(f, g)
  BY RoutedStays
<1>2. g.sw \in Switches /\ g.dest \in Nodes /\ g.valId \in Nodes
  BY <1>1, Placed
<1>3. MinPort(f) = MinPort(g)
  BY <1>1 DEF SamePlace, MinPort
<1>4. \/ out = MinPort(g)
      \/ out = ValPort(g) /\ ~InValSwitch(g)
      \/ out \in LinkPorts
  <2>1. CASE v.routing \in ByValiant /\ e = g /\ Sent(v, f, g, out)
    <3>1. out = MinPort(g) \/ (out = ValPort(g) /\ ~There(v, g))
      BY <2>1 DEF Sent, Onward
    <3>2. InValSwitch(g) => There(v, g)
      BY DEF There, InValSwitch, InValGroup, Group
    <3> QED BY <3>1, <3>2
  <2>2. CASE v.routing = "car" /\ e = g /\ Tries(f, g, out)
    BY <2>2 DEF Tries
  <2>3. CASE v.routing = "minCond" /\ e = g /\ Decides(f, g, out)
    BY <2>3, KindPorts DEF Decides
  <2>4. CASE v.routing \in InTransit /\ Ventures(v, f, e, g, out)
    <3>1. CASE out = MinPort(f)
      BY <1>3, <3>1
    <3>2. CASE OffWay(v, f, g.type, out)
      <4> DEFINE kind == g.type
      <4> HIDE DEF kind
      <4>1. OffWay(v, f, kind, out)
        BY <3>2 DEF kind
      <4>2. out \in LinkPorts
        BY <2>4, <4>1, OffTypes
      <4> QED BY <4>2
    <3> QED BY <2>4, <3>1, <3>2 DEF Ventures
  <2> QED BY <2>1, <2>2, <2>3, <2>4 DEF Routed
<1>5. CASE out = MinPort(g)
  BY <1>2, <1>5, AsksAlong
<1>6. CASE out = ValPort(g) /\ ~InValSwitch(g)
  BY <1>2, <1>6, AsksByVal
<1> QED BY <1>4, <1>5, <1>6, AsksByLink

(* A hop.                                                                  *)
LEMMA SentHeads ==
  ASSUME NEW v, NEW f, NEW g, NEW out, Sent(v, f, g, out)
  PROVE  Heads(v, g, out)
<1>1. AtInjection(g) <=> AtInjection(f)
  BY DEF Sent, SamePlace, AtInjection
<1>2. g.src = f.src /\ g.dest = f.dest
  BY DEF Sent, SamePlace
<1> QED BY <1>1, <1>2 DEF Sent, Heads

LEMMA RoutedMoves ==
  ASSUME NEW v \in Variants, NEW f, Net(v, f), NEW e, NEW g, NEW out, Routed(v, f, e, g, out),
         out \in LinkPorts, MayAsk(g, out), NEW vc \in NextChannels(v, e, out)
  PROVE  /\ Net(v, Traverse(v, g, out, vc))
         /\ Moved(v, g, Traverse(v, g, out, vc), out, vc)
<1> DEFINE h == Traverse(v, g, out, vc)
<1>1. Net(v, g) /\ Net(v, e) /\ SamePlace(f, g)
  BY RoutedStays
<1>2. g \in FlitType
  BY <1>1, Placed
<1>3. vc \in Channels
  BY <1>1, GivenChannel
<1>4. Moved(v, g, h, out, vc)
  BY <1>2, <1>3, Crossing
<1> HIDE DEF h
<1>5. Net(v, h)
  <2>1. CASE v.routing \in ByValiant /\ e = g /\ Sent(v, f, g, out)
    <3>1. Heads(v, g, out)
      BY <2>1, SentHeads
    <3> QED BY <1>1, <1>4, <2>1, <3>1, ByValiantMoves
  <2>2. CASE v.routing = "car" /\ e = g /\ Tries(f, g, out)
    <3>1. g.type = "VALIANT" \/ out = MinPort(g)
      BY <2>2 DEF Tries
    <3> QED BY <1>1, <1>4, <2>2, <3>1, CarMoves
  <2>3. CASE v.routing = "minCond" /\ e = g /\ Decides(f, g, out)
    <3>1. out = MinPort(g) \/ (out \in GlobalPorts /\ AtInjection(g))
      BY <2>3 DEF Decides
    <3> QED BY <1>1, <1>4, <2>3, <3>1, MinCondMoves
  <2>4. CASE v.routing \in InTransit /\ Ventures(v, f, e, g, out)
    BY <1>1, <1>4, <2>4, InTransitMoves
  <2> QED BY <2>1, <2>2, <2>3, <2>4 DEF Routed
<1> QED BY <1>4, <1>5 DEF h
-----------------------------------------------------------------------------
(* The end of the way.                                                     *)
LEMMA LengthUpTo8 ==
  ASSUME NEW v \in Variants
  PROVE  Len(typeVc[v.routing]) \in 5..7
<1>1. v.routing \in HopsIn5 \cup HopsIn6 \cup HopsIn7
  BY Configured DEF Bases, HopsIn5, HopsIn6, HopsIn7
<1> QED BY <1>1, HopTypes

(* No flit makes more hops than a buffer's turn in the order, or eight.    *)
LEMMA FewHops ==
  ASSUME NEW v \in Variants, NEW f, Net(v, f), v.routing # "car" \/ v.usage = "BASE"
  PROVE  f.hopCount \in Nat /\ f.hopCount <= 8
<1>1. /\ f.hopCount \in Nat /\ f.sw \in Switches /\ f.dest \in Nodes /\ f.valId \in Nodes
  BY Placed
<1>2. CASE v.routing # "car"
  <2>1. f.hopCount + Ahead(v, f) <= 8
    BY <1>2 DEF Net, PathBounded
  <2>2. HopsToDest(f.sw, f.dest) \in 0..3 /\ HopsToDest(f.sw, f.valId) \in 0..3
    BY <1>1, HopsCounted DEF Counted
  <2>3. Near(f.sw, f.dest) \in 0..3
    BY <1>1, NearerNext DEF Nearer
  <2>4. AheadInTransit(f) \in Nat
    BY <2>3 DEF AheadInTransit
  <2>5. Ahead(v, f) \in Nat
    BY <2>2, <2>4 DEF Ahead
  <2> QED BY <1>1, <2>1, <2>5
<1>3. CASE v.routing = "car" /\ v.usage = "BASE"
  <2>1. PICK i \in 0..Len(typeVc[v.routing]) :
            At(v, f, i) /\ i <= Furthest(v, f) /\ f.hopCount <= i
    BY <1>3 DEF Net, InOrder
  <2>2. i \in Nat /\ i <= 7
    <3> DEFINE len == Len(typeVc[v.routing])
    <3>1. len \in 5..7 /\ i \in 0..len
      BY LengthUpTo8
    <3> HIDE DEF len
    <3> QED BY <3>1
  <2> QED BY <1>1, <2>1, <2>2
<1> QED BY <1>2, <1>3

LEMMA Arrived ==
  ASSUME NEW v \in Variants, NEW g, Net(v, g), g.sw = SwitchOf(g.dest), NEW out \in Ports
  PROVE  Done(v, [g EXCEPT !.port = out])
<1> DEFINE h == [g EXCEPT !.port = out]
<1>1. /\ g \in FlitType /\ g.hopCount \in Nat /\ g.sw \in Switches /\ g.dest \in Nodes
      /\ g.valId \in Nodes /\ g.src \in Nodes
  BY Placed
<1>2. /\ h \in FlitType /\ h.hopCount = g.hopCount /\ h.minLen = g.minLen
      /\ h.valLen = g.valLen /\ h.byVal = g.byVal
  BY <1>1 DEF FlitType
<1>3. /\ HopsToDest(g.sw, g.dest) = 0 /\ HopsToDest(g.sw, g.valId) \in 0..3
      /\ HopsToDest(SwitchOf(g.valId), g.dest) \in 0..3
  BY <1>1, HopsCounted, NodeSwitch DEF Counted
<1>4. AtInjection(g) => g.hopCount = 0 /\ g.sw = SwitchOf(g.src) /\ ~g.byVal
  BY DEF Net, Injected
<1>5. g.minLen = MinPathLength(g.src, g.dest)
  BY DEF Net, Weighed
<1>6. AtInjection(g) => g.minLen = 0
  BY <1>1, <1>3, <1>4, <1>5, MinPathHops
<1>7. ASSUME v.routing \in Weighing, ~g.byVal
      PROVE  g.hopCount = g.minLen
  <2>1. CASE AtInjection(g)
    BY <1>4, <1>6, <2>1
  <2>2. CASE ~AtInjection(g)
    <3>1. g.hopCount + HopsToDest(g.sw, g.dest) = g.minLen
      BY <1>7, <2>2 DEF Net, Weighed
    <3> QED BY <1>1, <1>3, <3>1
  <2> QED BY <2>1, <2>2
<1>8. ASSUME v.routing \in WeighsBoth, g.byVal
      PROVE  g.hopCount <= g.valLen
  <2>1. ~AtInjection(g)
    BY <1>4, <1>8
  <2>2. IF Via(v, g) THEN g.hopCount + WayLength(g) = g.valLen
                     ELSE g.hopCount + HopsToDest(g.sw, g.dest) <= g.valLen
    BY <1>8, <2>1 DEF Net, Weighed, WeighsBoth
  <2>3. WayLength(g) \in Nat
    BY <1>3 DEF WayLength
  <2> QED BY <1>1, <1>3, <2>2, <2>3
<1>9. v.routing # "car" \/ v.usage = "BASE" => g.hopCount <= 8
  BY FewHops
<1> HIDE DEF h
<1> QED BY <1>2, <1>7, <1>8, <1>9 DEF Done, h

-----------------------------------------------------------------------------
(* There is a flit before there is one.                                     *)
LEMMA NoFlitType == NoFlit \in FlitType /\ NoFlit.hopCount = 0
<1>1. 0 \in Switches /\ 0 \in Ports /\ 0 \in Nodes
  <2>1. A * H \in Nat /\ A * (A * H + 1) \in Nat \ {0}
    BY SizeAssumption, Z3 DEF SizeAssumption
  <2>2. P * A * (A * H + 1) \in Nat \ {0}
    <3> DEFINE n == A * (A * H + 1)
    <3> HIDE DEF n
    <3>1. n \in Nat \ {0}
      BY <2>1 DEF n
    <3>2. P * n \in Nat \ {0}
      BY <3>1, SizeAssumption DEF SizeAssumption
    <3>3. P * n = P * A * (A * H + 1)
      BY <2>1, SizeAssumption, Z3 DEF SizeAssumption, n
    <3> QED BY <3>2, <3>3
  <2>3. 0 \in Switches
    BY <2>1 DEF Switches
  <2>4. 0 \in Nodes
    BY <2>2 DEF Nodes
  <2>5. 0 \in Ports
    BY SizeAssumption DEF SizeAssumption, Ports
  <2> QED BY <2>3, <2>4, <2>5
<1>2. 0 \in Channels
  BY ChannelsAssumption DEF ChannelsAssumption, Channels
<1> QED BY <1>1, <1>2 DEF NoFlit, FlitType

(* A packet that is injected.                                              *)
Entering(src, dest, val) ==
    [NoFlit EXCEPT !.sw = SwitchOf(src), !.port = src % P, !.src = src, !.dest = dest,
                   !.valId = val, !.minLen = MinPathLength(src, dest)]

LEMMA EntersNet ==
  ASSUME NEW v \in Variants, NEW src \in Nodes, NEW dest \in Nodes, NEW val \in Nodes
  PROVE  Net(v, Entering(src, dest, val))
<1> DEFINE h == Entering(src, dest, val)
<1>1. /\ SwitchOf(src) \in Switches /\ src % P \in Ports /\ PortType(src % P) = "node"
  BY NodeSwitch
<1>2. MinPathLength(src, dest) \in 0..3
  BY <1>1, MinPathHops, HopsCounted DEF Counted
<1>3. 0 \in Channels
  BY ChannelsAssumption DEF ChannelsAssumption, Channels
<1>4. h \in FlitType
  <2>1. [NoFlit EXCEPT !.sw = SwitchOf(src), !.port = src % P, !.src = src] \in FlitType
    BY <1>1, NoFlitType DEF FlitType
  <2> DEFINE g == [NoFlit EXCEPT !.sw = SwitchOf(src), !.port = src % P, !.src = src]
  <2> HIDE DEF g
  <2>2. [g EXCEPT !.dest = dest, !.valId = val, !.minLen = MinPathLength(src, dest)] \in FlitType
    BY <1>2, <2>1 DEF FlitType, g
  <2> QED BY <2>2, Zenon DEF Entering, g
<1>5. /\ h.sw = SwitchOf(src) /\ h.port = src % P /\ h.src = src /\ h.dest = dest
      /\ h.valId = val /\ h.minLen = MinPathLength(src, dest) /\ h.hopCount = 0
      /\ ~h.reached /\ h.type = "NONE" /\ ~h.localDone /\ ~h.globalDone /\ ~h.mandatory
      /\ ~h.chosen /\ ~h.byVal
  BY DEF Entering, NoFlit
<1> HIDE DEF h
<1>6. AtInjection(h)
  BY <1>1, <1>5 DEF AtInjection
<1>7. /\ Near(h.sw, h.dest) \in 0..3 /\ Near(h.sw, h.valId) \in 0..3
      /\ HopsToDest(h.sw, h.dest) \in 0..3 /\ HopsToDest(h.sw, h.valId) \in 0..3
  BY <1>1, <1>5, NearerNext, HopsCounted DEF Nearer, Counted
<1>8. PathBounded(v, h)
  BY <1>5, <1>7 DEF PathBounded, Ahead, AheadInTransit
<1>9. Len(typeVc[v.routing]) \in 5..7
  BY LengthUpTo8
<1>10. 0 <= Furthest(v, h)
  <2> DEFINE near == Near(h.sw, h.dest)
             nearVal == Near(h.sw, h.valId)
             len == Len(typeVc[v.routing])
  <2>1. near \in 0..3 /\ nearVal \in 0..3 /\ len \in 5..7
    BY <1>7, <1>9
  <2>2. Furthest(v, h) \in {0, 1, 2, 3, 4, 7, near + 4, near + 2, nearVal, len - 3 + near}
    BY DEF Furthest
  <2> HIDE DEF near, nearVal, len
  <2> QED BY <2>1, <2>2
<1>11. InOrder(v, h)
  <2>1. At(v, h, 0)
    BY <1>6 DEF At
  <2> QED BY <1>5, <1>9, <1>10, <2>1 DEF InOrder
<1>12. Injected(v, h) /\ Weighed(v, h) /\ Flagged(v, h) /\ Misroutes(v, h)
  BY <1>5, <1>6 DEF Injected, Weighed, Flagged, Misroutes
<1> QED BY <1>4, <1>8, <1>11, <1>12 DEF Net, h

LEMMA ValNodesThere ==
  ASSUME NEW v \in Variants, NEW src \in Nodes, NEW dest \in Nodes
  PROVE  /\ ValNodes(v, src, dest) \subseteq Nodes
         /\ ~UsesValNode(v) =>
              (CHOOSE n \in ValNodes(v, src, dest) :
                 \A n2 \in ValNodes(v, src, dest) : n <= n2) \in Nodes
<1> DEFINE vals == ValNodes(v, src, dest)
<1>1. vals \subseteq Nodes
  BY DEF ValNodes
<1>2. ASSUME ~UsesValNode(v)
      PROVE  vals # {}
  <2>1. vals = {n \in Nodes : Group(n) = Group(src) <=> Group(src) = Group(dest)}
    BY <1>2 DEF ValNodes, UsesValNode
  <2>2. dest \in vals
    BY <2>1
  <2> QED BY <2>2
<1>3. Nodes \subseteq Nat
  BY SizeAssumption DEF Nodes, SizeAssumption
<1> HIDE DEF vals
<1>4. ASSUME ~UsesValNode(v)
      PROVE  (CHOOSE n \in vals : \A n2 \in vals : n <= n2) \in Nodes
  <2>1. \E n \in vals : \A n2 \in vals : n <= n2
    BY <1>1, <1>2, <1>3, <1>4, NatMinimum
  <2> QED BY <1>1, <2>1
<1> QED BY <1>1, <1>4 DEF vals

-----------------------------------------------------------------------------
(* The invariant: what it says of a packet, and its steps.                 *)
States == {"source", "network", "consumed"}

Kept(v, st, f) ==
    /\ st = "source" => f = NoFlit
    /\ st = "network" => Net(v, f)
    /\ st = "consumed" => Done(v, f)

LEMMA OnePacket ==
  ASSUME IInv, NEW p \in Packets, NEW f, NEW st \in States, Kept(variant, st, f),
         flit' = [flit EXCEPT ![p] = f], state' = [state EXCEPT ![p] = st],
         variant' = variant
  PROVE  IInv'
<1>1. /\ state' \in [Packets -> States] /\ DOMAIN flit' = Packets
      /\ variant' \in Variants
  BY DEF IInv, States
<1>2. ASSUME NEW q \in Packets
      PROVE  Kept(variant', state'[q], flit'[q])
  <2>1. CASE q = p
    <3>1. state'[q] = st /\ flit'[q] = f
      BY <2>1 DEF IInv
    <3> QED BY <3>1
  <2>2. CASE q # p
    <3>1. state'[q] = state[q] /\ flit'[q] = flit[q]
      BY <2>2 DEF IInv
    <3>2. Kept(variant, state[q], flit[q])
      BY DEF IInv, Kept
    <3> QED BY <3>1, <3>2
  <2> QED BY <2>1, <2>2
<1> QED BY <1>1, <1>2 DEF IInv, Kept, States

LEMMA InitIInv == Init => IInv
BY DEF Init, IInv

LEMMA InjectIInv ==
  ASSUME IInv, NEW p \in Packets, Inject(p)
  PROVE  IInv'
<1> DEFINE Vals(src, dest) ==
             IF UsesValNode(variant) THEN ValNodes(variant, src, dest)
             ELSE {CHOOSE n \in ValNodes(variant, src, dest) :
                      \A n2 \in ValNodes(variant, src, dest) : n <= n2}
<1>1. \E pair \in Traffic[p] : \E val \in Vals(pair[1], pair[2]) :
          flit' = [flit EXCEPT ![p] = Entering(pair[1], pair[2], val)]
  BY Zenon DEF Inject, Entering
<1>2. PICK pair \in Traffic[p] : \E val \in Vals(pair[1], pair[2]) :
          flit' = [flit EXCEPT ![p] = Entering(pair[1], pair[2], val)]
  BY <1>1
<1>3. PICK val \in Vals(pair[1], pair[2]) :
          flit' = [flit EXCEPT ![p] = Entering(pair[1], pair[2], val)]
  BY <1>2
<1>4. pair[1] \in Nodes /\ pair[2] \in Nodes
  <2>1. pair \in Nodes \X Nodes
    BY TrafficAssumption DEF TrafficAssumption
  <2> QED BY <2>1
<1>5. variant \in Variants
  BY DEF IInv
<1> DEFINE src == pair[1]
           dest == pair[2]
<1>6. val \in Vals(src, dest)
  BY <1>3
<1>7. src \in Nodes /\ dest \in Nodes
  BY <1>4
<1>8. flit' = [flit EXCEPT ![p] = Entering(src, dest, val)]
  BY <1>3
<1> HIDE DEF src, dest
<1>9. val \in Nodes
  <2>1. CASE UsesValNode(variant)
    BY <1>5, <1>6, <1>7, <2>1, ValNodesThere
  <2>2. CASE ~UsesValNode(variant)
    BY <1>5, <1>6, <1>7, <2>2, ValNodesThere, Zenon
  <2> QED BY <2>1, <2>2
<1>10. Net(variant, Entering(src, dest, val))
  BY <1>5, <1>7, <1>9, EntersNet
<1>11. state' = [state EXCEPT ![p] = "network"] /\ variant' = variant
  BY DEF Inject
<1> DEFINE f == Entering(src, dest, val)
           st == "network"
<1>12. Kept(variant, st, f) /\ st \in States
  BY <1>10 DEF Kept, States
<1>13. flit' = [flit EXCEPT ![p] = f] /\ state' = [state EXCEPT ![p] = st]
  BY <1>8, <1>11
<1> HIDE DEF f, st
<1> QED BY <1>11, <1>12, <1>13, OnePacket

(* A routed packet that moves, waits or leaves.                            *)
LEMMA Travels ==
  ASSUME IInv, NEW p \in Packets, state[p] = "network"
  PROVE  variant \in Variants /\ Net(variant, flit[p])
BY DEF IInv

LEMMA TransitIInv ==
  ASSUME IInv, NEW p \in Packets, Transit(p)
  PROVE  IInv'
<1>1. state[p] = "network" /\ state' = state /\ variant' = variant
  BY DEF Transit
<1>2. \E r \in Enroute(variant, flit[p]) :
         /\ PortType(r.out) # "node" /\ MayAsk(r.flit, r.out)
         /\ flit' = [flit EXCEPT ![p] = Traverse(variant, r.flit, r.out, r.vc)]
  BY Zenon DEF Transit
<1>3. PICK r \in Enroute(variant, flit[p]) :
         /\ PortType(r.out) # "node" /\ MayAsk(r.flit, r.out)
         /\ flit' = [flit EXCEPT ![p] = Traverse(variant, r.flit, r.out, r.vc)]
  BY <1>2
<1>4. variant \in Variants /\ Net(variant, flit[p])
  BY <1>1, Travels
<1>5. PICK e, g, out : Routed(variant, flit[p], e, g, out) /\ Result(variant, e, g, out, r)
  BY <1>4, EnrouteRouted
<1>6. r.flit = g /\ r.out = out /\ r.vc \in NextChannels(variant, e, out)
  BY <1>5 DEF Result
<1>7. out \in LinkPorts
  <2>1. Asks(g, out)
    BY <1>4, <1>5, RoutedAsks
  <2> QED BY <1>3, <1>6, <2>1 DEF Asks
<1> DEFINE vc == r.vc
           h == Traverse(variant, g, out, vc)
<1>8. vc \in NextChannels(variant, e, out) /\ flit' = [flit EXCEPT ![p] = h] /\ MayAsk(g, out)
  BY <1>3, <1>6
<1> HIDE DEF vc
<1>9. Net(variant, h)
  BY <1>4, <1>5, <1>7, <1>8, RoutedMoves
<1> HIDE DEF h
<1>10. Kept(variant, state[p], h) /\ state[p] \in States
  BY <1>1, <1>9 DEF Kept, States
<1>11. state' = [state EXCEPT ![p] = state[p]]
  BY <1>1 DEF IInv
<1> QED BY <1>1, <1>8, <1>10, <1>11, OnePacket

LEMMA WaitIInv ==
  ASSUME IInv, NEW p \in Packets, Wait(p)
  PROVE  IInv'
<1>1. state[p] = "network" /\ state' = state /\ variant' = variant
  BY DEF Wait
<1>2. PICK r \in Enroute(variant, flit[p]) : flit' = [flit EXCEPT ![p] = r.flit]
  BY DEF Wait
<1>3. variant \in Variants /\ Net(variant, flit[p])
  BY <1>1, Travels
<1>4. PICK e, g, out : Routed(variant, flit[p], e, g, out) /\ Result(variant, e, g, out, r)
  BY <1>3, EnrouteRouted
<1>5. Net(variant, g)
  BY <1>3, <1>4, RoutedStays
<1>6. flit' = [flit EXCEPT ![p] = g]
  BY <1>2, <1>4 DEF Result
<1>7. Kept(variant, state[p], g) /\ state[p] \in States
  BY <1>1, <1>5 DEF Kept, States
<1>8. state' = [state EXCEPT ![p] = state[p]]
  BY <1>1 DEF IInv
<1> QED BY <1>1, <1>6, <1>7, <1>8, OnePacket

LEMMA ConsumeIInv ==
  ASSUME IInv, NEW p \in Packets, Consume(p)
  PROVE  IInv'
<1>1. /\ state[p] = "network" /\ state' = [state EXCEPT ![p] = "consumed"]
      /\ variant' = variant
  BY DEF Consume
<1>2. PICK r \in Enroute(variant, flit[p]) :
         /\ PortType(r.out) = "node"
         /\ flit' = [flit EXCEPT ![p] = [r.flit EXCEPT !.port = r.out]]
  BY Zenon DEF Consume
<1>3. variant \in Variants /\ Net(variant, flit[p])
  BY <1>1, Travels
<1>4. PICK e, g, out : Routed(variant, flit[p], e, g, out) /\ Result(variant, e, g, out, r)
  BY <1>3, EnrouteRouted
<1>5. r.flit = g /\ r.out = out
  BY <1>4 DEF Result
<1>6. Net(variant, g) /\ Asks(g, out)
  BY <1>3, <1>4, RoutedStays, RoutedAsks
<1>7. out \in Ports /\ g.sw = SwitchOf(g.dest)
  BY <1>2, <1>5, <1>6 DEF Asks
<1> DEFINE h == [g EXCEPT !.port = out]
           st == "consumed"
<1>8. Done(variant, h)
  BY <1>3, <1>6, <1>7, Arrived
<1>9. flit' = [flit EXCEPT ![p] = h]
  BY <1>2, <1>5
<1> HIDE DEF h
<1>10. Kept(variant, st, h) /\ st \in States /\ state' = [state EXCEPT ![p] = st]
  BY <1>1, <1>8 DEF Kept, States
<1> HIDE DEF st
<1> QED BY <1>1, <1>9, <1>10, OnePacket

LEMMA NextIInv == IInv /\ [Next]_vars => IInv'
<1> SUFFICES ASSUME IInv, [Next]_vars PROVE IInv'
  OBVIOUS
<1>1. CASE UNCHANGED vars
  BY <1>1 DEF IInv, vars
<1>2. ASSUME NEW p \in Packets, Inject(p) \/ Transit(p) \/ Wait(p) \/ Consume(p)
      PROVE  IInv'
  BY <1>2, InjectIInv, TransitIInv, WaitIInv, ConsumeIInv
<1> QED BY <1>1, <1>2 DEF Next

LEMMA AlwaysIInv == Spec => []IInv
BY InitIInv, NextIInv, PTL DEF Spec

-----------------------------------------------------------------------------
LEMMA KeptTypes ==
  ASSUME NEW v \in Variants, NEW st \in States, NEW f, Kept(v, st, f)
  PROVE  f \in FlitType /\ (f.hopCount <= 8 \/ (v.routing = "car" /\ v.usage # "BASE"))
<1>1. CASE st = "source"
  BY <1>1, NoFlitType DEF Kept
<1>2. CASE st = "network"
  BY <1>2, FewHops DEF Kept, Net
<1>3. CASE st = "consumed"
  BY <1>3 DEF Kept, Done
<1> QED BY <1>1, <1>2, <1>3 DEF States

(* Every variable keeps its type in every configuration and Dragonfly: a   *)
(* flit is always at a port of a switch in a channel the link has          *)
(* (nextChannel and the tables of the flexible managements never run out   *)
(* of them), a Valiant node is a node of the network, and no packet makes  *)
(* more than eight hops, but of car with flexible channels, which may turn *)
(* in the source group for as long as it finds channels (car.cc:98).       *)
THEOREM TypesCorrect == Spec => []TypeOK
<1>1. IInv => TypeOK
  <2> SUFFICES ASSUME IInv PROVE TypeOK
    OBVIOUS
  <2>1. variant \in Variants
    BY DEF IInv
  <2>2. variant \in Configurations /\ Accepted(variant)
    BY <2>1, Configured
  <2>3. state \in [Packets -> States]
    BY DEF IInv, States
  <2>4. ASSUME NEW p \in Packets
        PROVE  /\ flit[p] \in FlitType
               /\ flit[p].hopCount <= 8 \/ (variant.routing = "car" /\ variant.usage # "BASE")
    <3>1. state[p] \in States /\ Kept(variant, state[p], flit[p])
      BY <2>3 DEF IInv, Kept
    <3> QED BY <2>1, <3>1, KeptTypes
  <2> QED BY <2>2, <2>3, <2>4 DEF TypeOK, States
<1> QED BY <1>1, AlwaysIInv, PTL

(* A packet makes the hops its source weighed: minPathLength when it was   *)
(* sent the minimal way, at most valPathLength by way of a node srcAdp or  *)
(* pbAcor chose, however often it is routed again on its way or while it   *)
(* waits (srcAdp.cc:241, pb.cc:102).                                       *)
THEOREM HopsAsWeighed == Spec => []PathAsWeighed
<1>1. IInv => PathAsWeighed
  <2> SUFFICES ASSUME IInv, NEW p \in Packets, state[p] = "consumed",
                      variant.routing \in Weighing
               PROVE  /\ ~flit[p].byVal => flit[p].hopCount = flit[p].minLen
                      /\ flit[p].byVal /\ variant.routing \in WeighsBoth =>
                           flit[p].hopCount <= flit[p].valLen
    BY DEF PathAsWeighed, Weighing, WeighsBoth
  <2>1. Done(variant, flit[p])
    BY DEF IInv
  <2> QED BY <2>1 DEF Done
<1> QED BY <1>1, AlwaysIInv, PTL

(* Where a flit that has to leave its group goes.                          *)
LEMMA MandatoryHop ==
  ASSUME NEW v \in Variants, NEW f, Net(v, f), f.mandatory, NEW e, NEW g, NEW out,
         Routed(v, f, e, g, out), out \in LinkPorts, MayAsk(g, out),
         NEW vc, NEW h, Moved(v, g, h, out, vc)
  PROVE  /\ PortType(h.port) = "global" /\ hPos(h.sw) # Group(f.dest)
         /\ h.type = "GLOBAL_MANDATORY"
<1>1. v.routing \in InTransit
  BY DEF Net, Flagged
<1>2. Ventures(v, f, e, g, out)
  BY <1>1 DEF Routed, InTransit, ByValiant
<1>3. Net(v, g) /\ SamePlace(f, g)
  BY RoutedStays
<1>4. /\ g.mandatory /\ g.sw = f.sw /\ g.dest = f.dest /\ MinPort(g) = MinPort(f)
  BY <1>3 DEF SamePlace, MinPort
<1>5. /\ Near(f.sw, f.dest) = 0 /\ OffHome(f)
      /\ v.misrouting = "MM" \/ (v.routing = "olm" /\ v.misrouting \in {"NRG", "RRG"})
  BY <1>1, Stands DEF Standing
<1>6. g.sw \in Switches /\ g.dest \in Nodes
  BY <1>3, Placed
<1>7. /\ PortType(h.port) = PortType(out) /\ PortType(out) \in {"local", "global"}
  BY <1>6, MovedKinds
<1>8. PortType(out) = "global"
  BY <1>1, <1>4, <1>7, NotMandatory
<1>9. out # MinPort(f)
  <2>1. PortType(MinPort(g)) = "local"
    BY <1>4, <1>5, <1>6, MinPortOf
  <2> QED BY <1>4, <1>8, <2>1
<1> DEFINE kind == g.type
<1> HIDE DEF kind
<1>10. OffWay(v, f, kind, out)
  BY <1>2, <1>9 DEF Ventures, kind
<1>11. kind = "GLOBAL_MANDATORY"
  BY <1>1, <1>5, <1>10, OffTypes
<1>12. hPos(h.sw) # Group(g.dest)
  <2>1. hPos(g.sw) # Group(g.dest)
    BY <1>4, <1>5 DEF OffHome
  <2> QED BY <1>4, <1>6, <1>8, <1>9, <2>1, OffByLink
<1>13. h.type = g.type
  BY DEF Moved, SameAims
<1> QED BY <1>4, <1>7, <1>8, <1>11, <1>12, <1>13 DEF kind

(* What a transit makes of a packet.                                       *)
Hop(v, f, h) ==
    \E e, g, out, vc :
        /\ Routed(v, f, e, g, out) /\ MayAsk(g, out) /\ out \in LinkPorts
        /\ vc \in NextChannels(v, e, out) /\ Moved(v, g, h, out, vc)

LEMMA TransitHops ==
  ASSUME IInv, NEW p \in Packets, Transit(p)
  PROVE  \E h : Hop(variant, flit[p], h) /\ flit' = [flit EXCEPT ![p] = h]
<1>1. state[p] = "network"
  BY DEF Transit
<1>2. \E r \in Enroute(variant, flit[p]) :
         /\ PortType(r.out) # "node" /\ MayAsk(r.flit, r.out)
         /\ flit' = [flit EXCEPT ![p] = Traverse(variant, r.flit, r.out, r.vc)]
  BY Zenon DEF Transit
<1>3. PICK r \in Enroute(variant, flit[p]) :
         /\ PortType(r.out) # "node" /\ MayAsk(r.flit, r.out)
         /\ flit' = [flit EXCEPT ![p] = Traverse(variant, r.flit, r.out, r.vc)]
  BY <1>2
<1>4. variant \in Variants /\ Net(variant, flit[p])
  BY <1>1, Travels
<1>5. PICK e, g, out : Routed(variant, flit[p], e, g, out) /\ Result(variant, e, g, out, r)
  BY <1>4, EnrouteRouted
<1>6. r.flit = g /\ r.out = out /\ r.vc \in NextChannels(variant, e, out)
  BY <1>5 DEF Result
<1>7. out \in LinkPorts
  <2>1. Asks(g, out)
    BY <1>4, <1>5, RoutedAsks
  <2> QED BY <1>3, <1>6, <2>1 DEF Asks
<1> DEFINE vc == r.vc
           h == Traverse(variant, g, out, vc)
<1>8. vc \in NextChannels(variant, e, out) /\ flit' = [flit EXCEPT ![p] = h] /\ MayAsk(g, out)
  BY <1>3, <1>6
<1> HIDE DEF vc
<1>9. Moved(variant, g, h, out, vc)
  BY <1>4, <1>5, <1>7, <1>8, RoutedMoves
<1> HIDE DEF h
<1>10. Hop(variant, flit[p], h)
  BY <1>5, <1>7, <1>8, <1>9, Zenon DEF Hop
<1> QED BY <1>8, <1>10

(* A hop more is made by a transit of the packet.                          *)
LEMMA HopsByTransit ==
  ASSUME IInv, [Next]_vars, NEW p \in Packets, state[p] = "network",
         flit'[p].hopCount > flit[p].hopCount
  PROVE  Transit(p)
<1>1. Net(variant, flit[p]) /\ variant \in Variants /\ flit[p].hopCount \in Nat
  BY Travels, Placed
<1>2. CASE UNCHANGED vars
  BY <1>1, <1>2 DEF vars
<1>3. ASSUME NEW q \in Packets, Inject(q) \/ Transit(q) \/ Wait(q) \/ Consume(q)
      PROVE  Transit(p)
  <2>1. CASE q # p
    <3>1. \E x : flit' = [flit EXCEPT ![q] = x]
      BY <1>3, Zenon DEF Inject, Transit, Wait, Consume
    <3>2. flit'[p] = flit[p]
      BY <2>1, <3>1 DEF IInv
    <3> QED BY <1>1, <3>2
  <2>2. CASE Inject(p)
    BY <2>2 DEF Inject
  <2>3. CASE Wait(p) \/ Consume(p)
    <3>1. PICK r \in Enroute(variant, flit[p]) :
             \/ flit' = [flit EXCEPT ![p] = r.flit]
             \/ flit' = [flit EXCEPT ![p] = [r.flit EXCEPT !.port = r.out]]
      BY <2>3, Zenon DEF Wait, Consume
    <3>2. PICK e, g, out : Routed(variant, flit[p], e, g, out) /\ Result(variant, e, g, out, r)
      BY <1>1, EnrouteRouted
    <3>3. r.flit = g /\ r.out = out
      BY <3>2 DEF Result
    <3>4. g \in FlitType /\ g.hopCount = flit[p].hopCount
      BY <1>1, <3>2, RoutedStays, Placed DEF SamePlace
    <3> DEFINE h == [g EXCEPT !.port = out]
    <3>5. h.hopCount = g.hopCount
      BY <3>4 DEF FlitType
    <3>6. flit'[p] = g \/ flit'[p] = h
      BY <3>1, <3>3 DEF IInv
    <3> HIDE DEF h
    <3> QED BY <1>1, <3>4, <3>5, <3>6
  <2> QED BY <1>3, <2>1, <2>2, <2>3
<1> QED BY <1>2, <1>3 DEF Next

(* A flit that has to leave its group makes no other hop than one by a     *)
(* global link that does not lead to the group of its destination, marked  *)
(* as such (switchModule.cc:1380, 1417), whatever it was routed to while   *)
(* it waited (routing.cc:478).                                             *)
THEOREM MandatoryMisroutes == Spec => MandatoryTaken
<1>1. ASSUME IInv, [Next]_vars, NEW p \in Packets, state[p] = "network", flit[p].mandatory,
             flit'[p].hopCount > flit[p].hopCount
      PROVE  /\ PortType(flit'[p].port) = "global"
             /\ hPos(flit'[p].sw) # Group(flit[p].dest)
             /\ flit'[p].type = "GLOBAL_MANDATORY"
  <2>1. Transit(p)
    BY <1>1, HopsByTransit
  <2>2. PICK h : Hop(variant, flit[p], h) /\ flit' = [flit EXCEPT ![p] = h]
    BY <1>1, <2>1, TransitHops
  <2>3. variant \in Variants /\ Net(variant, flit[p])
    BY <1>1, Travels
  <2>4. PICK e, g, out, vc :
          /\ Routed(variant, flit[p], e, g, out) /\ MayAsk(g, out) /\ out \in LinkPorts
          /\ Moved(variant, g, h, out, vc)
    BY <2>2 DEF Hop
  <2>5. /\ PortType(h.port) = "global" /\ hPos(h.sw) # Group(flit[p].dest)
        /\ h.type = "GLOBAL_MANDATORY"
    BY <1>1, <2>3, <2>4, MandatoryHop
  <2>6. flit'[p] = h
    BY <1>1, <2>2 DEF IInv
  <2> QED BY <2>5, <2>6
<1>2. IInv /\ [Next]_vars =>
        [\A p \in Packets :
            state[p] = "network" /\ flit[p].mandatory /\ flit'[p].hopCount > flit[p].hopCount =>
              /\ PortType(flit'[p].port) = "global"
              /\ hPos(flit'[p].sw) # Group(flit[p].dest)
              /\ flit'[p].type = "GLOBAL_MANDATORY"]_vars
  BY <1>1
<1> QED BY <1>2, AlwaysIInv, PTL DEF Spec, MandatoryTaken

-----------------------------------------------------------------------------
(* What a flit past its injection may go on asking for.                    *)

(* Every routing has something for it to ask for.                          *)
LEMMA WaysThere ==
  ASSUME NEW v \in Variants, v.routing \notin InTransit, v.routing # "car",
         NEW f, ~AtInjection(f)
  PROVE  \E t : t \in EnrouteAtSource(v, f)
<1>1. ~Starts(f)
  BY DEF Starts
<1>2. CASE v.routing = "ugal"
  <2>1. EnrouteAtSource(v, f) = EnrouteUgal(f)
    BY <1>2 DEF EnrouteAtSource
  <2>2. \E t : t \in EnrouteUgal(f)
    BY <1>1, Zenon DEF EnrouteUgal
  <2> QED BY <2>1, <2>2
<1>3. CASE v.routing = "pb"
  <2>1. EnrouteAtSource(v, f) = EnroutePb(f)
    BY <1>3 DEF EnrouteAtSource
  <2>2. \E t : t \in EnroutePb(f)
    BY <1>1, Zenon DEF EnroutePb
  <2> QED BY <2>1, <2>2
<1>4. CASE v.routing = "pbAny"
  <2>1. EnrouteAtSource(v, f) = EnroutePbAny(f)
    BY <1>4 DEF EnrouteAtSource
  <2>2. \E t : t \in EnroutePbAny(f)
    BY <1>1, Zenon DEF EnroutePbAny
  <2> QED BY <2>1, <2>2
<1>5. CASE v.routing = "obl"
  <2>1. EnrouteAtSource(v, f) = EnrouteOblivious(v, f)
    BY <1>5 DEF EnrouteAtSource
  <2>2. \E t : t \in EnrouteOblivious(v, f)
    BY Zenon DEF EnrouteOblivious
  <2> QED BY <2>1, <2>2
<1>6. CASE v.routing = "acor"
  <2>1. EnrouteAtSource(v, f) = EnrouteAcor(v, f)
    BY <1>6 DEF EnrouteAtSource
  <2>2. \E t : t \in EnrouteAcor(v, f)
    BY Zenon DEF EnrouteAcor, ChosenByStatus
  <2> QED BY <2>1, <2>2
<1>7. ASSUME NEW g
      PROVE  \E m : m \in SourceAdpMisroutes(g)
  BY Zenon DEF SourceAdpMisroutes
<1>8. CASE v.routing = "srcAdp"
  <2>1. EnrouteAtSource(v, f) = EnrouteSourceAdp(v, f)
    BY <1>8 DEF EnrouteAtSource
  <2> DEFINE Of(g) == LET h == Reached(g, InValSwitch(g))
                      IN  {IF m THEN ByVal(h) ELSE Direct(Unmarked(h)) :
                             m \in SourceAdpMisroutes(h)}
  <2>2. \E t : t \in EnrouteSourceAdp(v, f)
    <3>1. EnrouteSourceAdp(v, f) = UNION {Of(g) : g \in {f}}
      BY Zenon DEF EnrouteSourceAdp
    <3>2. \E t : t \in Of(f)
      BY <1>7
    <3> HIDE DEF Of
    <3> QED BY <3>1, <3>2
  <2> QED BY <2>1, <2>2
<1>9. CASE v.routing = "pbAcor"
  <2>1. EnrouteAtSource(v, f) = EnroutePbAcor(v, f)
    BY <1>9 DEF EnrouteAtSource
  <2> DEFINE Of(g) == LET h == ReachedByStatus(g)
                      IN  {IF m THEN ByVal(h) ELSE Direct(Unmarked(h)) :
                             m \in SourceAdpMisroutes(h)}
             kinds == [s \in Statuses |-> PbAcorKinds(v, [f EXCEPT !.status = s])]
  <2>2. \E t : t \in EnroutePbAcor(v, f)
    <3>1. EnroutePbAcor(v, f) = UNION {Of(g) : g \in ChosenByStatus(v, f, kinds)}
      BY Zenon DEF EnroutePbAcor
    <3>2. \E t : t \in Of(f)
      BY <1>7
    <3>3. f \in ChosenByStatus(v, f, kinds)
      BY Zenon DEF ChosenByStatus
    <3> HIDE DEF Of, kinds
    <3> QED BY <3>1, <3>2, <3>3
  <2> QED BY <2>1, <2>2
<1>10. CASE v.routing = "minCond"
  <2>1. EnrouteAtSource(v, f) = EnrouteMinCond(f)
    BY <1>10 DEF EnrouteAtSource
  <2>2. \E t : t \in EnrouteMinCond(f)
    BY Zenon DEF EnrouteMinCond
  <2> QED BY <2>1, <2>2
<1> QED BY <1>2, <1>3, <1>4, <1>5, <1>6, <1>8, <1>9, <1>10, Routes DEF ByValiant

(* The order of the channels.                                              *)
LEMMA RankOfHop ==
  ASSUME NEW v \in Variants, v.usage = "BASE", NEW k \in 1..Length(v.routing),
         NEW port, PortType(port) = typeVc[v.routing][k],
         NEW vc, vc = petitionVc[v.routing][k]
  PROVE  Rank(v, port, vc) = k
<1>1. v.routing \in HopsIn5 \cup HopsIn6 \cup HopsIn7
  BY Configured DEF Bases, HopsIn5, HopsIn6, HopsIn7
<1>2. HopsOf(v.routing, petitionVc[v.routing], port, vc) = {k}
  <2>1. Made(v.routing, port, vc, k)
    BY <1>1, HopMade
  <2>2. k # 0
    BY <1>1, HopTypes
  <2> QED BY <2>1, <2>2 DEF Made
<1> QED BY <1>2, Zenon DEF Rank

(* The hop a flit in the network has made.                                 *)
Traveller(v, f, i) ==
    /\ i \in 1..Length(v.routing) /\ At(v, f, i) /\ i <= Furthest(v, f)
    /\ typeVc[v.routing][i] = PortType(f.port) /\ f.channel = petitionVc[v.routing][i]
    /\ Rank(v, f.port, f.channel) = i

LEMMA HopMadeBy ==
  ASSUME NEW v \in Variants, v.usage = "BASE", NEW f, Net(v, f), ~AtInjection(f)
  PROVE  \E i : Traveller(v, f, i)
<1>1. PICK i \in 0..Len(typeVc[v.routing]) : At(v, f, i) /\ i <= Furthest(v, f)
  BY DEF Net, InOrder
<1>2. PortType(f.port) \in {"node", "local", "global"}
  BY Placed
<1>3. /\ i \in 0..Length(v.routing)
      /\ i # 0 => typeVc[v.routing][i] = PortType(f.port) /\ f.channel = petitionVc[v.routing][i]
      /\ i # 0
  BY <1>1, <1>2, AtHop
<1>4. Length(v.routing) \in 5..7
  BY DEF Length
<1>5. i \in 1..Length(v.routing)
  BY <1>3, <1>4
<1> DEFINE port == f.port
           vc == f.channel
<1>6. PortType(port) = typeVc[v.routing][i] /\ vc = petitionVc[v.routing][i]
  BY <1>3
<1> HIDE DEF port, vc
<1>7. Rank(v, port, vc) = i
  BY <1>5, <1>6, RankOfHop
<1> QED BY <1>1, <1>3, <1>5, <1>7 DEF Traveller, port, vc

(* The hops by an output that repeats none are further on, and there is a  *)
(* channel for them when a hop of the kind is.                             *)
LEMMA HopsFurtherOn ==
  ASSUME NEW v \in Variants, v.usage = "BASE", NEW e, Net(v, e), NEW i, Traveller(v, e, i),
         NEW out \in LinkPorts, ~Repeats(v, e, out)
  PROVE  /\ \A vc \in NextChannels(v, e, out) : Rank(v, out, vc) \in 1..Length(v.routing) /\ Rank(v, out, vc) > i
         /\ (\E j \in 1..Length(v.routing) :
               Furthest(v, e) \in Nat /\ Furthest(v, e) < j /\ typeVc[v.routing][j] = PortType(out))
             => NextChannels(v, e, out) # {}
<1>1. Continues(v, e, i, out)
  <2>1. PortType(e.port) \in {"node", "local", "global"}
    BY Placed
  <2>2. v.routing = "olm" /\ e.localDone => PortType(e.port) = "local"
    BY DEF Net, Misroutes, InTransit
  <2> QED BY <2>1, <2>2, HopOn DEF Traveller
<1>2. i \in Nat /\ Length(v.routing) \in 5..7 /\ i <= Furthest(v, e)
  BY DEF Traveller, Length
<1>3. ASSUME NEW vc \in NextChannels(v, e, out)
      PROVE  Rank(v, out, vc) \in 1..Length(v.routing) /\ Rank(v, out, vc) > i
  <2>1. PICK k \in 1..Length(v.routing) : MayMake(v, e, i, out, vc, k)
    BY <1>1 DEF Continues
  <2>2. i < k /\ typeVc[v.routing][k] = PortType(out) /\ vc = petitionVc[v.routing][k]
    BY <2>1 DEF MayMake, Follows
  <2>3. Rank(v, out, vc) = k
    BY <2>2, RankOfHop
  <2> QED BY <1>2, <2>2, <2>3
<1>4. ASSUME NEW j \in 1..Length(v.routing), Furthest(v, e) \in Nat, Furthest(v, e) < j,
             typeVc[v.routing][j] = PortType(out)
      PROVE  NextChannels(v, e, out) # {}
  <2>1. i < j
    BY <1>2, <1>4
  <2> QED BY <1>1, <1>4, <2>1 DEF Continues
<1> QED BY <1>3, <1>4

(* A hop of the kind that is due is still to be made.                      *)
Due(v, e, out) ==
    /\ Furthest(v, e) \in Nat
    /\ \E j \in 1..Length(v.routing) :
          Furthest(v, e) < j /\ typeVc[v.routing][j] = PortType(out)

LEMMA DueByValiant ==
  ASSUME NEW v \in Variants, v.routing \in ByValiant, NEW g, Net(v, g), ~AtInjection(g),
         NEW out \in LinkPorts, Heads(v, g, out)
  PROVE  Due(v, g, out)
<1> DEFINE r == v.routing
           L == Length(r)
<1>1. /\ L = IF r \in {"ugal", "pb"} THEN 5 ELSE 6
      /\ typeVc[r][1] = "local" /\ typeVc[r][2] = "global" /\ typeVc[r][3] = "local"
      /\ typeVc[r][L - 2] = "local" /\ typeVc[r][L - 1] = "global" /\ typeVc[r][L] = "local"
  BY ByValiantHops
<1>2. r \in HopsIn5 \cup HopsIn6 \cup HopsIn7
  BY DEF ByValiant, HopsIn5, HopsIn6, HopsIn7
<1>3. Len(typeVc[r]) = L
  BY <1>2, HopTypes
<1>4. g.sw \in Switches /\ g.dest \in Nodes /\ g.valId \in Nodes
  BY Placed
<1>5. r \notin {"par", "olm", "car"}
  BY DEF ByValiant
<1>6. PortType(out) \in {"local", "global"}
  BY PortOfLink
<1>7. CASE Via(v, g)
  <2>1. out = ValPort(g) /\ Onward(v, g)
    BY <1>7 DEF Heads
  <2>2. Nearer(g.sw, g.valId) /\ out = Toward(g.sw, g.valId)
    BY <1>4, <2>1, NearerNext DEF ValPort, Toward
  <2> DEFINE near == Near(g.sw, g.valId)
  <2>3. near \in 0..3 /\ PortType(out) = IF near = 3 THEN "node" ELSE IF near = 1 THEN "global" ELSE "local"
    BY <2>2 DEF Nearer
  <2>4. Furthest(v, g) = near
    BY <1>5, <2>1 DEF Furthest
  <2> HIDE DEF near, r, L
  <2>5. near \in 0..2
    BY <1>6, <2>3
  <2>6. \E j \in 1..L : near < j /\ typeVc[r][j] = PortType(out)
    <3>1. CASE near = 0
      BY <1>1, <2>3, <3>1
    <3>2. CASE near = 1
      BY <1>1, <2>3, <3>2
    <3>3. CASE near = 2
      BY <1>1, <2>3, <3>3
    <3> QED BY <2>5, <3>1, <3>2, <3>3
  <2> QED BY <2>4, <2>5, <2>6 DEF Due, L, r
<1>8. CASE ~Via(v, g)
  <2>1. out = MinPort(g) /\ ~Onward(v, g)
    BY <1>8 DEF Heads, Onward
  <2>2. Nearer(g.sw, g.dest) /\ out = Toward(g.sw, g.dest)
    BY <1>4, <2>1, NearerNext DEF MinPort, Toward
  <2> DEFINE near == Near(g.sw, g.dest)
  <2>3. near \in 0..3 /\ PortType(out) = IF near = 3 THEN "node" ELSE IF near = 1 THEN "global" ELSE "local"
    BY <2>2 DEF Nearer
  <2>4. Furthest(v, g) = L - 3 + near
    BY <1>3, <1>5, <2>1 DEF Furthest
  <2> HIDE DEF near, r, L
  <2>5. near \in 0..2 /\ L \in {5, 6}
    BY <1>1, <1>6, <2>3
  <2>6. \E j \in 1..L : L - 3 + near < j /\ typeVc[r][j] = PortType(out)
    <3>1. CASE near = 0
      BY <1>1, <2>3, <2>5, <3>1
    <3>2. CASE near = 1
      BY <1>1, <2>3, <2>5, <3>2
    <3>3. CASE near = 2
      BY <1>1, <2>3, <2>5, <3>3
    <3> QED BY <2>5, <3>1, <3>2, <3>3
  <2> QED BY <2>4, <2>5, <2>6 DEF Due, L, r
<1> QED BY <1>7, <1>8

LEMMA DueMinCond ==
  ASSUME NEW v \in Variants, v.routing = "minCond", NEW g, Net(v, g),
         NEW out \in LinkPorts, out = MinPort(g)
  PROVE  Due(v, g, out)
<1> DEFINE r == v.routing
<1>1. r \in HopsIn5 \cup HopsIn6 \cup HopsIn7 /\ Length(r) = 5 /\ GlobalAt(r) = {2, 4}
  BY DEF HopsIn5, HopsIn6, HopsIn7, Length, GlobalAt
<1>2. /\ Len(typeVc[r]) = 5
      /\ \A i \in 1..5 : typeVc[r][i] = IF i \in {2, 4} THEN "global" ELSE "local"
  BY <1>1, HopTypes
<1>3. g.sw \in Switches /\ g.dest \in Nodes
  BY Placed
<1>4. Nearer(g.sw, g.dest) /\ out = Toward(g.sw, g.dest)
  BY <1>3, NearerNext DEF MinPort, Toward
<1> DEFINE near == Near(g.sw, g.dest)
<1>5. near \in 0..3 /\ PortType(out) = IF near = 3 THEN "node" ELSE IF near = 1 THEN "global" ELSE "local"
  BY <1>4 DEF Nearer
<1>6. ~Onward(v, g)
  BY DEF Onward, Via, ByValiant
<1>7. Furthest(v, g) = 2 + near
  BY <1>2, <1>5, <1>6 DEF Furthest
<1>8. PortType(out) \in {"local", "global"}
  BY PortOfLink
<1> HIDE DEF near, r
<1>9. \E j \in 1..Length(r) : 2 + near < j /\ typeVc[r][j] = PortType(out)
  <2>1. CASE near = 0
    <3>1. typeVc[r][3] = "local"
      BY <1>2
    <3> QED BY <1>1, <1>5, <2>1, <3>1
  <2>2. CASE near = 1
    <3>1. typeVc[r][4] = "global"
      BY <1>2
    <3> QED BY <1>1, <1>5, <2>2, <3>1
  <2>3. CASE near = 2
    <3>1. typeVc[r][5] = "local"
      BY <1>2
    <3> QED BY <1>1, <1>5, <2>3, <3>1
  <2> QED BY <1>5, <1>8, <2>1, <2>2, <2>3
<1> QED BY <1>5, <1>7, <1>9 DEF Due, r

(* In transit: by the minimal path, and off it when the flit has to.       *)
LEMMA DueInTransit ==
  ASSUME NEW v \in Variants, v.routing \in InTransit, NEW e, Net(v, e), ~AtInjection(e),
         NEW out \in LinkPorts,
         \/ out = MinPort(e) /\ ~e.mandatory
         \/ PortType(out) = "global" /\ e.mandatory
  PROVE  Due(v, e, out)
<1>1. Standing(v, e)
  BY Stands
<1>2. e.sw \in Switches /\ e.dest \in Nodes
  BY Placed
<1> DEFINE near == Near(e.sw, e.dest)
<1>3. near \in 0..3
  BY <1>1 DEF Standing
<1>4. PortType(out) \in {"local", "global"}
  BY PortOfLink
<1>5. out = MinPort(e) => PortType(out) = IF near = 3 THEN "node" ELSE IF near = 1 THEN "global" ELSE "local"
  <2>1. Nearer(e.sw, e.dest) /\ MinPort(e) = Toward(e.sw, e.dest)
    BY <1>2, NearerNext DEF MinPort, Toward
  <2> QED BY <2>1 DEF Nearer
<1>6. e.mandatory => InSource(e) /\ PortType(out) = "global"
  <2>1. e.mandatory => InSource(e)
    BY <1>1 DEF Standing
  <2> QED BY <2>1
<1>7. InSource(e) /\ ~e.mandatory => near = 1
  BY <1>1 DEF Standing
<1>8. e.mandatory \/ out = MinPort(e)
  OBVIOUS
<1>9. CASE v.routing = "par"
  <2>1. Furthest(v, e) = IF InSource(e) THEN (IF e.mandatory THEN 2 ELSE 1)
                         ELSE IF near = 0 THEN (IF e.localDone THEN 4 ELSE 3) ELSE near + 4
    BY <1>9 DEF Furthest
  <2> HIDE DEF near
  <2>2. /\ Furthest(v, e) \in Nat
        /\ \/ InSource(e) /\ PortType(out) = "global" /\ Furthest(v, e) < 3
           \/ near = 0 /\ PortType(out) = "local" /\ Furthest(v, e) < 5
           \/ near = 1 /\ PortType(out) = "global" /\ Furthest(v, e) < 6
           \/ near = 2 /\ PortType(out) = "local" /\ Furthest(v, e) < 7
    BY <1>3, <1>4, <1>5, <1>6, <1>7, <1>8, <2>1
  <2> DEFINE last == Furthest(v, e)
             kind == PortType(out)
  <2>3. /\ last \in Nat
        /\ \/ kind = "global" /\ last < 3
           \/ kind = "local" /\ last < 5
           \/ kind = "global" /\ last < 6
           \/ kind = "local" /\ last < 7
    BY <2>2
  <2> HIDE DEF last, kind
  <2>4. \E j \in 1..Length("par") : last < j /\ typeVc["par"][j] = kind
    BY <2>3, InTransitHops
  <2> QED BY <1>9, <2>3, <2>4 DEF Due, last, kind
<1>10. CASE v.routing = "olm"
  <2>1. Furthest(v, e) = IF InSource(e) THEN 1 ELSE near + 2
    BY <1>10 DEF Furthest
  <2> HIDE DEF near
  <2> DEFINE last == Furthest(v, e)
             kind == PortType(out)
  <2>2. /\ last \in Nat
        /\ \/ kind = "global" /\ last < 2
           \/ kind = "local" /\ last < 3
           \/ kind = "global" /\ last < 4
           \/ kind = "local" /\ last < 5
    BY <1>3, <1>4, <1>5, <1>6, <1>7, <1>8, <2>1
  <2> HIDE DEF last, kind
  <2>3. \E j \in 1..Length("olm") : last < j /\ typeVc["olm"][j] = kind
    BY <2>2, InTransitHops
  <2> QED BY <1>10, <2>2, <2>3 DEF Due, last, kind
<1> QED BY <1>9, <1>10 DEF InTransit

(* No opportunistic hop is made by a flit that keeps to its way.           *)
LEMMA NoRepeat ==
  ASSUME NEW v \in Variants, NEW e, Net(v, e), ~AtInjection(e),
         v.routing = "olm" => Group(e.src) # Group(e.dest),
         NEW out \in LinkPorts, MayAsk(e, out),
         v.routing \in InTransit => out = MinPort(e) \/ e.mandatory
  PROVE  ~Repeats(v, e, out)
<1> SUFFICES ASSUME v.routing = "olm", PortType(out) = "local", Repeats(v, e, out)
             PROVE  FALSE
  BY DEF Repeats
<1>1. v.routing \in InTransit
  BY DEF InTransit
<1>2. ~e.mandatory
  BY <1>1, NotMandatory
<1>3. out = MinPort(e) /\ Turned(e)
  BY <1>1, <1>2 DEF Repeats
<1>4. Standing(v, e)
  BY <1>1, Stands
<1>5. InSource(e) /\ e.localDone
  BY <1>3 DEF Turned, InSource
<1> QED BY <1>2, <1>4, <1>5 DEF Standing

InOrderNow(v, f) == v.usage = "BASE" /\ ~OutOfOrder(v, f) /\ ~AtInjection(f)

LEMMA Ordered ==
  ASSUME NEW v \in Variants, NEW f, Net(v, f), InOrderNow(v, f),
         NEW e, NEW g, NEW out, Routed(v, f, e, g, out)
  PROVE  /\ Net(v, e) /\ ~AtInjection(e) /\ v.routing # "car"
         /\ v.routing = "olm" => Group(e.src) # Group(e.dest)
         /\ e.port = f.port /\ e.channel = f.channel /\ e.mandatory = f.mandatory
         /\ MinPort(e) = MinPort(f) /\ MinPort(g) = MinPort(f) /\ g.mandatory = f.mandatory
         /\ ~AtInjection(g)
<1>1. Net(v, g) /\ Net(v, e) /\ SamePlace(f, g) /\ SamePlace(e, g)
  BY RoutedStays
<1> QED BY <1>1 DEF SamePlace, InOrderNow, OutOfOrder, AtInjection, MinPort

(* Each port it awaits is its node's, or has a channel further on.         *)
Further(v, f, out, vc) ==
    /\ out \in LinkPorts
    /\ Rank(v, out, vc) \in 1..Length(v.routing)
    /\ Rank(v, f.port, f.channel) \in 1..Length(v.routing)
    /\ Rank(v, out, vc) > Rank(v, f.port, f.channel)

LEMMA AwaitedOnward ==
  ASSUME NEW v \in Variants, NEW f, Net(v, f), InOrderNow(v, f), NEW r \in Awaits(v, f)
  PROVE  PortType(r.out) = "node" \/ Further(v, f, r.out, r.vc)
<1>1. /\ r \in Enroute(v, f) /\ MayAsk(f, r.out)
      /\ v.routing \in InTransit => r.flit.type = "NONE" \/ f.mandatory
  BY DEF Awaits, InTransit
<1>2. PICK e, g, out : Routed(v, f, e, g, out) /\ Result(v, e, g, out, r)
  BY <1>1, EnrouteRouted
<1>3. r.flit = g /\ r.out = out /\ r.vc \in NextChannels(v, e, out)
  BY <1>2 DEF Result
<1>4. /\ Net(v, e) /\ ~AtInjection(e)
      /\ v.routing = "olm" => Group(e.src) # Group(e.dest)
      /\ e.port = f.port /\ e.channel = f.channel /\ e.mandatory = f.mandatory
      /\ MinPort(e) = MinPort(f)
  BY <1>2, Ordered
<1>5. CASE PortType(out) # "node"
  <2>1. out \in LinkPorts
    <3>1. Asks(g, out)
      BY <1>2, RoutedAsks
    <3> QED BY <1>5, <3>1 DEF Asks
  <2>2. MayAsk(e, out)
    BY <1>1, <1>3, <1>4 DEF MayAsk
  <2>3. v.routing \in InTransit => out = MinPort(e) \/ e.mandatory
    <3> SUFFICES ASSUME v.routing \in InTransit, ~e.mandatory PROVE out = MinPort(e)
      OBVIOUS
    <3>1. g.type = "NONE"
      BY <1>1, <1>3, <1>4
    <3>2. Ventures(v, f, e, g, out)
      BY <1>2 DEF Routed, InTransit, ByValiant
    <3>3. ~OffWay(v, f, g.type, out)
      BY <3>1 DEF OffWay
    <3> QED BY <1>4, <3>2, <3>3 DEF Ventures
  <2>4. ~Repeats(v, e, out)
    BY <1>4, <2>1, <2>2, <2>3, NoRepeat
  <2>5. v.usage = "BASE"
    BY DEF InOrderNow
  <2>6. PICK i : Traveller(v, e, i)
    BY <1>4, <2>5, HopMadeBy
  <2>7. Rank(v, out, r.vc) \in 1..Length(v.routing) /\ Rank(v, out, r.vc) > i
    BY <1>3, <1>4, <2>1, <2>4, <2>5, <2>6, HopsFurtherOn
  <2>8. Rank(v, f.port, f.channel) = i /\ i \in 1..Length(v.routing)
    BY <1>4, <2>6 DEF Traveller
  <2> QED BY <1>3, <2>1, <2>7, <2>8 DEF Further
<1> QED BY <1>3, <1>5

(* There is a channel for it.                                              *)
LEMMA ChannelGiven ==
  ASSUME NEW v \in Variants, NEW f, Net(v, f), InOrderNow(v, f),
         NEW e, NEW g, NEW out, Routed(v, f, e, g, out), MayAsk(f, out),
         v.routing \in InTransit => \/ out = MinPort(e) /\ ~e.mandatory
                                    \/ PortType(out) = "global" /\ e.mandatory
  PROVE  NextChannels(v, e, out) # {}
<1>1. /\ Net(v, e) /\ ~AtInjection(e) /\ v.routing # "car"
      /\ v.routing = "olm" => Group(e.src) # Group(e.dest)
      /\ e.mandatory = f.mandatory /\ MinPort(g) = MinPort(f) /\ ~AtInjection(g)
  BY Ordered
<1>2. CASE PortType(out) = "node"
  BY <1>2 DEF NextChannels
<1>3. CASE PortType(out) # "node"
  <2>1. out \in LinkPorts
    <3>1. Asks(g, out)
      BY RoutedAsks
    <3> QED BY <1>3, <3>1 DEF Asks
  <2>2. MayAsk(e, out)
    BY <1>1 DEF MayAsk
  <2>3. ~Repeats(v, e, out)
    BY <1>1, <2>1, <2>2, NoRepeat
  <2>4. Due(v, e, out)
    <3>1. CASE v.routing \in ByValiant /\ e = g /\ Sent(v, f, g, out)
      <4>1. Heads(v, g, out)
        BY <3>1, SentHeads
      <4> QED BY <1>1, <2>1, <3>1, <4>1, DueByValiant
    <3>2. CASE v.routing = "minCond" /\ e = g /\ Decides(f, g, out)
      <4>1. out = MinPort(g)
        BY <1>1, <3>2 DEF Decides
      <4> QED BY <1>1, <2>1, <3>2, <4>1, DueMinCond
    <3>3. CASE v.routing \in InTransit /\ Ventures(v, f, e, g, out)
      BY <1>1, <2>1, <3>3, DueInTransit
    <3> QED BY <1>1, <3>1, <3>2, <3>3 DEF Routed
  <2>5. v.usage = "BASE"
    BY DEF InOrderNow
  <2>6. PICK i : Traveller(v, e, i)
    BY <1>1, <2>5, HopMadeBy
  <2> QED BY <1>1, <2>1, <2>3, <2>4, <2>5, <2>6, HopsFurtherOn DEF Due
<1> QED BY <1>2, <1>3

(* There is always something to await.                                     *)
LEMMA CandidateOf ==
  ASSUME NEW nominees, NEW kind \in DOMAIN nominees, kind # "NONE", NEW c \in nominees[kind]
  PROVE  [out |-> c.out, flit |-> [c.flit EXCEPT !.type = kind]] \in MisrouteCandidates(nominees)
<1> DEFINE Of(k) == {[out |-> d.out, flit |-> [d.flit EXCEPT !.type = k]] : d \in nominees[k]}
<1>1. [out |-> c.out, flit |-> [c.flit EXCEPT !.type = kind]] \in Of(kind)
  OBVIOUS
<1>2. MisrouteCandidates(nominees) = UNION {Of(k) : k \in DOMAIN nominees \ {"NONE"}}
  BY Zenon DEF MisrouteCandidates
<1> HIDE DEF Of
<1> QED BY <1>1, <1>2

LEMMA MandatoryCandidate ==
  ASSUME NEW v \in Variants, v.routing \in InTransit, NEW f, Net(v, f), f.mandatory
  PROVE  \E t : /\ t \in (IF v.routing = "par" THEN EnroutePar(v, f) ELSE EnrouteOlm(v, f))
                /\ t.out = GlobalOffset
<1> DEFINE kind == "GLOBAL_MANDATORY"
<1>1. /\ OffHome(f) /\ InSource(f)
      /\ v.misrouting = "MM" \/ (v.routing = "olm" /\ v.misrouting \in {"NRG", "RRG"})
  BY Stands DEF Standing
<1>2. AwayFromHome(f)
  BY <1>1 DEF OffHome, AwayFromHome
<1>3. GlobalOffset \in GlobalPorts
  BY KindPorts
<1>4. kind # "NONE" /\ PortsOf(kind) = GlobalPorts
  BY DEF PortsOf
<1>5. CASE v.routing = "par"
  <2>1. v.misrouting = "MM"
    BY <1>1, <1>5
  <2>2. ParTypes(v, f) = {MixedModeType(f)}
    BY <1>2, <2>1 DEF ParTypes
  <2>3. kind \in ParTypes(v, f)
    BY <2>2 DEF MixedModeType
  <2> DEFINE nominees == [k \in ParTypes(v, f) |-> ParNominates(f, k)]
             c == [out |-> GlobalOffset, flit |-> f]
  <2>4. c \in ParNominates(f, kind)
    BY <1>3, <1>4, Zenon DEF ParNominates
  <2> HIDE DEF kind, c
  <2>5. kind \in DOMAIN nominees /\ c \in nominees[kind]
    BY <2>3, <2>4
  <2> HIDE DEF nominees
  <2>6. [out |-> c.out, flit |-> [c.flit EXCEPT !.type = kind]] \in MisrouteCandidates(nominees)
    BY <1>4, <2>5, CandidateOf
  <2>7. c.out = GlobalOffset
    BY DEF c
  <2>8. MisrouteCandidates(nominees) = EnroutePar(v, f)
    BY DEF nominees, EnroutePar
  <2> QED BY <1>5, <2>6, <2>7, <2>8
<1>6. CASE v.routing = "olm"
  <2>1. kind \in OlmTypes(v, f)
    <3>1. MixedModeType(f) = kind
      BY DEF MixedModeType
    <3>2. CASE v.misrouting = "MM"
      <4>1. OlmTypes(v, f) = {MixedModeType(f)}
        BY <1>2, <3>2 DEF OlmTypes
      <4> QED BY <3>1, <4>1
    <3>3. CASE v.misrouting = "NRG"
      <4>1. OlmTypes(v, f) = {IF f.mandatory THEN "GLOBAL_MANDATORY" ELSE "LOCAL"}
        BY <1>2, <3>3 DEF OlmTypes
      <4> QED BY <4>1
    <3>4. CASE v.misrouting = "RRG"
      <4>1. OlmTypes(v, f) = IF f.mandatory THEN {"GLOBAL_MANDATORY"} ELSE {"LOCAL", "GLOBAL"}
        BY <1>2, <3>4 DEF OlmTypes
      <4> QED BY <4>1
    <3> QED BY <1>1, <3>2, <3>3, <3>4
  <2> DEFINE nominees == [k \in OlmTypes(v, f) |-> OlmNominates(f, k)]
  <2>2. \E c : c \in OlmNominates(f, kind) /\ c.out = GlobalOffset
    <3> HIDE DEF kind
    <3>1. \E m : [out |-> GlobalOffset, flit |-> m] \in OlmNominates(f, kind)
      BY <1>3, <1>4, Zenon DEF OlmNominates
    <3>2. PICK m : [out |-> GlobalOffset, flit |-> m] \in OlmNominates(f, kind)
      BY <3>1
    <3> DEFINE c == [out |-> GlobalOffset, flit |-> m]
    <3>3. c \in OlmNominates(f, kind) /\ c.out = GlobalOffset
      BY <3>2
    <3> QED BY <3>3
  <2>3. PICK c : c \in OlmNominates(f, kind) /\ c.out = GlobalOffset
    BY <2>2
  <2> HIDE DEF kind
  <2>4. kind \in DOMAIN nominees /\ c \in nominees[kind]
    BY <2>1, <2>3
  <2> HIDE DEF nominees
  <2>5. [out |-> c.out, flit |-> [c.flit EXCEPT !.type = kind]] \in MisrouteCandidates(nominees)
    BY <1>4, <2>4, CandidateOf
  <2>6. MisrouteCandidates(nominees) = EnrouteOlm(v, f)
    BY DEF nominees, EnrouteOlm
  <2> QED BY <1>6, <2>3, <2>5, <2>6
<1> QED BY <1>5, <1>6 DEF InTransit

(* An outcome of in-transit routing the flit may wait for.                 *)
LEMMA InTransitAwaits ==
  ASSUME NEW v \in Variants, v.routing \in InTransit, NEW f, Net(v, f), ~AtInjection(f)
  PROVE  \E o : /\ o \in EnrouteInTransit(v, f) /\ MayAsk(f, o.to.out)
                /\ o.to.flit.type = "NONE" \/ f.mandatory
                /\ \/ o.to.out = MinPort(f) /\ ~f.mandatory /\ o.seen = f
                   \/ PortType(o.to.out) = "global" /\ f.mandatory
<1> DEFINE tried == IF TRUE \notin MisrouteCondition(f) THEN {}
                    ELSE IF v.routing = "par" THEN EnroutePar(v, f) ELSE EnrouteOlm(v, f)
           left == {Unmarked(t.flit) : t \in tried}
                     \cup IF FALSE \in MisrouteCondition(f) \/ tried = {} THEN {Unmarked(f)} ELSE {}
<1>1. EnrouteInTransit(v, f) =
          {[to |-> To(g, MinPort(f)), seen |-> f] : g \in left}
            \cup {[to |-> t, seen |-> t.flit] : t \in {u \in tried : ValidMisroutePort(f, u.out)}}
  BY Zenon DEF EnrouteInTransit
<1>2. f \in FlitType /\ f.sw \in Switches /\ f.dest \in Nodes
  BY Placed
<1>3. ASSUME NEW t \in tried
      PROVE  t.flit \in FlitType
  <2>1. CASE v.routing = "par"
    <3>1. t \in EnroutePar(v, f)
      BY <1>3, <2>1, Zenon
    <3> QED BY <1>2, <2>1, <3>1, ParCandidates DEF Tried
  <2>2. CASE v.routing = "olm"
    <3>1. t \in EnrouteOlm(v, f)
      BY <1>3, <2>2, Zenon
    <3> QED BY <1>2, <2>2, <3>1, OlmCandidates DEF Tried
  <2> QED BY <2>1, <2>2 DEF InTransit
<1>4. CASE ~f.mandatory
  <2>1. \E g : g \in left /\ g.type = "NONE"
    <3>1. CASE tried = {}
      <4>1. Unmarked(f) \in left
        BY <3>1, Zenon
      <4>2. Unmarked(f).type = "NONE"
        BY <1>2 DEF Unmarked, FlitType
      <4> QED BY <4>1, <4>2
    <3>2. CASE tried # {}
      <4>1. PICK t : t \in tried
        BY <3>2, Zenon
      <4>2. Unmarked(t.flit) \in left
        BY <4>1, Zenon
      <4>3. Unmarked(t.flit).type = "NONE"
        <5> DEFINE m == t.flit
        <5>1. m \in FlitType
          BY <1>3, <4>1
        <5> HIDE DEF m
        <5>2. Unmarked(m).type = "NONE"
          BY <5>1 DEF Unmarked, FlitType
        <5> QED BY <5>2 DEF m
      <4> QED BY <4>2, <4>3
    <3> QED BY <3>1, <3>2
  <2>2. PICK g : g \in left /\ g.type = "NONE"
    BY <2>1
  <2> HIDE DEF left, tried
  <2> DEFINE o == [to |-> To(g, MinPort(f)), seen |-> f]
  <2>3. o \in EnrouteInTransit(v, f)
    BY <1>1, <2>2, Zenon
  <2>4. o.to.out = MinPort(f) /\ o.to.flit = g /\ o.seen = f
    BY DEF To
  <2> HIDE DEF o
  <2> QED BY <1>4, <2>2, <2>3, <2>4 DEF MayAsk
<1>5. CASE f.mandatory
  <2>1. PICK t : /\ t \in (IF v.routing = "par" THEN EnroutePar(v, f) ELSE EnrouteOlm(v, f))
                 /\ t.out = GlobalOffset
    BY <1>5, MandatoryCandidate
  <2>2. t \in tried
    <3>1. TRUE \in MisrouteCondition(f)
      BY <1>5, Zenon DEF MisrouteCondition
    <3> QED BY <2>1, <3>1, Zenon
  <2>3. PortType(GlobalOffset) = "global"
    BY KindPorts
  <2>4. ValidMisroutePort(f, t.out)
    <3>1. Near(f.sw, f.dest) = 0
      BY <1>5, Stands DEF Standing
    <3>2. PortType(MinPort(f)) = "local"
      BY <1>2, <3>1, MinPortOf
    <3> QED BY <2>1, <2>3, <3>2 DEF ValidMisroutePort
  <2> HIDE DEF left, tried
  <2> DEFINE o == [to |-> t, seen |-> t.flit]
  <2>5. o \in EnrouteInTransit(v, f)
    BY <1>1, <2>2, <2>4, Zenon
  <2>6. o.to = t
    OBVIOUS
  <2> HIDE DEF o
  <2>7. MayAsk(f, o.to.out)
    BY <2>1, <2>6, SizeAssumption DEF MayAsk, GlobalOffset, SizeAssumption
  <2> QED BY <1>5, <2>1, <2>3, <2>5, <2>6, <2>7
<1> QED BY <1>4, <1>5

Outcome(v, f, e, g, out) ==
    \A vc \in NextChannels(v, e, out) : [out |-> out, vc |-> vc, flit |-> g] \in Enroute(v, f)

LEMMA EveryOutcome ==
  ASSUME NEW v, NEW f
  PROVE  /\ v.routing \in InTransit =>
              \A o \in EnrouteInTransit(v, f) : Outcome(v, f, o.seen, o.to.flit, o.to.out)
         /\ v.routing \notin InTransit =>
              \A t \in EnrouteAtSource(v, f) : Outcome(v, f, t.flit, t.flit, t.out)
<1> DEFINE Results(o) == {[out |-> o.to.out, vc |-> vc, flit |-> o.to.flit] :
                             vc \in NextChannels(v, o.seen, o.to.out)}
           As(t) == [to |-> t, seen |-> t.flit]
<1>1. \A o : \A vc \in NextChannels(v, o.seen, o.to.out) :
         [out |-> o.to.out, vc |-> vc, flit |-> o.to.flit] \in Results(o)
  OBVIOUS
<1>2. \A t : As(t).to = t /\ As(t).seen = t.flit
  OBVIOUS
<1>3. v.routing \in InTransit => Enroute(v, f) = UNION {Results(o) : o \in EnrouteInTransit(v, f)}
  BY Zenon DEF Enroute, InTransit
<1>4. v.routing \notin InTransit =>
        Enroute(v, f) = UNION {Results(o) : o \in {As(t) : t \in EnrouteAtSource(v, f)}}
  BY Zenon DEF Enroute, InTransit
<1> HIDE DEF Results, As
<1>5. ASSUME v.routing \in InTransit, NEW o \in EnrouteInTransit(v, f)
      PROVE  Outcome(v, f, o.seen, o.to.flit, o.to.out)
  <2>1. Results(o) \subseteq Enroute(v, f)
    BY <1>3, <1>5
  <2> QED BY <1>1, <2>1 DEF Outcome
<1>6. ASSUME v.routing \notin InTransit, NEW t \in EnrouteAtSource(v, f)
      PROVE  Outcome(v, f, t.flit, t.flit, t.out)
  <2>1. Results(As(t)) \subseteq Enroute(v, f)
    BY <1>4, <1>6
  <2>2. \A vc \in NextChannels(v, As(t).seen, As(t).to.out) :
           [out |-> As(t).to.out, vc |-> vc, flit |-> As(t).to.flit] \in Results(As(t))
    BY <1>1
  <2> QED BY <1>2, <2>1, <2>2 DEF Outcome
<1> QED BY <1>5, <1>6

LEMMA SomethingAwaited ==
  ASSUME NEW v \in Variants, NEW f, Net(v, f), InOrderNow(v, f)
  PROVE  Awaits(v, f) # {}
<1>1. v.routing # "car" /\ ~AtInjection(f)
  BY DEF InOrderNow, OutOfOrder
<1>2. \E e, g, out : /\ Routed(v, f, e, g, out) /\ MayAsk(f, out) /\ Outcome(v, f, e, g, out)
                     /\ v.routing \in InTransit =>
                          /\ g.type = "NONE" \/ f.mandatory
                          /\ \/ out = MinPort(e) /\ ~e.mandatory
                             \/ PortType(out) = "global" /\ e.mandatory
  <2>1. CASE v.routing \in InTransit
    <3>1. PICK o : /\ o \in EnrouteInTransit(v, f) /\ MayAsk(f, o.to.out)
                   /\ o.to.flit.type = "NONE" \/ f.mandatory
                   /\ \/ o.to.out = MinPort(f) /\ ~f.mandatory /\ o.seen = f
                      \/ PortType(o.to.out) = "global" /\ f.mandatory
      BY <1>1, <2>1, InTransitAwaits
    <3> DEFINE e == o.seen
               g == o.to.flit
               out == o.to.out
    <3>2. Outcome(v, f, e, g, out)
      BY <2>1, <3>1, EveryOutcome
    <3>3. Routed(v, f, e, g, out)
      BY <2>1, <3>1, InTransitVentures DEF Routed
    <3>4. /\ MayAsk(f, out)
          /\ g.type = "NONE" \/ f.mandatory
          /\ \/ out = MinPort(f) /\ ~f.mandatory /\ e = f
             \/ PortType(out) = "global" /\ f.mandatory
      BY <3>1
    <3> HIDE DEF e, g, out
    <3>5. e.mandatory = f.mandatory /\ MinPort(e) = MinPort(f)
      BY <3>3, Ordered
    <3> QED BY <3>2, <3>3, <3>4, <3>5
  <2>2. CASE v.routing \notin InTransit
    <3>1. PICK t : t \in EnrouteAtSource(v, f)
      BY <1>1, <2>2, WaysThere
    <3> DEFINE g == t.flit
               out == t.out
    <3>2. Outcome(v, f, g, g, out)
      BY <2>2, <3>1, EveryOutcome
    <3>3. Routed(v, f, g, g, out)
      <4>1. CASE v.routing \in ByValiant
        BY <3>1, <4>1, ByValiantSent DEF Routed
      <4>2. CASE v.routing = "minCond"
        <5>1. EnrouteAtSource(v, f) = EnrouteMinCond(f)
          BY <4>2 DEF EnrouteAtSource
        <5> QED BY <3>1, <4>2, <5>1, MinCondDecides DEF Routed
      <4> QED BY <1>1, <2>2, <4>1, <4>2, Routes
    <3>4. ~f.mandatory
      BY <2>2 DEF Net, Flagged
    <3>5. MayAsk(f, out)
      BY <3>4 DEF MayAsk
    <3> HIDE DEF g, out
    <3> QED BY <2>2, <3>2, <3>3, <3>5
  <2> QED BY <2>1, <2>2
<1>3. PICK e, g, out :
          /\ Routed(v, f, e, g, out) /\ MayAsk(f, out) /\ Outcome(v, f, e, g, out)
          /\ v.routing \in InTransit =>
               /\ g.type = "NONE" \/ f.mandatory
               /\ \/ out = MinPort(e) /\ ~e.mandatory
                  \/ PortType(out) = "global" /\ e.mandatory
  BY <1>2
<1>4. NextChannels(v, e, out) # {}
  BY <1>3, ChannelGiven
<1>5. PICK vc : vc \in NextChannels(v, e, out)
  BY <1>4
<1> DEFINE r == [out |-> out, vc |-> vc, flit |-> g]
<1>6. r \in Enroute(v, f)
  BY <1>3, <1>5 DEF Outcome
<1>7. r.out = out /\ r.flit = g
  OBVIOUS
<1> HIDE DEF r
<1>8. r \in Awaits(v, f)
  BY <1>3, <1>6, <1>7, Zenon DEF Awaits, InTransit
<1> QED BY <1>8

LEMMA Escapes ==
  ASSUME IInv, variant.usage = "BASE", NEW p \in Packets, Travelling(p),
         ~OutOfOrder(variant, flit[p])
  PROVE  /\ variant \in Variants /\ Net(variant, flit[p]) /\ InOrderNow(variant, flit[p])
         /\ Awaits(variant, flit[p]) # {}
         /\ \A r \in Awaits(variant, flit[p]) :
               PortType(r.out) = "node" \/ Further(variant, flit[p], r.out, r.vc)
<1>1. variant \in Variants /\ Net(variant, flit[p])
  BY Travels DEF Travelling
<1>2. InOrderNow(variant, flit[p])
  BY DEF Travelling, InOrderNow
<1> QED BY <1>1, <1>2, SomethingAwaited, AwaitedOnward

(* With the sequences of vcMngmt and oppVcMngmt (BASE), and but for CAR    *)
(* and OLM's flits within their group, in every Dragonfly: whatever a flit *)
(* has been through, there is a port it may go on asking for, and every    *)
(* such port is its node's or gives it a channel further on in the order   *)
(* (vcMngmt.cc:137); none of OLM's opportunistic hops, which repeat a      *)
(* channel, takes it to where nothing is left of the order.                *)
THEOREM EscapeThere == Spec => [](variant.usage = "BASE" => EscapeIncreases)
<1>1. IInv => (variant.usage = "BASE" => EscapeIncreases)
  <2> SUFFICES ASSUME IInv, variant.usage = "BASE" PROVE EscapeIncreases
    OBVIOUS
  <2> SUFFICES ASSUME NEW p \in Packets, Travelling(p), ~OutOfOrder(variant, flit[p])
               PROVE  LET f == flit[p]
                          awaited == Awaits(variant, f)
                          onward == {r \in awaited :
                             \/ PortType(r.out) = "node"
                             \/ Rank(variant, r.out, r.vc) > Rank(variant, f.port, f.channel)}
                          OutsOf(routes) == {r.out : r \in routes}
                      IN  awaited # {} /\ OutsOf(awaited) = OutsOf(onward)
    BY Zenon DEF EscapeIncreases
  <2> DEFINE f == flit[p]
             awaited == Awaits(variant, f)
             onward == {r \in awaited :
                \/ PortType(r.out) = "node"
                \/ Rank(variant, r.out, r.vc) > Rank(variant, f.port, f.channel)}
  <2>1. /\ awaited # {}
        /\ \A r \in awaited : PortType(r.out) = "node" \/ Further(variant, f, r.out, r.vc)
    BY Escapes
  <2>2. onward = awaited
    <3> HIDE DEF awaited, f
    <3>1. \A r \in awaited : \/ PortType(r.out) = "node"
                             \/ Rank(variant, r.out, r.vc) > Rank(variant, f.port, f.channel)
      BY <2>1, Zenon DEF Further
    <3> QED BY <3>1, Zenon
  <2> QED BY <2>1, <2>2, Zenon
<1> QED BY <1>1, AlwaysIInv, PTL

-----------------------------------------------------------------------------
(* The order of the channels goes by the kind of the port.                 *)
LEMMA SameRank ==
  ASSUME NEW v, v.usage = "BASE", NEW port1, NEW port2, PortType(port1) = PortType(port2), NEW vc
  PROVE  Rank(v, port1, vc) = Rank(v, port2, vc)
<1>1. HopsOf(v.routing, petitionVc[v.routing], port1, vc)
        = HopsOf(v.routing, petitionVc[v.routing], port2, vc)
  BY DEF HopsOf
<1> DEFINE Pick(made) == CHOOSE i \in made : TRUE
<1>2. /\ Rank(v, port1, vc) = Pick(HopsOf(v.routing, petitionVc[v.routing], port1, vc))
      /\ Rank(v, port2, vc) = Pick(HopsOf(v.routing, petitionVc[v.routing], port2, vc))
  BY DEF Rank
<1> HIDE DEF Pick
<1> QED BY <1>1, <1>2, Zenon

(* Among the flits of a set, one is furthest on.                           *)
LEMMA FurthestOn ==
  ASSUME NEW S, S # {}, NEW place \in [S -> 1..7]
  PROVE  \E p \in S : \A q \in S : place[q] <= place[p]
<1> DEFINE left == {7 - place[p] : p \in S}
<1>1. left \subseteq Nat /\ left # {}
  OBVIOUS
<1>2. \E n \in left : \A m \in left : n <= m
  <2> HIDE DEF left
  <2> QED BY <1>1, NatMinimum
<1>3. PICK n \in left : \A m \in left : n <= m
  BY <1>2
<1>4. PICK p \in S : n = 7 - place[p]
  BY <1>3
<1>5. ASSUME NEW q \in S
      PROVE  place[q] <= place[p]
  <2>1. n <= 7 - place[q]
    BY <1>3
  <2>2. place[p] \in 1..7 /\ place[q] \in 1..7
    OBVIOUS
  <2> QED BY <1>4, <2>1, <2>2
<1> QED BY <1>5

(* The buffer the flit waits for.                                          *)
LEMMA AwaitedBuffer ==
  ASSUME IInv, variant.usage = "BASE", NEW p \in Packets, Travelling(p),
         ~OutOfOrder(variant, flit[p]), NEW r \in Awaits(variant, flit[p]),
         PortType(r.out) # "node",
         NEW q \in InBuffer(Traverse(variant, r.flit, r.out, r.vc).sw,
                            Traverse(variant, r.flit, r.out, r.vc).port,
                            Traverse(variant, r.flit, r.out, r.vc).channel)
  PROVE  Rank(variant, flit[q].port, flit[q].channel) > Rank(variant, flit[p].port, flit[p].channel)
<1> DEFINE f == flit[p]
           vc == r.vc
<1>1. /\ variant \in Variants /\ Net(variant, f) /\ InOrderNow(variant, f)
      /\ Further(variant, f, r.out, vc)
  BY Escapes
<1>2. r \in Enroute(variant, f) /\ MayAsk(f, r.out)
  BY DEF Awaits
<1>3. PICK e, g, out : Routed(variant, f, e, g, out) /\ Result(variant, e, g, out, r)
  BY <1>1, <1>2, EnrouteRouted
<1>4. r.flit = g /\ r.out = out /\ vc \in NextChannels(variant, e, out)
  BY <1>3 DEF Result
<1>5. g.mandatory = f.mandatory
  BY <1>1, <1>3, Ordered
<1>6. MayAsk(g, out)
  BY <1>2, <1>4, <1>5 DEF MayAsk
<1>7. out \in LinkPorts /\ Rank(variant, out, vc) > Rank(variant, f.port, f.channel)
  BY <1>1, <1>4 DEF Further
<1> DEFINE h == Traverse(variant, g, out, vc)
<1>8. q \in InBuffer(h.sw, h.port, h.channel)
  BY <1>4
<1> HIDE DEF f, vc
<1>9. Net(variant, h) /\ Moved(variant, g, h, out, vc)
  BY <1>1, <1>3, <1>4, <1>6, <1>7, RoutedMoves
<1>10. g.sw \in Switches
  BY <1>1, <1>3, RoutedStays, Placed
<1> HIDE DEF h
<1>11. PortType(h.port) = PortType(out) /\ h.channel = vc
  BY <1>1, <1>7, <1>9, <1>10, MovedKinds DEF Moved
<1>12. flit[q].port = h.port /\ flit[q].channel = h.channel
  BY <1>8 DEF InBuffer
<1> DEFINE port == h.port
<1>13. Rank(variant, port, vc) = Rank(variant, out, vc)
  <2> HIDE DEF port
  <2>1. PortType(port) = PortType(out)
    BY <1>11 DEF port
  <2> QED BY <2>1, SameRank
<1> QED BY <1>7, <1>11, <1>12, <1>13 DEF f

(* Every flit in the network keeps to the order of the channels.           *)
AllInOrder ==
    /\ variant.usage = "BASE"
    /\ \A p \in Packets : Travelling(p) => ~OutOfOrder(variant, flit[p])

(* Why it matters: with one channel a hop (BASE), as long as every flit in *)
(* the network keeps the order - all of them, but for CAR and for OLM's    *)
(* flits within their group - no packets wait for each other in a circle,  *)
(* however many there are and wherever they have been misrouted ("an       *)
(* increasing sequence to break cyclic dependencies", vcMngmt.cc:137).     *)
THEOREM NoCircleInOrder == Spec => [](AllInOrder => NoCircularWait)
<1>1. ASSUME IInv, variant.usage = "BASE",
             \A p \in Packets : Travelling(p) => ~OutOfOrder(variant, flit[p])
      PROVE  NoCircularWait
  <2> SUFFICES ASSUME NEW stuck \in SUBSET {p \in Packets : Travelling(p)}, stuck # {},
                      \A p \in stuck : \A r \in Enroute(variant, flit[p]) :
                         /\ PortType(r.out) # "node"
                         /\ LET f == Traverse(variant, r.flit, r.out, r.vc)
                            IN  \/ ~MayAsk(r.flit, r.out)
                                \/ InBuffer(f.sw, f.port, f.channel) \cap stuck # {}
               PROVE  FALSE
    BY Zenon DEF NoCircularWait
  <2> DEFINE place == [p \in stuck |-> Rank(variant, flit[p].port, flit[p].channel)]
  <2>1. ASSUME NEW p \in stuck
        PROVE  /\ p \in Packets /\ Travelling(p) /\ ~OutOfOrder(variant, flit[p])
               /\ variant \in Variants /\ Net(variant, flit[p])
               /\ Awaits(variant, flit[p]) # {}
               /\ place[p] \in 1..7
    <3>1. p \in Packets /\ Travelling(p) /\ ~OutOfOrder(variant, flit[p])
      BY <1>1
    <3>2. /\ variant \in Variants /\ Net(variant, flit[p])
          /\ Awaits(variant, flit[p]) # {}
          /\ \A r \in Awaits(variant, flit[p]) :
                PortType(r.out) = "node" \/ Further(variant, flit[p], r.out, r.vc)
      BY <1>1, <3>1, Escapes
    <3>3. ~AtInjection(flit[p])
      BY <3>1 DEF Travelling
    <3>4. PICK i : Traveller(variant, flit[p], i)
      BY <1>1, <3>2, <3>3, HopMadeBy
    <3>5. place[p] \in 1..7
      BY <3>4 DEF Traveller, Length
    <3> QED BY <3>1, <3>2, <3>5
  <2>2. place \in [stuck -> 1..7]
    <3>1. \A p \in stuck : Rank(variant, flit[p].port, flit[p].channel) \in 1..7
      BY <2>1
    <3> QED BY <3>1
  <2>3. \E p \in stuck : \A q \in stuck : place[q] <= place[p]
    <3> HIDE DEF place
    <3> QED BY <2>2, FurthestOn
  <2>4. PICK p \in stuck : \A q \in stuck : place[q] <= place[p]
    BY <2>3
  <2>5. PICK r : r \in Awaits(variant, flit[p])
    BY <2>1
  <2>6. r \in Enroute(variant, flit[p]) /\ MayAsk(flit[p], r.out)
    BY <2>5 DEF Awaits
  <2>7. MayAsk(r.flit, r.out)
    <3>1. PICK e, g, out : Routed(variant, flit[p], e, g, out) /\ Result(variant, e, g, out, r)
      BY <2>1, <2>6, EnrouteRouted
    <3>2. r.flit = g /\ r.out = out
      BY <3>1 DEF Result
    <3>3. g.mandatory = flit[p].mandatory
      BY <2>1, <3>1, RoutedStays DEF SamePlace
    <3> QED BY <2>6, <3>2, <3>3 DEF MayAsk
  <2> DEFINE f == Traverse(variant, r.flit, r.out, r.vc)
  <2>8. PortType(r.out) # "node" /\ InBuffer(f.sw, f.port, f.channel) \cap stuck # {}
    BY <2>6, <2>7
  <2>9. PICK q \in stuck : q \in InBuffer(f.sw, f.port, f.channel)
    BY <2>8
  <2>10. Rank(variant, flit[q].port, flit[q].channel) > Rank(variant, flit[p].port, flit[p].channel)
    BY <1>1, <2>1, <2>5, <2>8, <2>9, AwaitedBuffer
  <2>11. place[q] > place[p]
    BY <2>10
  <2>12. place[q] \in 1..7 /\ place[p] \in 1..7 /\ place[q] <= place[p]
    BY <2>1, <2>4
  <2> HIDE DEF place
  <2> QED BY <2>11, <2>12
<1>2. IInv => (AllInOrder => NoCircularWait)
  BY <1>1 DEF AllInOrder
<1> QED BY <1>2, AlwaysIInv, PTL
=============================================================================
