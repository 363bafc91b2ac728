-------------------------- MODULE DragonflyProofs --------------------------
(***************************************************************************)
(* What Dragonfly promises, for every size of the network, either layout   *)
(* of its global links, any number of packets and any traffic.             *)
(*                                                                         *)
(* The first half is about the tables of Topology: switches and nodes are  *)
(* numbered by rows, each port leads back (LinksBothWays), and the minimal *)
(* path to a node gets nearer to it with every hop (NearOfNext).  The      *)
(* second half is about the channels: each hop of a routing has channels   *)
(* of its own (ChannelOfHop), and the flit that has made the i-th hop of   *)
(* the sequence finds one for a later hop (HopFound).                      *)
(*                                                                         *)
(* The invariant says where a flit is in that sequence (At), and that the  *)
(* sequence leaves a hop for each one that is still to be made (Bound).    *)
(***************************************************************************)
EXTENDS Dragonfly, FiniteSetTheorems, SequenceTheorems,
        WellFoundedInduction, TLAPS

-----------------------------------------------------------------------------
(* Every set of natural numbers has a least one.                           *)
LEMMA NatMinimum ==
  ASSUME NEW S \in SUBSET Nat, S # {}
  PROVE  \E m \in S : \A n \in S : m <= n
<1> DEFINE less == {p \in Nat \X Nat : p[1] < p[2]}
<1>0. OpToRel(<, Nat) = less
  BY DEF OpToRel
<1>1. \A n, m \in Nat : <<n, m>> \in less <=> n < m
  OBVIOUS
<1> HIDE DEF less
<1>2. PICK m \in S : \A n \in S : ~(<<n, m>> \in less)
  BY <1>0, NatLessThanWellFounded, WFMin
<1>3. \A n \in S : n \in Nat /\ m \in Nat /\ ~(n < m)
  BY <1>1, <1>2
<1>4. \A n \in S : m <= n
  BY <1>3
<1> QED BY <1>4

(* Numbers from 0 to k * m - 1 are m rows of k.                            *)
LEMMA DivMod ==
  ASSUME NEW n \in Nat, NEW k \in Nat \ {0}
  PROVE  n \div k \in Nat /\ n % k \in 0..(k - 1) /\ n = (n \div k) * k + (n % k)
OBVIOUS

LEMMA DivBelow ==
  ASSUME NEW k \in Nat \ {0}, NEW m \in Nat \ {0}, NEW n \in 0..(k * m - 1)
  PROVE  n \div k \in 0..(m - 1)
OBVIOUS

LEMMA DivUnique ==
  ASSUME NEW k \in Nat \ {0}, NEW q \in Nat, NEW r \in 0..(k - 1)
  PROVE  (q * k + r) \div k = q /\ (q * k + r) % k = r
OBVIOUS

LEMMA RowBelow ==
  ASSUME NEW k \in Nat \ {0}, NEW m \in Nat \ {0}, NEW q \in 0..(m - 1),
         NEW r \in 0..(k - 1)
  PROVE  q * k + r \in 0..(k * m - 1)
OBVIOUS

LEMMA Product ==
  ASSUME NEW k \in Nat \ {0}, NEW m \in Nat \ {0}
  PROVE  k * m \in Nat \ {0}
OBVIOUS

LEMMA ModOnce ==
  ASSUME NEW k \in Nat \ {0}, NEW n \in (-k)..(k - 1)
  PROVE  n % k = IF n >= 0 THEN n ELSE n + k
OBVIOUS

(* Around a ring of k places.                                              *)
LEMMA ModDifference ==
  ASSUME NEW k \in Nat \ {0}, NEW m \in 0..(k - 1), NEW n \in 0..(k - 1)
  PROVE  /\ (m - n) % k = IF m >= n THEN m - n ELSE m - n + k
         /\ (m - n) % k \in 0..(k - 1)
         /\ m # n => (m - n) % k # 0
<1>1. m - n \in (-k)..(k - 1)
  OBVIOUS
<1>2. (m - n) % k = IF m - n >= 0 THEN m - n ELSE m - n + k
  BY <1>1, ModOnce
<1> QED BY <1>2

LEMMA ModBack ==
  ASSUME NEW k \in Nat \ {0}, NEW m \in 0..(k - 1), NEW n \in 0..(k - 1)
  PROVE  (m - ((m - n) % k)) % k = n
<1>1. (m - n) % k = IF m >= n THEN m - n ELSE m - n + k
  BY ModDifference
<1>2. (m - n) % k \in 0..(k - 1)
  BY <1>1
<1>3. (m - ((m - n) % k)) % k = IF m >= (m - n) % k THEN m - ((m - n) % k)
                                ELSE m - ((m - n) % k) + k
  BY <1>2, ModDifference
<1> QED BY <1>1, <1>3


USE SizeAssumption

GroupLinks == 0..(A * H - 1)

-----------------------------------------------------------------------------
(* Switches and nodes are numbered by rows.                                *)
LEMMA Sizes ==
  /\ A * H \in Nat \ {0} /\ A * H + 1 \in Nat \ {0}
  /\ A * (A * H + 1) \in Nat \ {0}
  /\ Groups = 0..((A * H + 1) - 1)
  /\ Nodes = 0..(P * (A * (A * H + 1)) - 1)
<1>1. A * H \in Nat \ {0}
  BY Product
<1>2. A * H + 1 \in Nat \ {0}
  BY <1>1
<1>3. A * (A * H + 1) \in Nat \ {0}
  BY <1>2, Product
<1>4. Groups = 0..((A * H + 1) - 1)
  BY <1>1 DEF Groups
<1>5. \A x \in Nat : P * A * x = P * (A * x)
  OBVIOUS
<1>6. P * A * (A * H + 1) = P * (A * (A * H + 1))
  BY <1>2, <1>5
<1> QED BY <1>1, <1>2, <1>3, <1>4, <1>6 DEF Nodes

LEMMA SwitchParts ==
  ASSUME NEW s \in Switches
  PROVE  hPos(s) \in Groups /\ aPos(s) \in 0..(A - 1) /\ s = hPos(s) * A + aPos(s)
<1>1. s \in 0..(A * (A * H + 1) - 1) /\ s \in Nat
  BY DEF Switches
<1>2. s \div A \in 0..((A * H + 1) - 1)
  BY <1>1, Sizes, DivBelow
<1>3. s % A \in 0..(A - 1) /\ s = (s \div A) * A + (s % A)
  BY <1>1, DivMod
<1> QED BY <1>2, <1>3, Sizes DEF hPos, aPos

LEMMA SwitchWhole ==
  ASSUME NEW h \in Groups, NEW a \in 0..(A - 1)
  PROVE  h * A + a \in Switches /\ hPos(h * A + a) = h /\ aPos(h * A + a) = a
<1>1. h \in 0..((A * H + 1) - 1) /\ h \in Nat
  BY Sizes
<1>2. h * A + a \in 0..(A * (A * H + 1) - 1)
  BY <1>1, Sizes, RowBelow
<1>3. (h * A + a) \div A = h /\ (h * A + a) % A = a
  BY <1>1, DivUnique
<1> QED BY <1>2, <1>3 DEF Switches, hPos, aPos

LEMMA NodeParts ==
  ASSUME NEW n \in Nodes
  PROVE  SwitchOf(n) \in Switches /\ n % P \in 0..(P - 1) /\ n = SwitchOf(n) * P + (n % P)
<1>1. n \in 0..(P * (A * (A * H + 1)) - 1) /\ n \in Nat
  BY Sizes
<1>2. n \div P \in 0..(A * (A * H + 1) - 1)
  BY <1>1, Sizes, DivBelow
<1>3. n % P \in 0..(P - 1) /\ n = (n \div P) * P + (n % P)
  BY <1>1, DivMod
<1> QED BY <1>2, <1>3 DEF SwitchOf, Switches

LEMMA FirstNode ==
  ASSUME NEW s \in Switches
  PROVE  s * P \in Nodes /\ SwitchOf(s * P) = s
<1>1. s \in 0..(A * (A * H + 1) - 1) /\ s \in Nat /\ 0 \in 0..(P - 1)
  BY Sizes DEF Switches
<1>2. s * P + 0 \in 0..(P * (A * (A * H + 1)) - 1)
  BY <1>1, Sizes, RowBelow
<1>3. (s * P + 0) \div P = s
  BY <1>1, DivUnique
<1>4. s * P + 0 = s * P
  BY <1>1
<1> QED BY <1>2, <1>3, <1>4, Sizes DEF SwitchOf

(* The ports of a switch by what they lead to.                             *)
LEMMA PortKinds ==
  /\ LinkPorts \subseteq Ports
  /\ \A port \in Ports :
        /\ PortType(port) \in {"node", "local", "global"}
        /\ PortType(port) = "node" <=> port \in 0..(P - 1)
        /\ PortType(port) = "local" <=> \E k \in 0..(A - 2) : port = LocalOffset + k
        /\ PortType(port) = "global" <=> \E k \in 0..(H - 1) : port = GlobalOffset + k
        /\ PortType(port) # "node" <=> port \in LinkPorts
<1>1. LinkPorts \subseteq Ports
  BY DEF LinkPorts, Ports
<1>2. ASSUME NEW port \in Ports
      PROVE  /\ PortType(port) \in {"node", "local", "global"}
             /\ PortType(port) = "node" <=> port \in 0..(P - 1)
             /\ PortType(port) # "node" <=> port \in LinkPorts
  BY DEF Ports, LinkPorts, PortType, LocalOffset, GlobalOffset
<1>3. ASSUME NEW port \in Ports
      PROVE  PortType(port) = "local" <=> \E k \in 0..(A - 2) : port = LocalOffset + k
  <2>1. ASSUME PortType(port) = "local"
        PROVE  port - P \in 0..(A - 2) /\ port = LocalOffset + (port - P)
    BY <2>1 DEF Ports, PortType, LocalOffset, GlobalOffset
  <2>2. ASSUME NEW k \in 0..(A - 2), port = LocalOffset + k
        PROVE  PortType(port) = "local"
    BY <2>2 DEF Ports, PortType, LocalOffset, GlobalOffset
  <2> QED BY <2>1, <2>2
<1>4. ASSUME NEW port \in Ports
      PROVE  PortType(port) = "global" <=> \E k \in 0..(H - 1) : port = GlobalOffset + k
  <2>1. ASSUME PortType(port) = "global"
        PROVE  port - GlobalOffset \in 0..(H - 1) /\ port = GlobalOffset + (port - GlobalOffset)
    BY <2>1 DEF Ports, PortType, LocalOffset, GlobalOffset
  <2>2. ASSUME NEW k \in 0..(H - 1), port = GlobalOffset + k
        PROVE  PortType(port) = "global"
    BY <2>2 DEF Ports, PortType, LocalOffset, GlobalOffset
  <2> QED BY <2>1, <2>2
<1> QED BY <1>1, <1>2, <1>3, <1>4

LEMMA LocalPortType ==
  ASSUME NEW k \in 0..(A - 2)
  PROVE  LocalOffset + k \in LinkPorts /\ PortType(LocalOffset + k) = "local"
BY DEF LinkPorts, PortType, LocalOffset, GlobalOffset

LEMMA GlobalPortType ==
  ASSUME NEW k \in 0..(H - 1)
  PROVE  GlobalOffset + k \in LinkPorts /\ PortType(GlobalOffset + k) = "global"
BY DEF LinkPorts, PortType, LocalOffset, GlobalOffset

-----------------------------------------------------------------------------
(* The group a global link of group h leads to (Neighbor's g).             *)
OtherGroup(layout, h, link) ==
    IF layout THEN (h - (link + 1)) % (A * H + 1)
    ELSE IF link >= h THEN link + 1 ELSE link

(* Global links and groups correspond, seen from either end of a link.     *)
LEMMA GroupLinkTo ==
  ASSUME NEW layout \in BOOLEAN, NEW h \in Groups, NEW g \in Groups, g # h
  PROVE  /\ GroupLink(layout, h, g) \in GroupLinks
         /\ OtherGroup(layout, h, GroupLink(layout, h, g)) = g
<1> DEFINE N == A * H + 1
<1>1. N \in Nat \ {0} /\ Groups = 0..(N - 1) /\ GroupLinks = 0..(N - 2)
  BY Sizes DEF GroupLinks
<1>2. GroupLink(layout, h, g) = IF layout THEN ((h - g) % N) - 1
                                ELSE IF g > h THEN g - 1 ELSE g
  BY DEF GroupLink
<1>3. \A link : OtherGroup(layout, h, link) =
          IF layout THEN (h - (link + 1)) % N ELSE IF link >= h THEN link + 1 ELSE link
  BY DEF OtherGroup
<1> HIDE DEF N
<1>4. h \in 0..(N - 1) /\ g \in 0..(N - 1)
  BY <1>1
<1>5. CASE layout
  <2> DEFINE steps == (h - g) % N
  <2>1. steps \in 0..(N - 1) /\ steps # 0
    BY <1>1, <1>4, ModDifference
  <2>2. (h - steps) % N = g
    BY <1>1, <1>4, ModBack
  <2>3. GroupLink(layout, h, g) = steps - 1
    BY <1>2, <1>5
  <2> HIDE DEF steps
  <2>4. steps - 1 \in 0..(N - 2) /\ (steps - 1) + 1 = steps
    BY <1>1, <2>1
  <2>5. OtherGroup(layout, h, steps - 1) = (h - ((steps - 1) + 1)) % N
    BY <1>3, <1>5
  <2> QED BY <1>1, <2>2, <2>3, <2>4, <2>5
<1>6. CASE ~layout
  BY <1>1, <1>2, <1>3, <1>4, <1>6
<1> QED BY <1>5, <1>6

LEMMA GroupLinkFrom ==
  ASSUME NEW layout \in BOOLEAN, NEW h \in Groups, NEW link \in GroupLinks
  PROVE  /\ OtherGroup(layout, h, link) \in Groups \ {h}
         /\ GroupLink(layout, h, OtherGroup(layout, h, link)) = link
<1> DEFINE N == A * H + 1
           g == OtherGroup(layout, h, link)
<1>1. N \in Nat \ {0} /\ Groups = 0..(N - 1) /\ GroupLinks = 0..(N - 2)
  BY Sizes DEF GroupLinks
<1>2. GroupLink(layout, h, g) = IF layout THEN ((h - g) % N) - 1
                                ELSE IF g > h THEN g - 1 ELSE g
  BY DEF GroupLink
<1>3. g = IF layout THEN (h - (link + 1)) % N ELSE IF link >= h THEN link + 1 ELSE link
  BY DEF OtherGroup
<1> HIDE DEF N, g
<1>4. h \in 0..(N - 1) /\ link \in 0..(N - 2)
  BY <1>1
<1>5. CASE layout
  <2>1. g = (h - (link + 1)) % N /\ link + 1 \in 1..(N - 1) /\ link + 1 \in 0..(N - 1)
    BY <1>1, <1>3, <1>4, <1>5
  <2>2. (h - g) % N = link + 1
    BY <1>1, <1>4, <2>1, ModBack
  <2>3. g \in 0..(N - 1)
    BY <1>1, <1>4, <2>1, ModDifference
  <2>4. g # h
    <3>1. g = IF h >= link + 1 THEN h - (link + 1) ELSE h - (link + 1) + N
      BY <1>1, <1>4, <2>1, ModDifference
    <3> QED BY <1>1, <1>4, <2>1, <3>1
  <2>5. GroupLink(layout, h, g) = ((h - g) % N) - 1
    BY <1>2, <1>5
  <2>6. GroupLink(layout, h, g) = link
    BY <1>4, <2>2, <2>5
  <2> QED BY <1>1, <2>3, <2>4, <2>6 DEF g
<1>6. CASE ~layout
  BY <1>1, <1>2, <1>3, <1>4, <1>6 DEF g
<1> QED BY <1>5, <1>6

(* What is at the other end of a port.                                     *)
LEMMA NeighborLocal ==
  ASSUME NEW layout, NEW s \in Switches, NEW k \in 0..(A - 2)
  PROVE  Neighbor(layout, s, LocalOffset + k) =
             hPos(s) * A + (IF k >= aPos(s) THEN k + 1 ELSE k)
<1>1. (LocalOffset + k) - LocalOffset = k /\ PortType(LocalOffset + k) = "local"
  BY LocalPortType DEF LocalOffset
<1> QED BY <1>1 DEF Neighbor

LEMMA LinkOfPort ==
  ASSUME NEW a \in 0..(A - 1), NEW k \in 0..(H - 1)
  PROVE  /\ a * H + k \in GroupLinks
         /\ (a * H + k) \div H = a /\ (a * H + k) % H = k
<1>1. a * H + k \in 0..(H * A - 1) /\ H * A = A * H
  BY RowBelow
<1>2. (a * H + k) \div H = a /\ (a * H + k) % H = k
  BY DivUnique
<1> QED BY <1>1, <1>2 DEF GroupLinks

LEMMA PortOfLink ==
  ASSUME NEW link \in GroupLinks
  PROVE  /\ link \div H \in 0..(A - 1) /\ link % H \in 0..(H - 1)
         /\ link = (link \div H) * H + (link % H)
<1>1. H * A = A * H
  OBVIOUS
<1>2. link \in 0..(H * A - 1) /\ link \in Nat
  BY <1>1, Sizes DEF GroupLinks
<1> QED BY <1>2, DivBelow, DivMod

LEMMA NeighborGlobal ==
  ASSUME NEW layout \in BOOLEAN, NEW s \in Switches, NEW k \in 0..(H - 1)
  PROVE  LET g == OtherGroup(layout, hPos(s), aPos(s) * H + k)
         IN  Neighbor(layout, s, GlobalOffset + k) =
                 g * A + (GroupLink(layout, g, hPos(s)) \div H)
<1> DEFINE h == hPos(s)
           link == aPos(s) * H + k
           g == OtherGroup(layout, h, link)
<1>1. PortType(GlobalOffset + k) = "global"
  BY GlobalPortType
<1>2. aPos(s) \in Nat /\ aPos(s) * H \in Nat
  BY SwitchParts
<1>3. aPos(s) * H + (GlobalOffset + k) - GlobalOffset = link
  BY <1>2 DEF GlobalOffset
<1>4. g = IF layout THEN (h - (link + 1)) % (A * H + 1)
          ELSE IF link >= h THEN link + 1 ELSE link
  BY DEF OtherGroup
<1>5. GroupLink(layout, g, h) = IF layout THEN ((g - h) % (A * H + 1)) - 1
                                ELSE IF h > g THEN h - 1 ELSE h
  BY DEF GroupLink
<1> HIDE DEF link
<1>6. Neighbor(layout, s, GlobalOffset + k) =
          g * A + (IF layout THEN (((g - h) % (A * H + 1)) - 1) \div H
                   ELSE IF h < g THEN h \div H ELSE (h - 1) \div H)
  BY <1>1, <1>3, <1>4 DEF Neighbor
<1>7. h \in Int /\ g \in Int
  <2>1. link \in GroupLinks /\ h \in Groups
    BY LinkOfPort, SwitchParts DEF link
  <2>2. g \in Groups
    BY <2>1, GroupLinkFrom
  <2> QED BY <2>1, <2>2, Sizes
<1>8. (IF h < g THEN h \div H ELSE (h - 1) \div H) = (IF h > g THEN h - 1 ELSE h) \div H
         \/ g = h
  BY <1>7
<1> QED BY <1>5, <1>6, <1>7, <1>8, GroupLinkFrom, LinkOfPort, SwitchParts DEF link

LEMMA EntryLocal ==
  ASSUME NEW layout, NEW s \in Switches, NEW t \in Switches,
         hPos(t) = hPos(s), aPos(t) # aPos(s)
  PROVE  MinInputPort(layout, s, t * P) = LocalPort(aPos(t), aPos(s))
<1>1. SwitchOf(t * P) = t
  BY FirstNode
<1>2. NextA(layout, s, t * P) = aPos(t)
  BY <1>1 DEF NextA
<1> QED BY <1>2 DEF MinInputPort

LEMMA EntryGlobal ==
  ASSUME NEW layout, NEW s \in Switches, NEW t \in Switches, hPos(t) # hPos(s),
         GroupLink(layout, hPos(s), hPos(t)) \div H = aPos(s)
  PROVE  MinInputPort(layout, s, t * P) =
             GlobalOffset + (GroupLink(layout, hPos(t), hPos(s)) % H)
<1>1. SwitchOf(t * P) = t
  BY FirstNode
<1>2. NextA(layout, s, t * P) = aPos(s)
  BY <1>1 DEF NextA
<1> QED BY <1>1, <1>2 DEF MinInputPort

LEMMA Tables ==
  ASSUME NEW layout \in BOOLEAN, NEW s \in Switches
  PROVE  /\ \A port \in LinkPorts :
               /\ neighList[layout][s][port] = Neighbor(layout, s, port)
               /\ neighPort[layout][s][port] =
                      MinInputPort(layout, s, neighList[layout][s][port] * P)
         /\ \A n \in Nodes : minTable[layout][s][n] = MinOutputPort(layout, s, n)
<1>1. \A port \in LinkPorts : neighList[layout][s][port] = Neighbor(layout, s, port)
  BY DEF neighList
<1>2. \A port \in LinkPorts : neighPort[layout][s][port] =
                  MinInputPort(layout, s, neighList[layout][s][port] * P)
  BY DEF neighPort
<1>3. \A n \in Nodes : minTable[layout][s][n] = MinOutputPort(layout, s, n)
  BY DEF minTable
<1> QED BY <1>1, <1>2, <1>3

(* The switch the port leads to, and the port there that leads back.       *)
LEMMA LocalLink ==
  ASSUME NEW layout \in BOOLEAN, NEW s \in Switches, NEW c \in 0..(A - 1), c # aPos(s)
  PROVE  LET port == LocalPort(aPos(s), c)
             t == hPos(s) * A + c
         IN  /\ port \in LinkPorts /\ PortType(port) = "local"
             /\ t \in Switches /\ hPos(t) = hPos(s) /\ aPos(t) = c
             /\ neighList[layout][s][port] = t
             /\ neighPort[layout][s][port] = LocalPort(c, aPos(s))
<1> DEFINE a == aPos(s)
           k == IF c > a THEN c - 1 ELSE c
           t == hPos(s) * A + c
<1>1. a \in 0..(A - 1) /\ hPos(s) \in Groups
  BY SwitchParts
<1>2. k \in 0..(A - 2) /\ LocalPort(a, c) = LocalOffset + k
      /\ (IF k >= a THEN k + 1 ELSE k) = c
  BY <1>1 DEF LocalPort
<1>3. t \in Switches /\ hPos(t) = hPos(s) /\ aPos(t) = c
  BY <1>1, SwitchWhole
<1> HIDE DEF k, t
<1>4. LocalOffset + k \in LinkPorts /\ PortType(LocalOffset + k) = "local"
  BY <1>2, LocalPortType
<1>5. neighList[layout][s][LocalOffset + k] = t
  BY <1>2, <1>4, NeighborLocal, Tables DEF t
<1>6. neighPort[layout][s][LocalOffset + k] = LocalPort(c, a)
  BY <1>3, <1>4, <1>5, EntryLocal, Tables
<1> QED BY <1>2, <1>3, <1>4, <1>5, <1>6 DEF t

LEMMA GlobalLink ==
  ASSUME NEW layout \in BOOLEAN, NEW s \in Switches, NEW g \in Groups, g # hPos(s),
         GroupLink(layout, hPos(s), g) \div H = aPos(s)
  PROVE  LET port == GlobalOffset + (GroupLink(layout, hPos(s), g) % H)
             back == GroupLink(layout, g, hPos(s))
             t == g * A + (back \div H)
         IN  /\ port \in LinkPorts /\ PortType(port) = "global"
             /\ t \in Switches /\ hPos(t) = g /\ aPos(t) = back \div H
             /\ neighList[layout][s][port] = t
             /\ neighPort[layout][s][port] = GlobalOffset + (back % H)
<1> DEFINE h == hPos(s)
           link == GroupLink(layout, h, g)
           k == link % H
           back == GroupLink(layout, g, h)
           t == g * A + (back \div H)
<1>1. h \in Groups
  BY SwitchParts
<1>2. link \in GroupLinks /\ OtherGroup(layout, h, link) = g /\ back \in GroupLinks
  BY <1>1, GroupLinkTo
<1>3. k \in 0..(H - 1) /\ link = aPos(s) * H + k
  BY <1>2, PortOfLink
<1>4. back \div H \in 0..(A - 1)
  BY <1>2, PortOfLink
<1>5. t \in Switches /\ hPos(t) = g /\ aPos(t) = back \div H
  BY <1>4, SwitchWhole
<1> HIDE DEF k, t
<1>6. GlobalOffset + k \in LinkPorts /\ PortType(GlobalOffset + k) = "global"
  BY <1>3, GlobalPortType
<1>7. neighList[layout][s][GlobalOffset + k] = t
  BY <1>2, <1>3, <1>6, NeighborGlobal, Tables DEF t
<1>8. neighPort[layout][s][GlobalOffset + k] = GlobalOffset + (back % H)
  BY <1>5, <1>6, <1>7, EntryGlobal, Tables
<1> QED BY <1>5, <1>6, <1>7, <1>8 DEF k, t

(* Whatever leaves by a port comes back by the port it came in by: each of *)
(* The neighbour's port for a link of a switch leads back to that switch   *)
(* and that port, and is of the same kind.                                 *)
LeadsBack(layout, s, port) ==
    LET next == neighList[layout][s][port]
        nextP == neighPort[layout][s][port]
    IN  /\ next \in Switches /\ nextP \in LinkPorts
        /\ PortType(nextP) = PortType(port)
        /\ neighList[layout][next][nextP] = s
        /\ neighPort[layout][next][nextP] = port

(* the two formulas for the ports of a link is the other one's inverse.    *)
LEMMA LinksBothWays ==
  ASSUME NEW layout \in BOOLEAN, NEW s \in Switches, NEW port \in LinkPorts
  PROVE  LeadsBack(layout, s, port)
<1>1. port \in Ports /\ PortType(port) \in {"local", "global"}
  BY PortKinds
<1>2. s = hPos(s) * A + aPos(s) /\ hPos(s) \in Groups /\ aPos(s) \in 0..(A - 1)
  BY SwitchParts
<1>3. CASE PortType(port) = "local"
  <2>1. PICK k \in 0..(A - 2) : port = LocalOffset + k
    BY <1>1, <1>3, PortKinds
  <2> DEFINE c == IF k >= aPos(s) THEN k + 1 ELSE k
             t == hPos(s) * A + c
  <2>2. c \in 0..(A - 1) /\ c # aPos(s) /\ port = LocalPort(aPos(s), c)
    BY <1>2, <2>1 DEF LocalPort
  <2> HIDE DEF c
  <2>3. /\ PortType(port) = "local"
        /\ t \in Switches /\ hPos(t) = hPos(s) /\ aPos(t) = c
        /\ neighList[layout][s][port] = t
        /\ neighPort[layout][s][port] = LocalPort(c, aPos(s))
    BY <2>2, LocalLink
  <2> HIDE DEF t
  <2>4. LET back == LocalPort(c, aPos(s))
        IN  /\ back \in LinkPorts /\ PortType(back) = "local"
            /\ neighList[layout][t][back] = hPos(s) * A + aPos(s)
            /\ neighPort[layout][t][back] = LocalPort(aPos(s), c)
    BY <1>2, <2>2, <2>3, LocalLink
  <2> QED BY <1>2, <2>2, <2>3, <2>4 DEF LeadsBack
<1>4. CASE PortType(port) = "global"
  <2>1. PICK k \in 0..(H - 1) : port = GlobalOffset + k
    BY <1>1, <1>4, PortKinds
  <2> DEFINE h == hPos(s)
             link == aPos(s) * H + k
             g == OtherGroup(layout, h, link)
             back == GroupLink(layout, g, h)
             t == g * A + (back \div H)
  <2>2. link \in GroupLinks /\ link \div H = aPos(s) /\ link % H = k
    BY <1>2, <2>1, LinkOfPort
  <2>3. g \in Groups /\ g # h /\ GroupLink(layout, h, g) = link
    BY <1>2, <2>2, GroupLinkFrom
  <2> HIDE DEF link, g
  <2>4. /\ t \in Switches /\ hPos(t) = g /\ aPos(t) = back \div H
        /\ neighList[layout][s][port] = t
        /\ neighPort[layout][s][port] = GlobalOffset + (back % H)
    BY <2>1, <2>2, <2>3, GlobalLink
  <2> HIDE DEF t
  <2>5. LET there == GlobalOffset + (back % H)
        IN  /\ there \in LinkPorts /\ PortType(there) = "global"
            /\ neighList[layout][t][there] = h * A + (GroupLink(layout, h, g) \div H)
            /\ neighPort[layout][t][there] = GlobalOffset + (GroupLink(layout, h, g) % H)
    BY <1>2, <2>3, <2>4, GlobalLink
  <2> QED BY <1>2, <1>4, <2>1, <2>2, <2>3, <2>4, <2>5 DEF LeadsBack
<1> QED BY <1>1, <1>3, <1>4

-----------------------------------------------------------------------------
(* How near switch s is to node n on the minimal path: at its switch, in   *)
(* its group, at the switch with the link to its group, or none of these.  *)
Near(layout, s, n) ==
    IF s = SwitchOf(n) THEN 3
    ELSE IF hPos(s) = hPos(SwitchOf(n)) THEN 2
    ELSE IF NextA(layout, s, n) = aPos(s) THEN 1 ELSE 0

(* The table leads one hop nearer, by a link of the kind that is due.      *)
LeadsNearer(layout, s, n) ==
    LET out == minTable[layout][s][n]
        next == neighList[layout][s][out]
        near == Near(layout, s, n)
    IN  /\ near \in 0..3 /\ out \in Ports
        /\ near = 3 => PortType(out) = "node" /\ out = n % P
        /\ near # 3 =>
             /\ out \in LinkPorts
             /\ PortType(out) = IF near = 1 THEN "global" ELSE "local"
             /\ Near(layout, next, n) \in (near + 1)..3
             /\ hPos(next) = hPos(IF near = 1 THEN SwitchOf(n) ELSE s)

LEMMA NearOfNext ==
  ASSUME NEW layout \in BOOLEAN, NEW s \in Switches, NEW n \in Nodes
  PROVE  LeadsNearer(layout, s, n)
<1> DEFINE out == minTable[layout][s][n]
           t == SwitchOf(n)
           h == hPos(s)
           g == hPos(t)
<1>1. /\ t \in Switches /\ n % P \in 0..(P - 1)
      /\ h \in Groups /\ g \in Groups /\ aPos(s) \in 0..(A - 1) /\ aPos(t) \in 0..(A - 1)
      /\ s = h * A + aPos(s) /\ t = g * A + aPos(t)
  BY NodeParts, SwitchParts
<1>2. out = MinOutputPort(layout, s, n)
  BY Tables
<1> HIDE DEF out
<1>3. CASE s = t
  <2>1. NextA(layout, s, n) = aPos(s) /\ g = h
    BY <1>3 DEF NextA
  <2>2. out = n % P
    BY <1>2, <2>1 DEF MinOutputPort
  <2>3. n % P \in Ports /\ PortType(n % P) = "node"
    BY <1>1 DEF Ports, PortType, LocalOffset
  <2> QED BY <1>3, <2>2, <2>3 DEF Near, out, LeadsNearer
<1>4. CASE s # t /\ g = h
  <2>1. NextA(layout, s, n) = aPos(t) /\ aPos(t) # aPos(s)
    BY <1>1, <1>4 DEF NextA
  <2>2. out = LocalPort(aPos(s), aPos(t))
    BY <1>2, <2>1 DEF MinOutputPort
  <2>3. out \in LinkPorts /\ PortType(out) = "local" /\ neighList[layout][s][out] = t
    BY <1>1, <1>4, <2>1, <2>2, LocalLink
  <2>4. Near(layout, s, n) = 2 /\ Near(layout, t, n) = 3
    BY <1>4 DEF Near
  <2> QED BY <1>4, <2>3, <2>4, PortKinds DEF out, LeadsNearer
<1> DEFINE link == GroupLink(layout, h, g)
<1>5. CASE g # h /\ link \div H = aPos(s)
  <2>1. NextA(layout, s, n) = aPos(s)
    BY <1>5 DEF NextA
  <2>2. out = GlobalOffset + (link % H)
    BY <1>2, <1>5, <2>1 DEF MinOutputPort
  <2>3. /\ out \in LinkPorts /\ PortType(out) = "global"
        /\ hPos(neighList[layout][s][out]) = g
    BY <1>1, <1>5, <2>2, GlobalLink
  <2>4. Near(layout, s, n) = 1 /\ Near(layout, neighList[layout][s][out], n) \in {2, 3}
    BY <1>5, <2>1, <2>3 DEF Near
  <2> QED BY <2>3, <2>4, PortKinds DEF out, LeadsNearer
<1>6. CASE g # h /\ link \div H # aPos(s)
  <2> DEFINE c == link \div H
             next == h * A + c
  <2>1. NextA(layout, s, n) = c
    BY <1>6 DEF NextA
  <2>2. c \in 0..(A - 1)
    BY <1>1, <1>6, GroupLinkTo, PortOfLink
  <2>3. out = LocalPort(aPos(s), c)
    BY <1>2, <1>6, <2>1 DEF MinOutputPort
  <2>4. /\ out \in LinkPorts /\ PortType(out) = "local"
        /\ neighList[layout][s][out] = next
        /\ hPos(next) = h /\ aPos(next) = c
    BY <1>1, <1>6, <2>2, <2>3, LocalLink
  <2>5. NextA(layout, next, n) = c
    BY <1>6, <2>4 DEF NextA
  <2> HIDE DEF c, next
  <2>6. Near(layout, s, n) = 0
    BY <1>6, <2>1 DEF Near, c
  <2>7. Near(layout, next, n) = 1
    BY <1>6, <2>4, <2>5 DEF Near
  <2> QED BY <2>4, <2>6, <2>7, PortKinds DEF out, LeadsNearer
<1> QED BY <1>3, <1>4, <1>5, <1>6

-----------------------------------------------------------------------------
(* The sequences of hops.                                                  *)
LEMMA HopSequences ==
  /\ Routings \subseteq DOMAIN hopSeq
  /\ hopSeq["min"] = <<"local", "global", "local">>
  /\ hopSeq["val"] = <<"local", "global", "local", "global", "local">>
  /\ hopSeq["valAny"] = <<"local", "global", "local", "local", "global", "local">>
BY DEF hopSeq, Routings

LEMMA HopTypes ==
  ASSUME NEW r \in Routings
  PROVE  /\ DOMAIN typeVc[r] = 1..Len(typeVc[r])
         /\ Len(typeVc[r]) = IF r = "min" THEN 3 ELSE IF r = "val" THEN 5 ELSE 6
         /\ \A i \in 1..Len(typeVc[r]) : typeVc[r][i] \in {"local", "global"}
         /\ \A i \in 1..Len(typeVc[r]) : typeVc[r][i] = hopSeq[r][i]
<1>1. typeVc[r] = [i \in DOMAIN hopSeq[r] |-> KindOf(hopSeq[r][i])]
  BY HopSequences DEF typeVc
<1>2. /\ hopSeq[r] \in Seq({"local", "global"})
      /\ Len(hopSeq[r]) = IF r = "min" THEN 3 ELSE IF r = "val" THEN 5 ELSE 6
  <2>1. CASE r = "min"
    BY <2>1, HopSequences
  <2>2. CASE r = "val"
    BY <2>2, HopSequences
  <2>3. CASE r = "valAny"
    BY <2>3, HopSequences
  <2> QED BY <2>1, <2>2, <2>3 DEF Routings
<1> HIDE DEF typeVc, hopSeq
<1>3. /\ DOMAIN hopSeq[r] = 1..Len(hopSeq[r]) /\ Len(hopSeq[r]) \in Nat
      /\ \A i \in 1..Len(hopSeq[r]) : hopSeq[r][i] \in {"local", "global"}
  BY <1>2, LenProperties, ElementOfSeq
<1>4. \A kind \in {"local", "global"} : KindOf(kind) = kind
  BY DEF KindOf
<1>5. typeVc[r] \in [1..Len(hopSeq[r]) -> {"local", "global"}]
  BY <1>1, <1>3, <1>4
<1>6. Len(typeVc[r]) = Len(hopSeq[r])
  <2>1. typeVc[r] \in Seq({"local", "global"})
    BY <1>3, <1>5, IsASeq
  <2>2. DOMAIN typeVc[r] = 1..Len(typeVc[r]) /\ Len(typeVc[r]) \in Nat
    BY <2>1, LenProperties
  <2>3. DOMAIN typeVc[r] = 1..Len(hopSeq[r])
    BY <1>5
  <2> QED BY <1>3, <2>2, <2>3
<1>7. \A i \in 1..Len(hopSeq[r]) : typeVc[r][i] = hopSeq[r][i]
  BY <1>1, <1>3, <1>4
<1> QED BY <1>2, <1>3, <1>5, <1>6, <1>7

(* The hops of a path, near by near, are the first three of the sequence   *)
(* and, behind the Valiant node, the last three.                           *)
LEMMA HopsInOrder ==
  ASSUME NEW r \in Routings, NEW rest \in {0, Len(typeVc[r]) - 3}, NEW n \in 0..2
  PROVE  /\ rest + n + 1 \in 1..Len(typeVc[r])
         /\ typeVc[r][rest + n + 1] = IF n = 1 THEN "global" ELSE "local"
<1>1. /\ Len(typeVc[r]) = IF r = "min" THEN 3 ELSE IF r = "val" THEN 5 ELSE 6
      /\ \A i \in 1..Len(typeVc[r]) : typeVc[r][i] = hopSeq[r][i]
  BY HopTypes
<1>2. CASE r = "min"
  BY <1>1, <1>2, HopSequences
<1>3. CASE r = "val"
  BY <1>1, <1>3, HopSequences
<1>4. CASE r = "valAny"
  BY <1>1, <1>4, HopSequences
<1> QED BY <1>2, <1>3, <1>4 DEF Routings

(* The hops of a kind, and the channels of petitions or of responses.      *)
HopsOfKind(r, kind) == {i \in DOMAIN typeVc[r] : typeVc[r][i] = kind}
VcOf(r, response) == IF response THEN responseVc[r] ELSE petitionVc[r]

LEMMA FiniteUpTo == \A n \in Nat : IsFiniteSet(1..n)
BY FS_Interval

LEMMA FewerIn ==
  ASSUME NEW S, NEW T \in SUBSET S, IsFiniteSet(S), T # S
  PROVE  Cardinality(T) < Cardinality(S)
<1>1. Cardinality(S) \in Nat /\ Cardinality(T) \in Nat
  BY FS_Subset, FS_CardinalityType
<1> QED BY <1>1, FS_Subset

LEMMA ChannelNumbers ==
  ASSUME NEW r \in Routings, NEW i \in 1..Len(typeVc[r])
  PROVE  LET most == Cardinality(HopsOfKind(r, typeVc[r][i]))
         IN  /\ most \in Nat /\ petitionVc[r][i] \in 0..(most - 1)
             /\ responseVc[r][i] = petitionVc[r][i] + most
             /\ \A j \in 1..Len(typeVc[r]) :
                   typeVc[r][j] = typeVc[r][i] /\ j > i => petitionVc[r][j] > petitionVc[r][i]
<1> DEFINE Earlier(l) == {j \in 1..(l - 1) : typeVc[r][j] = typeVc[r][l]}
           All == HopsOfKind(r, typeVc[r][i])
           n == Len(typeVc[r])
<1>1. DOMAIN typeVc[r] = 1..n /\ n \in Nat /\ r \in DOMAIN hopSeq
  BY HopTypes, HopSequences DEF Routings
<1>2. /\ \A l \in 1..n : petitionVc[r][l] = Cardinality(Earlier(l))
      /\ responseVc[r][i] = petitionVc[r][i] + Cardinality(All)
  <2>1. \A l \in 1..n : petitionVc[r][l] = Cardinality(Earlier(l))
    BY <1>1 DEF petitionVc
  <2>2. responseVc[r][i] = petitionVc[r][i] + Cardinality(All)
    BY <1>1 DEF responseVc, HopsOfKind
  <2> QED BY <2>1, <2>2
<1>3. IsFiniteSet(1..n)
  BY <1>1, FiniteUpTo
<1>4. IsFiniteSet(All)
  BY <1>1, <1>3, FS_Subset DEF HopsOfKind
<1>5. Cardinality(All) \in Nat
  BY <1>4, FS_CardinalityType
<1>6. \A l \in 1..n : IsFiniteSet(Earlier(l)) /\ Earlier(l) \subseteq 1..n
  BY <1>3, FS_Subset
<1>7. \A l \in 1..n : petitionVc[r][l] \in Nat
  BY <1>2, <1>6, FS_CardinalityType
<1>8. petitionVc[r][i] < Cardinality(All)
  <2>1. Earlier(i) \subseteq All /\ i \in All /\ i \notin Earlier(i)
    BY <1>1 DEF HopsOfKind
  <2>2. Earlier(i) # All
    BY <2>1
  <2> HIDE DEF All, Earlier
  <2>3. Cardinality(Earlier(i)) < Cardinality(All)
    BY <1>4, <2>1, <2>2, FewerIn
  <2> QED BY <1>2, <2>3
<1>9. ASSUME NEW j \in 1..n, typeVc[r][j] = typeVc[r][i], j > i
      PROVE  petitionVc[r][j] > petitionVc[r][i]
  <2>1. Earlier(i) \subseteq Earlier(j) /\ i \in Earlier(j) /\ i \notin Earlier(i)
    BY <1>1, <1>9
  <2>2. Earlier(i) # Earlier(j)
    BY <2>1
  <2> HIDE DEF Earlier
  <2>3. Cardinality(Earlier(i)) < Cardinality(Earlier(j))
    BY <1>6, <2>1, <2>2, FewerIn
  <2> QED BY <1>2, <1>7, <2>3
<1> QED BY <1>2, <1>5, <1>7, <1>8, <1>9

(* Each hop has a channel of its own that the links have.                  *)
LEMMA ChannelOfHop ==
  ASSUME NEW r \in Routings, NEW response \in BOOLEAN, NEW i \in 1..Len(typeVc[r])
  PROVE  /\ VcOf(r, response)[i] \in Channels
         /\ typeVc[r][i] = "local" => VcOf(r, response)[i] < LocalChannels
         /\ typeVc[r][i] = "global" => VcOf(r, response)[i] < GlobalChannels
         /\ \A other \in BOOLEAN, j \in 1..Len(typeVc[r]) :
               typeVc[r][j] = typeVc[r][i] /\ VcOf(r, other)[j] = VcOf(r, response)[i]
                   => other = response /\ j = i
<1> DEFINE n == Len(typeVc[r])
           most == Cardinality(HopsOfKind(r, typeVc[r][i]))
<1>1. /\ LocalChannels >= 2 * Cardinality(HopsOfKind(r, "local"))
      /\ GlobalChannels >= 2 * Cardinality(HopsOfKind(r, "global"))
  BY LengthsAssumption DEF HopsOfKind
<1>2. /\ most \in Nat /\ petitionVc[r][i] \in 0..(most - 1)
      /\ responseVc[r][i] = petitionVc[r][i] + most
  BY ChannelNumbers
<1>3. LocalChannels \in Nat \ {0} /\ GlobalChannels \in Nat \ {0}
  BY ChannelsAssumption
<1>4. typeVc[r][i] \in {"local", "global"} /\ n \in Nat
  BY HopTypes
<1>5. ASSUME NEW other \in BOOLEAN, NEW j \in 1..n,
             typeVc[r][j] = typeVc[r][i], VcOf(r, other)[j] = VcOf(r, response)[i]
      PROVE  other = response /\ j = i
  <2>1. /\ petitionVc[r][j] \in 0..(most - 1)
        /\ responseVc[r][j] = petitionVc[r][j] + most
    BY <1>5, ChannelNumbers
  <2>2. /\ ~(j > i /\ petitionVc[r][j] <= petitionVc[r][i])
        /\ ~(i > j /\ petitionVc[r][i] <= petitionVc[r][j])
    BY <1>2, <1>5, <2>1, ChannelNumbers
  <2> HIDE DEF most
  <2>3. (other <=> response) /\ petitionVc[r][j] = petitionVc[r][i]
    BY <1>2, <1>5, <2>1, SMTT(60) DEF VcOf
  <2> QED BY <1>2, <1>4, <2>2, <2>3
<1> HIDE DEF most
<1>6. VcOf(r, response)[i] \in 0..(2 * most - 1)
  BY <1>2 DEF VcOf
<1>7. CASE typeVc[r][i] = "local"
  BY <1>1, <1>2, <1>3, <1>5, <1>6, <1>7 DEF Channels, most
<1>8. CASE typeVc[r][i] = "global"
  BY <1>1, <1>2, <1>3, <1>5, <1>6, <1>8 DEF Channels, most
<1> QED BY <1>4, <1>7, <1>8

(* A flit in the channel has made the i-th hop, or, for 0, none.           *)
Made(r, response, port, vc, i) ==
    HopsOf(r, VcOf(r, response), port, vc) = IF i = 0 THEN {} ELSE {i}

(* The place in the sequence is told from the port and the channel.        *)
LEMMA HopOfChannel ==
  ASSUME NEW r \in Routings, NEW response \in BOOLEAN, NEW i \in 1..Len(typeVc[r]),
         NEW port \in Ports, PortType(port) = typeVc[r][i],
         NEW vc, vc = VcOf(r, response)[i]
  PROVE  Made(r, response, port, vc, i)
<1>1. DOMAIN typeVc[r] = 1..Len(typeVc[r])
  BY HopTypes
<1>2. ASSUME NEW j \in HopsOf(r, VcOf(r, response), port, vc)
      PROVE  j = i
  <2>1. /\ j \in 1..Len(typeVc[r]) /\ typeVc[r][j] = typeVc[r][i]
        /\ VcOf(r, response)[j] = VcOf(r, response)[i]
    BY <1>1 DEF HopsOf
  <2> QED BY <2>1, ChannelOfHop
<1>3. i \in HopsOf(r, VcOf(r, response), port, vc)
  BY <1>1 DEF HopsOf
<1>4. HopsOf(r, VcOf(r, response), port, vc) = {i} /\ i # 0
  BY <1>2, <1>3
<1> QED BY <1>4 DEF Made

NoneMade(r, response, port, vc) == HopsOf(r, VcOf(r, response), port, vc) = {}

LEMMA NotOfTheOther ==
  ASSUME NEW r \in Routings, NEW response \in BOOLEAN, NEW i \in 1..Len(typeVc[r]),
         NEW port \in Ports, PortType(port) = typeVc[r][i],
         NEW vc, vc = VcOf(r, response)[i], NEW other \in BOOLEAN, other # response
  PROVE  NoneMade(r, other, port, vc)
<1>1. DOMAIN typeVc[r] = 1..Len(typeVc[r])
  BY HopTypes
<1>2. ASSUME NEW j \in HopsOf(r, VcOf(r, other), port, vc)
      PROVE  FALSE
  <2>1. /\ j \in 1..Len(typeVc[r]) /\ typeVc[r][j] = typeVc[r][i]
        /\ VcOf(r, other)[j] = VcOf(r, response)[i]
    BY <1>1 DEF HopsOf
  <2> QED BY <2>1, ChannelOfHop
<1> QED BY <1>2 DEF NoneMade

LEMMA NoHopAtNode ==
  ASSUME NEW r \in Routings, NEW aux, NEW port, NEW vc, PortType(port) = "node"
  PROVE  HopsOf(r, aux, port, vc) = {}
BY HopTypes DEF HopsOf

(* The channel for the next hop is that of a hop of its kind, and of none  *)
(* behind the first one there is.                                          *)
LEMMA NextHop ==
  ASSUME NEW r \in Routings, NEW response \in BOOLEAN, NEW port \in Ports,
         NEW out \in LinkPorts, NEW vc \in Channels,
         NEW i \in 0..Len(typeVc[r]), NEW j \in 1..Len(typeVc[r]), i < j,
         Made(r, response, port, vc, i), typeVc[r][j] = PortType(out)
  PROVE  \E k \in 1..j : /\ i < k /\ typeVc[r][k] = PortType(out)
                         /\ nextChannel[r][response][port][out][vc] = VcOf(r, response)[k]
<1> DEFINE aux == VcOf(r, response)
           later == {k \in DOMAIN typeVc[r] : /\ typeVc[r][k] = PortType(out)
                                              /\ \A l \in HopsOf(r, aux, port, vc) : k > l}
           first == CHOOSE k \in later : \A l \in later : k <= l
<1>1. DOMAIN typeVc[r] = 1..Len(typeVc[r]) /\ Len(typeVc[r]) \in Nat
  BY HopTypes
<1>2. later \in SUBSET Nat /\ j \in later
  BY <1>1 DEF Made
<1>3. first \in later /\ \A l \in later : first <= l
  <2> HIDE DEF later
  <2>1. \E k \in later : \A l \in later : k <= l
    BY <1>2, NatMinimum
  <2> QED BY <2>1
<1>4. first \in 1..j /\ i < first /\ typeVc[r][first] = PortType(out)
  <2>1. first <= j /\ first \in 1..Len(typeVc[r]) /\ typeVc[r][first] = PortType(out)
    BY <1>1, <1>2, <1>3
  <2>2. i < first
    <3>1. CASE i = 0
      BY <2>1, <3>1
    <3>2. CASE i # 0
      <4>1. i \in HopsOf(r, aux, port, vc)
        BY <3>2 DEF Made
      <4> QED BY <1>3, <4>1
    <3> QED BY <3>1, <3>2
  <2> QED BY <2>1, <2>2
<1>5. NextChannel(r, aux, port, out, vc) = aux[first]
  BY <1>2 DEF NextChannel
<1>6. nextChannel[r][response][port][out][vc] = NextChannel(r, aux, port, out, vc)
  BY DEF nextChannel, VcOf
<1> QED BY <1>4, <1>5, <1>6

-----------------------------------------------------------------------------
(* What is true of a flit in the network, besides its types.               *)
FlitRecord ==
    [sw : Switches, port : Ports, channel : Channels,
     prevSw : Switches, prevP : Ports, type : {"PETITION", "RESPONSE"},
     source : Nodes, dest : Nodes, valId : Nodes,
     valNodeReached : BOOLEAN, hopCount : 0..6, minPathLength : 0..3]

Hops == Len(typeVc[routing])

(* The node it is on its way to, and how far it may be in the sequence of  *)
(* hops: it keeps one for every hop of the minimal path to there that is   *)
(* left, and three for what comes behind the Valiant node.                 *)
Goal(f) == IF routing = "min" \/ ValNodeReached(f) THEN f.dest ELSE f.valId
Rest(f) == IF ValNodeReached(f) THEN Hops - 3 ELSE 0
Bound(f) == Rest(f) + Near(palm, f.sw, Goal(f))

(* It came here by the i-th hop of the sequence, or from its node.         *)
At(f, i) ==
    IF PortType(f.port) = "node"
    THEN i = 0 /\ f.channel = InjectionChannel(f.type)
    ELSE /\ i \in 1..Hops /\ typeVc[routing][i] = PortType(f.port)
         /\ f.channel = VcOf(routing, Responds(f))[i]

OnTheWay(f) == \E i \in 0..Hops : At(f, i) /\ f.hopCount <= i /\ i <= Bound(f)

LinkBack(f) ==
    PortType(f.port) # "node" =>
        /\ neighList[palm][f.sw][f.port] = f.prevSw
        /\ neighPort[palm][f.sw][f.port] = f.prevP

ChannelThere(f) ==
    CASE PortType(f.port) = "local" -> f.channel < LocalChannels
      [] PortType(f.port) = "global" -> f.channel < GlobalChannels
      [] OTHER -> f.channel < 2

(* It belongs to the packet: the response to a petition goes back.         *)
Addressed(f, p) ==
    /\ f.type = "PETITION" => reactive
    /\ IF Responds(f) THEN <<f.dest, f.source>> \in Traffic[reactive, p]
                      ELSE <<f.source, f.dest>> \in Traffic[reactive, p]

AtHome(f, p) ==
    LET pair == IF reactive THEN <<f.dest, f.source>> ELSE <<f.source, f.dest>>
    IN  /\ f.sw * P + f.port = f.dest
        /\ pair \in Traffic[reactive, p]
        /\ routing # "min" => f.valNodeReached

FlitOK(f, p, st) ==
    /\ st = "network" => OnTheWay(f) /\ LinkBack(f) /\ ChannelThere(f) /\ Addressed(f, p)
    /\ st = "consumed" => AtHome(f, p)

IInv ==
    /\ palm \in BOOLEAN /\ routing \in Routings /\ reactive \in BOOLEAN
    /\ state \in [Packets -> {"source", "network", "consumed"}]
    /\ flit \in [Packets -> FlitRecord]
    /\ \A p \in Packets : \A f \in {flit[p]}, st \in {state[p]} : FlitOK(f, p, st)

-----------------------------------------------------------------------------
(* The port a flit asks for, by how near it is.                            *)
LEMMA Route ==
  ASSUME IInv, NEW f \in FlitRecord
  PROVE  LET near == Near(palm, f.sw, Goal(f))
             out == OutPort(f)
             next == neighList[palm][f.sw][out]
         IN  /\ Goal(f) \in Nodes /\ near \in 0..3 /\ out \in Ports
             /\ near = 3 => /\ PortType(out) = "node" /\ out = Goal(f) % P
                            /\ f.sw = SwitchOf(Goal(f))
             /\ near # 3 =>
                  /\ out \in LinkPorts
                  /\ PortType(out) = IF near = 1 THEN "global" ELSE "local"
                  /\ Near(palm, next, Goal(f)) \in (near + 1)..3
                  /\ hPos(next) = hPos(IF near = 1 THEN SwitchOf(Goal(f)) ELSE f.sw)
<1>1. f.sw \in Switches /\ Goal(f) \in Nodes /\ palm \in BOOLEAN
  BY DEF IInv, FlitRecord, Goal
<1>2. OutPort(f) = minTable[palm][f.sw][Goal(f)]
  BY DEF OutPort, Goal
<1>3. Near(palm, f.sw, Goal(f)) = 3 => f.sw = SwitchOf(Goal(f))
  BY DEF Near
<1>4. LeadsNearer(palm, f.sw, Goal(f))
  BY <1>1, NearOfNext
<1> QED BY <1>1, <1>2, <1>3, <1>4 DEF LeadsNearer

LEMMA HopCount ==
  ASSUME IInv
  PROVE  Hops \in 3..6 /\ Hops = IF routing = "min" THEN 3 ELSE IF routing = "val" THEN 5 ELSE 6
<1>1. routing \in Routings
  BY DEF IInv
<1>2. Len(typeVc[routing]) =
          IF routing = "min" THEN 3 ELSE IF routing = "val" THEN 5 ELSE 6
  BY <1>1, HopTypes
<1> QED BY <1>2 DEF Hops

(* There is a channel for it, further on in the sequence.                  *)
LEMMA HopFound ==
  ASSUME IInv, NEW f \in FlitRecord, NEW i \in 0..Hops, At(f, i), i <= Bound(f),
         PortType(OutPort(f)) # "node"
  PROVE  LET out == OutPort(f)
             j == Rest(f) + Near(palm, f.sw, Goal(f)) + 1
         IN  \E k \in 1..Hops : /\ i < k /\ k <= j
                 /\ typeVc[routing][k] = PortType(out)
                 /\ nextChannel[routing][Responds(f)][f.port][out][f.channel]
                        = VcOf(routing, Responds(f))[k]
<1> DEFINE near == Near(palm, f.sw, Goal(f))
           out == OutPort(f)
           rest == Rest(f)
           j == rest + near + 1
           response == Responds(f)
<1>1. /\ near \in 0..2 /\ out \in LinkPorts
      /\ PortType(out) = IF near = 1 THEN "global" ELSE "local"
  BY Route
<1>2. routing \in Routings /\ response \in BOOLEAN /\ f.port \in Ports /\ f.channel \in Channels
  BY DEF IInv, FlitRecord, Responds
<1>3. rest \in {0, Hops - 3}
  BY DEF Rest
<1> HIDE DEF near, out, rest, response
<1>4. j \in 1..Hops /\ typeVc[routing][j] = PortType(out)
  <2>1. rest \in {0, Len(typeVc[routing]) - 3}
    BY <1>3 DEF Hops
  <2>2. /\ rest + near + 1 \in 1..Len(typeVc[routing])
        /\ typeVc[routing][rest + near + 1] = IF near = 1 THEN "global" ELSE "local"
    BY <1>1, <1>2, <2>1, HopsInOrder
  <2> QED BY <1>1, <2>2 DEF Hops
<1>5. i < j
  BY HopCount, <1>1, <1>3 DEF Bound, near, rest
<1>6. Made(routing, response, f.port, f.channel, i)
  <2>1. CASE PortType(f.port) = "node"
    <3>1. i = 0
      BY <2>1 DEF At
    <3> QED BY <1>2, <2>1, <3>1, NoHopAtNode DEF Made
  <2>2. CASE PortType(f.port) # "node"
    <3>1. /\ i \in 1..Len(typeVc[routing]) /\ typeVc[routing][i] = PortType(f.port)
          /\ f.channel = VcOf(routing, response)[i]
      BY <2>2 DEF At, Hops, response
    <3> QED BY <1>2, <3>1, HopOfChannel
  <2> QED BY <2>1, <2>2
<1>7. \E k \in 1..j : /\ i < k /\ typeVc[routing][k] = PortType(out)
                      /\ nextChannel[routing][response][f.port][out][f.channel]
                             = VcOf(routing, response)[k]
  <2>1. i \in 0..Len(typeVc[routing]) /\ j \in 1..Len(typeVc[routing])
    BY <1>4 DEF Hops
  <2> HIDE DEF j
  <2> QED BY <1>1, <1>2, <1>4, <1>5, <1>6, <2>1, NextHop
<1>8. 1..j \subseteq 1..Hops /\ \A k \in 1..j : k <= j
  BY <1>4, HopCount
<1> QED BY <1>7, <1>8 DEF near, out, rest, response

-----------------------------------------------------------------------------
(* What each step leaves a flit with.                                      *)
(* A flit with the fields a hop changes: it keeps the types of one.        *)
Moved(f, sw, port, channel, prevSw, prevP, reached, count) ==
    [f EXCEPT !.sw = sw, !.port = port, !.channel = channel, !.prevSw = prevSw,
              !.prevP = prevP, !.valNodeReached = reached, !.hopCount = count]

LEMMA MovedType ==
  ASSUME NEW f \in FlitRecord, NEW sw \in Switches, NEW port \in Ports,
         NEW channel \in Channels, NEW prevSw \in Switches, NEW prevP \in Ports,
         NEW reached \in BOOLEAN, NEW count \in 0..6
  PROVE  Moved(f, sw, port, channel, prevSw, prevP, reached, count) \in FlitRecord
BY DEF FlitRecord, Moved

LEMMA HopPlace ==
  ASSUME IInv, NEW f \in FlitRecord, NEW i \in 0..Hops, At(f, i), i <= Bound(f),
         f.hopCount <= i, PortType(OutPort(f)) # "node"
  PROVE  /\ NextFlit(f) \in FlitRecord
         /\ \E k \in 1..Hops : /\ i < k /\ At(NextFlit(f), k)
                               /\ k <= Rest(f) + Near(palm, f.sw, Goal(f)) + 1
                               /\ NextFlit(f).hopCount <= k
         /\ LinkBack(NextFlit(f)) /\ ChannelThere(NextFlit(f))
<1> DEFINE out == OutPort(f)
           next == neighList[palm][f.sw][out]
           nextP == neighPort[palm][f.sw][out]
           nextC == nextChannel[routing][Responds(f)][f.port][out][f.channel]
           g == NextFlit(f)
           j == Rest(f) + Near(palm, f.sw, Goal(f)) + 1
           response == Responds(f)
           reached == ValNodeReached(f)
           count == f.hopCount + 1
<1>1. /\ routing \in Routings /\ palm \in BOOLEAN
      /\ f.sw \in Switches /\ f.hopCount \in 0..6 /\ f.valNodeReached \in BOOLEAN
      /\ response \in BOOLEAN
  BY DEF IInv, FlitRecord, Responds
<1>2. reached \in BOOLEAN
  BY <1>1 DEF ValNodeReached
<1>3. out \in LinkPorts /\ PortType(out) \in {"local", "global"}
  BY Route
<1>4. PICK k \in 1..Hops : /\ i < k /\ k <= j /\ typeVc[routing][k] = PortType(out)
                           /\ nextC = VcOf(routing, response)[k]
  BY HopFound
<1>5. g = Moved(f, next, nextP, nextC, f.sw, out, reached, count)
  BY DEF NextFlit, Moved
<1>6. Responds(g) = response
  BY DEF NextFlit, Responds, FlitRecord
<1> HIDE DEF out, response, j, g
<1>7. /\ next \in Switches /\ nextP \in LinkPorts
      /\ PortType(nextP) = PortType(out)
      /\ neighList[palm][next][nextP] = f.sw /\ neighPort[palm][next][nextP] = out
  <2>1. palm \in BOOLEAN /\ f.sw \in Switches /\ out \in LinkPorts
    BY <1>1, <1>3
  <2>2. LeadsBack(palm, f.sw, out)
    BY <2>1, LinksBothWays
  <2> QED BY <2>2 DEF LeadsBack
<1> HIDE DEF next, nextP, nextC
<1>8. k \in 1..Len(typeVc[routing])
  BY DEF Hops
<1>9. /\ nextC \in Channels
      /\ typeVc[routing][k] = "local" => nextC < LocalChannels
      /\ typeVc[routing][k] = "global" => nextC < GlobalChannels
  BY <1>1, <1>4, <1>8, ChannelOfHop
<1>10. count \in 0..6 /\ count <= k
  BY <1>1, <1>4, HopCount
<1>11. out \in Ports /\ nextP \in Ports
  BY <1>3, <1>7, PortKinds
<1> HIDE DEF reached, count
<1>12. /\ g \in FlitRecord
       /\ g.sw = next /\ g.port = nextP /\ g.channel = nextC
       /\ g.prevSw = f.sw /\ g.prevP = out /\ g.hopCount = count
  <2>1. /\ g.sw = next /\ g.port = nextP /\ g.channel = nextC
        /\ g.prevSw = f.sw /\ g.prevP = out /\ g.hopCount = count
    BY <1>5 DEF Moved, FlitRecord
  <2>2. f.sw \in Switches /\ f \in FlitRecord
    BY <1>1
  <2>3. g \in FlitRecord
    BY <1>2, <1>5, <1>7, <1>9, <1>10, <1>11, <2>2, MovedType
  <2> QED BY <2>1, <2>3
<1>13. PortType(g.port) = typeVc[routing][k] /\ PortType(g.port) \in {"local", "global"}
  BY <1>3, <1>4, <1>7, <1>12
<1>14. At(g, k)
  BY <1>4, <1>6, <1>12, <1>13 DEF At
<1>15. LinkBack(g)
  BY <1>7, <1>12 DEF LinkBack
<1>16. ChannelThere(g)
  BY <1>9, <1>12, <1>13 DEF ChannelThere
<1> QED BY <1>4, <1>10, <1>12, <1>14, <1>15, <1>16 DEF g, j

(* The sequence leaves a hop for each one that is left.                    *)
LEMMA RoomLeft ==
  ASSUME IInv, NEW f \in FlitRecord, PortType(OutPort(f)) # "node"
  PROVE  Rest(f) + Near(palm, f.sw, Goal(f)) + 1 <= Bound(NextFlit(f))
<1> DEFINE near == Near(palm, f.sw, Goal(f))
           g == NextFlit(f)
           next == neighList[palm][f.sw][OutPort(f)]
<1>1. /\ near \in 0..2 /\ Near(palm, next, Goal(f)) \in (near + 1)..3
      /\ hPos(next) = hPos(IF near = 1 THEN SwitchOf(Goal(f)) ELSE f.sw)
  BY Route
<1>2. /\ g.sw = next /\ g.dest = f.dest /\ g.valId = f.valId
      /\ g.valNodeReached = ValNodeReached(f)
  BY DEF NextFlit, FlitRecord
<1>3. Hops \in 3..6 /\ Hops = IF routing = "min" THEN 3 ELSE IF routing = "val" THEN 5 ELSE 6
  BY HopCount
<1> HIDE DEF g, next
<1>4. CASE ValNodeReached(f)
  <2>1. ValNodeReached(g)
    BY <1>2, <1>4 DEF ValNodeReached
  <2>2. Goal(g) = Goal(f) /\ Rest(g) = Rest(f)
    BY <1>2, <1>4, <2>1 DEF Goal, Rest
  <2>3. Rest(f) \in Nat
    BY <1>3 DEF Rest
  <2>4. Bound(g) = Rest(f) + Near(palm, next, Goal(f))
    BY <1>2, <2>2 DEF Bound
  <2> HIDE DEF near
  <2>5. Rest(f) + near + 1 <= Bound(g)
    BY <1>1, <2>3, <2>4
  <2> QED BY <2>5 DEF g, near
<1>5. CASE ~ValNodeReached(f) /\ ~ValNodeReached(g)
  <2>1. Goal(g) = Goal(f) /\ Rest(g) = 0 /\ Rest(f) = 0
    BY <1>2, <1>5 DEF Goal, Rest
  <2>2. Bound(g) = Near(palm, next, Goal(f))
    BY <1>1, <1>2, <2>1 DEF Bound
  <2> HIDE DEF near
  <2>3. Rest(f) + near + 1 <= Bound(g)
    BY <1>1, <2>1, <2>2
  <2> QED BY <2>3 DEF g, near
<1>6. CASE ~ValNodeReached(f) /\ ValNodeReached(g)
  <2>1. Rest(f) = 0 /\ Rest(g) = Hops - 3
    BY <1>6 DEF Rest
  <2>2. Near(palm, g.sw, Goal(g)) \in 0..3
    BY DEF Near
  <2>3. ~f.valNodeReached /\ ~g.valNodeReached
    BY <1>2, <1>6 DEF ValNodeReached
  <2>4. routing \in {"val", "valAny"}
    BY <1>6, <2>3 DEF ValNodeReached
  <2>5. routing = "val" => near \in 0..1
    <3>1. SUFFICES ASSUME routing = "val" PROVE near # 2
      BY <1>1
    <3>2. Goal(f) = f.valId
      BY <1>6, <3>1 DEF Goal
    <3>3. hPos(f.sw) # hPos(SwitchOf(f.valId))
      BY <1>6, <3>1 DEF ValNodeReached
    <3> QED BY <3>2, <3>3 DEF Near
  <2> HIDE DEF near
  <2> QED BY <1>1, <1>3, <2>1, <2>2, <2>4, <2>5 DEF Bound, g, near
<1> QED BY <1>4, <1>5, <1>6

LEMMA HopKeeps ==
  ASSUME IInv, NEW f \in FlitRecord, NEW p \in Packets, FlitOK(f, p, "network"),
         PortType(OutPort(f)) # "node"
  PROVE  NextFlit(f) \in FlitRecord /\ FlitOK(NextFlit(f), p, "network")
<1> DEFINE g == NextFlit(f)
<1>1. PICK i \in 0..Hops : At(f, i) /\ f.hopCount <= i /\ i <= Bound(f)
  BY DEF FlitOK, OnTheWay
<1>2. /\ g \in FlitRecord /\ LinkBack(g) /\ ChannelThere(g)
      /\ \E k \in 1..Hops : /\ i < k /\ At(g, k) /\ g.hopCount <= k
                            /\ k <= Rest(f) + Near(palm, f.sw, Goal(f)) + 1
  BY <1>1, HopPlace
<1>3. PICK k \in 1..Hops : /\ At(g, k) /\ g.hopCount <= k
                           /\ k <= Rest(f) + Near(palm, f.sw, Goal(f)) + 1
  BY <1>2
<1>4. Rest(f) + Near(palm, f.sw, Goal(f)) + 1 <= Bound(g)
  BY RoomLeft
<1>5. Rest(f) \in Int /\ Near(palm, f.sw, Goal(f)) \in Int /\ Bound(g) \in Int
  BY HopCount DEF Rest, Near, Bound
<1>6. k \in 0..Hops /\ k <= Bound(g)
  <2>1. \A x \in 1..Hops, y, z \in Int : x <= y /\ y <= z => x <= z
    BY HopCount
  <2> QED BY <1>3, <1>4, <1>5, HopCount
<1>7. OnTheWay(g)
  BY <1>3, <1>6 DEF OnTheWay
<1>8. Addressed(g, p)
  <2>1. g.type = f.type /\ g.source = f.source /\ g.dest = f.dest
    BY DEF NextFlit, FlitRecord
  <2>2. Responds(g) = Responds(f) /\ Addressed(f, p)
    BY <2>1 DEF Responds, FlitOK
  <2> QED BY <2>1, <2>2 DEF Addressed
<1> QED BY <1>2, <1>7, <1>8 DEF FlitOK

(* The flit that a node injects.                                           *)
Injected(type, src, dest, val) ==
    [sw |-> SwitchOf(src), port |-> src % P, channel |-> InjectionChannel(type),
     prevSw |-> SwitchOf(src), prevP |-> src % P, type |-> type,
     source |-> src, dest |-> dest, valId |-> val, valNodeReached |-> FALSE,
     hopCount |-> 0, minPathLength |-> MinPathLength(src, dest)]

LEMMA PathLengths == \A src, dest : MinPathLength(src, dest) \in 0..3
BY DEF MinPathLength

LEMMA NodePort ==
  ASSUME NEW n \in Nodes
  PROVE  n % P \in Ports /\ PortType(n % P) = "node"
<1>1. n % P \in 0..(P - 1)
  BY NodeParts
<1>2. n % P \in Ports
  BY <1>1 DEF Ports
<1> QED BY <1>1, <1>2, PortKinds

LEMMA InjectKeeps ==
  ASSUME IInv, NEW p \in Packets, NEW type \in {"PETITION", "RESPONSE"},
         NEW src \in Nodes, NEW dest \in Nodes, NEW val \in Nodes,
         NEW g, g = Injected(type, src, dest, val), Addressed(g, p)
  PROVE  /\ g \in FlitRecord /\ FlitOK(g, p, "network")
         /\ PortType(g.port) = "node" /\ At(g, 0) /\ g.type = type
<1>1. SwitchOf(src) \in Switches /\ src % P \in Ports /\ PortType(src % P) = "node"
  BY NodeParts, NodePort
<1>2. InjectionChannel(type) \in {0, 1} /\ 0 \in Channels /\ 1 \in Channels
  BY ChannelsAssumption DEF InjectionChannel, Channels
<1>3. MinPathLength(src, dest) \in 0..3
  BY PathLengths
<1>4. g \in FlitRecord
  BY <1>1, <1>2, <1>3 DEF Injected, FlitRecord
<1>5. /\ g.port = src % P /\ g.channel = InjectionChannel(type) /\ g.type = type
      /\ g.hopCount = 0
  BY DEF Injected
<1>6. At(g, 0)
  BY <1>1, <1>5 DEF At
<1>7. Hops \in 3..6 /\ Bound(g) >= 0
  <2>1. Hops \in 3..6
    BY HopCount
  <2>2. Rest(g) >= 0 /\ Rest(g) \in Int /\ Near(palm, g.sw, Goal(g)) \in 0..3
    BY <2>1 DEF Rest, Near
  <2> QED BY <2>1, <2>2 DEF Bound
<1>8. OnTheWay(g)
  BY <1>5, <1>6, <1>7 DEF OnTheWay
<1>9. LinkBack(g) /\ ChannelThere(g)
  BY <1>1, <1>2, <1>5 DEF LinkBack, ChannelThere
<1> QED BY <1>1, <1>4, <1>5, <1>6, <1>8, <1>9 DEF FlitOK

(* A flit leaves at the node it is for.                                    *)
LEMMA LeavesAtHome ==
  ASSUME IInv, NEW f \in FlitRecord, NEW p \in Packets, FlitOK(f, p, "network"),
         f.type = "RESPONSE", PortType(OutPort(f)) = "node"
  PROVE  LET g == [f EXCEPT !.port = OutPort(f), !.prevSw = f.sw, !.prevP = f.port,
                            !.valNodeReached = ValNodeReached(f)]
         IN  g \in FlitRecord /\ FlitOK(g, p, "consumed")
<1> DEFINE out == OutPort(f)
           reached == ValNodeReached(f)
           g == [f EXCEPT !.port = out, !.prevSw = f.sw, !.prevP = f.port,
                          !.valNodeReached = reached]
<1>1. /\ Goal(f) \in Nodes /\ out \in Ports
      /\ out = Goal(f) % P /\ f.sw = SwitchOf(Goal(f))
  BY Route
<1>2. reached \/ routing = "min"
  <2>1. SUFFICES ASSUME ~reached, routing # "min" PROVE FALSE
    OBVIOUS
  <2>2. f.sw = SwitchOf(f.valId)
    BY <1>1, <2>1 DEF Goal
  <2>3. routing \in {"val", "valAny"}
    BY <2>1 DEF IInv, Routings
  <2> QED BY <2>1, <2>2, <2>3 DEF ValNodeReached
<1>3. Goal(f) = f.dest /\ f.dest \in Nodes
  BY <1>2 DEF Goal, FlitRecord
<1>4. f.sw * P + out = f.dest
  BY <1>1, <1>3, NodeParts
<1>5. reached \in BOOLEAN
  BY DEF ValNodeReached, FlitRecord
<1> HIDE DEF out, reached
<1>6. /\ g \in FlitRecord
      /\ g.sw = f.sw /\ g.port = out /\ g.dest = f.dest /\ g.source = f.source
      /\ g.valNodeReached = reached
  BY <1>1, <1>5 DEF FlitRecord
<1>7. (IF reactive THEN <<f.dest, f.source>> ELSE <<f.source, f.dest>>) \in Traffic[reactive, p]
  BY DEF FlitOK, Addressed, Responds
<1> HIDE DEF g
<1>8. AtHome(g, p)
  BY <1>2, <1>4, <1>6, <1>7 DEF AtHome
<1> QED BY <1>6, <1>8 DEF FlitOK, g, out, reached

-----------------------------------------------------------------------------
(* The invariant.                                                          *)
LEMMA SameForFlit ==
  ASSUME UNCHANGED <<palm, routing, reactive>>, NEW f, NEW p, NEW st
  PROVE  FlitOK(f, p, st)' <=> FlitOK(f, p, st)
<1>1. /\ palm' = palm /\ routing' = routing /\ reactive' = reactive
  OBVIOUS
<1>2. ValNodeReached(f)' <=> ValNodeReached(f)
  BY <1>1 DEF ValNodeReached
<1>3. Goal(f)' = Goal(f)
  BY <1>1, <1>2 DEF Goal
<1>4. Hops' = Hops /\ (Responds(f)' <=> Responds(f))
  BY <1>1 DEF Hops, Responds
<1>5. Rest(f)' = Rest(f)
  BY <1>2, <1>4 DEF Rest
<1>6. Bound(f)' = Bound(f)
  BY <1>1, <1>3, <1>5 DEF Bound
<1>7. \A i : At(f, i)' <=> At(f, i)
  BY <1>1, <1>4 DEF At, InjectionChannel, VcOf
<1>8. OnTheWay(f)' <=> OnTheWay(f)
  BY <1>4, <1>6, <1>7 DEF OnTheWay
<1>9. LinkBack(f)' <=> LinkBack(f)
  BY <1>1 DEF LinkBack
<1>10. ChannelThere(f)' <=> ChannelThere(f)
  BY DEF ChannelThere
<1>11. Addressed(f, p)' <=> Addressed(f, p)
  <2> DEFINE asked == Traffic[reactive, p]
  <2>1. asked' = asked
    BY <1>1
  <2>2. (reactive)' <=> reactive
    BY <1>1
  <2>3. Addressed(f, p) <=>
            /\ f.type = "PETITION" => reactive
            /\ Responds(f) => <<f.dest, f.source>> \in asked
            /\ ~Responds(f) => <<f.source, f.dest>> \in asked
    BY DEF Addressed
  <2>4. Addressed(f, p)' <=>
            /\ f.type = "PETITION" => reactive'
            /\ Responds(f)' => <<f.dest, f.source>> \in asked'
            /\ ~Responds(f)' => <<f.source, f.dest>> \in asked'
    BY DEF Addressed
  <2> HIDE DEF asked
  <2> QED BY <1>4, <2>1, <2>2, <2>3, <2>4
<1>12. AtHome(f, p)' <=> AtHome(f, p)
  BY <1>1 DEF AtHome
<1> QED BY <1>8, <1>9, <1>10, <1>11, <1>12 DEF FlitOK

LEMMA Carry ==
  ASSUME IInv, UNCHANGED <<palm, routing, reactive>>,
         NEW p \in Packets, NEW g \in FlitRecord,
         NEW st \in {"source", "network", "consumed"}, FlitOK(g, p, st),
         flit' = [flit EXCEPT ![p] = g], state' = [state EXCEPT ![p] = st]
  PROVE  IInv'
<1>1. /\ palm' = palm /\ routing' = routing /\ reactive' = reactive
      /\ state \in [Packets -> {"source", "network", "consumed"}]
      /\ flit \in [Packets -> FlitRecord]
      /\ palm \in BOOLEAN /\ routing \in Routings /\ reactive \in BOOLEAN
  BY DEF IInv
<1>2. /\ state' \in [Packets -> {"source", "network", "consumed"}]
      /\ flit' \in [Packets -> FlitRecord]
  BY <1>1
<1>3. ASSUME NEW q \in Packets, NEW f \in {flit'[q]}, NEW qst \in {state'[q]}
      PROVE  FlitOK(f, q, qst)'
  <2>1. FlitOK(f, q, qst)
    <3>1. CASE q = p
      BY <1>1, <1>3, <3>1
    <3>2. CASE q # p
      <4>1. f = flit[q] /\ qst = state[q]
        BY <1>1, <1>3, <3>2
      <4> QED BY <4>1 DEF IInv
    <3> QED BY <3>1, <3>2
  <2> QED BY <2>1, SameForFlit
<1>4. FlitRecord' = FlitRecord
  BY DEF FlitRecord
<1> QED BY <1>1, <1>2, <1>3 DEF IInv

LEMMA InitOK == Init => IInv
<1> SUFFICES ASSUME Init PROVE IInv
  OBVIOUS
<1>1. NoFlit \in FlitRecord
  <2>1. 0 \in Switches /\ 0 \in Nodes /\ 0 \in Ports /\ 0 \in Channels
    BY Sizes, ChannelsAssumption DEF Switches, Ports, Channels
  <2> QED BY <2>1 DEF NoFlit, FlitRecord
<1>2. /\ palm \in BOOLEAN /\ routing \in Routings /\ reactive \in BOOLEAN
      /\ state = [p \in Packets |-> "source"] /\ flit = [p \in Packets |-> NoFlit]
  BY DEF Init
<1>3. \A p \in Packets : state[p] = "source"
  BY <1>2
<1>4. \A f, p : FlitOK(f, p, "source")
  BY DEF FlitOK
<1>5. \A p \in Packets : \A f \in {flit[p]}, st \in {state[p]} : FlitOK(f, p, st)
  BY <1>3, <1>4
<1> QED BY <1>1, <1>2, <1>5 DEF IInv

(* A node injects a flit of its packet.                                    *)
Owned(p, type, src, dest) ==
    /\ type = "PETITION" => reactive
    /\ (IF reactive /\ type = "RESPONSE" THEN <<dest, src>> ELSE <<src, dest>>)
           \in Traffic[reactive, p]

LEMMA InjectFlitKeeps ==
  ASSUME IInv, NEW p \in Packets, NEW type \in {"PETITION", "RESPONSE"},
         NEW src \in Nodes, NEW dest \in Nodes,
         Owned(p, type, src, dest), InjectFlit(p, type, src, dest)
  PROVE  \E g \in FlitRecord :
             /\ FlitOK(g, p, "network") /\ flit' = [flit EXCEPT ![p] = g]
             /\ PortType(g.port) = "node" /\ At(g, 0) /\ g.type = type
<1>1. PICK val \in ValNodes(src, dest) :
          flit' = [flit EXCEPT ![p] = Injected(type, src, dest, val)]
  BY DEF InjectFlit, Injected
<1>2. val \in Nodes
  BY DEF ValNodes
<1> DEFINE g == Injected(type, src, dest, val)
<1>3. Addressed(g, p)
  BY DEF Addressed, Injected, Responds, Owned
<1> HIDE DEF g
<1>4. /\ g \in FlitRecord /\ FlitOK(g, p, "network")
      /\ PortType(g.port) = "node" /\ At(g, 0) /\ g.type = type
  <2>1. g = Injected(type, src, dest, val)
    BY DEF g
  <2> QED BY <1>2, <1>3, <2>1, InjectKeeps
<1> QED BY <1>1, <1>4 DEF g

(* The invariant's part for a packet in the network.                       *)
LEMMA InNetwork ==
  ASSUME IInv, NEW p \in Packets, state[p] = "network"
  PROVE  flit[p] \in FlitRecord /\ FlitOK(flit[p], p, "network")
<1>1. flit[p] \in FlitRecord
  BY DEF IInv
<1>2. FlitOK(flit[p], p, state[p])
  BY DEF IInv
<1> QED BY <1>1, <1>2

(* A step of a packet: what becomes of its flit, and that it is as it      *)
(* should be.                                                              *)
LEMMA Steps ==
  ASSUME IInv, NEW p \in Packets
  PROVE  /\ Inject(p) => \E g \in FlitRecord :
                /\ FlitOK(g, p, "network") /\ flit' = [flit EXCEPT ![p] = g]
                /\ state[p] = "source" /\ state' = [state EXCEPT ![p] = "network"]
         /\ Hop(p) => /\ state[p] = "network" /\ PortType(OutPort(flit[p])) # "node"
                      /\ NextFlit(flit[p]) \in FlitRecord
                      /\ FlitOK(NextFlit(flit[p]), p, "network")
                      /\ flit' = [flit EXCEPT ![p] = NextFlit(flit[p])]
                      /\ state' = [state EXCEPT ![p] = "network"]
         /\ Answer(p) => \E g \in FlitRecord :
                /\ FlitOK(g, p, "network") /\ flit' = [flit EXCEPT ![p] = g]
                /\ state[p] = "network" /\ state' = [state EXCEPT ![p] = "network"]
                /\ flit[p].type = "PETITION" /\ reactive
                /\ PortType(g.port) = "node" /\ At(g, 0) /\ g.type = "RESPONSE"
         /\ Consume(p) => \E g \in FlitRecord :
                /\ FlitOK(g, p, "consumed") /\ flit' = [flit EXCEPT ![p] = g]
                /\ state[p] = "network" /\ state' = [state EXCEPT ![p] = "consumed"]
<1> DEFINE f == flit[p]
<1>1. /\ state \in [Packets -> {"source", "network", "consumed"}]
      /\ reactive \in BOOLEAN
  BY DEF IInv
<1>2. state[p] = "network" /\ state' = state => state' = [state EXCEPT ![p] = "network"]
  BY <1>1
<1>3. ASSUME Inject(p)
      PROVE  \E g \in FlitRecord :
                /\ FlitOK(g, p, "network") /\ flit' = [flit EXCEPT ![p] = g]
                /\ state[p] = "source" /\ state' = [state EXCEPT ![p] = "network"]
  <2> DEFINE type == IF reactive THEN "PETITION" ELSE "RESPONSE"
  <2>1. PICK src \in Nodes : \E dest \in Nodes :
            <<src, dest>> \in Traffic[reactive, p] /\ InjectFlit(p, type, src, dest)
    BY <1>3 DEF Inject
  <2>2. PICK dest \in Nodes :
            <<src, dest>> \in Traffic[reactive, p] /\ InjectFlit(p, type, src, dest)
    BY <2>1
  <2>3. type \in {"PETITION", "RESPONSE"} /\ Owned(p, type, src, dest)
    BY <2>2 DEF Owned
  <2> HIDE DEF type
  <2>4. \E g \in FlitRecord :
            /\ FlitOK(g, p, "network") /\ flit' = [flit EXCEPT ![p] = g]
            /\ PortType(g.port) = "node" /\ At(g, 0) /\ g.type = type
    BY <2>2, <2>3, InjectFlitKeeps
  <2>5. state[p] = "source" /\ state' = [state EXCEPT ![p] = "network"]
    BY <1>3 DEF Inject
  <2> QED BY <2>4, <2>5
<1>4. ASSUME Hop(p)
      PROVE  /\ state[p] = "network" /\ PortType(OutPort(f)) # "node"
             /\ NextFlit(f) \in FlitRecord /\ FlitOK(NextFlit(f), p, "network")
             /\ flit' = [flit EXCEPT ![p] = NextFlit(f)]
             /\ state' = [state EXCEPT ![p] = "network"]
  <2>1. /\ state[p] = "network" /\ PortType(OutPort(f)) # "node" /\ state' = state
        /\ flit' = [flit EXCEPT ![p] = NextFlit(f)]
    BY <1>4 DEF Hop
  <2>2. f \in FlitRecord /\ FlitOK(f, p, "network")
    BY <2>1, InNetwork
  <2> HIDE DEF f
  <2>3. NextFlit(f) \in FlitRecord /\ FlitOK(NextFlit(f), p, "network")
    BY <2>1, <2>2, HopKeeps DEF f
  <2> QED BY <1>2, <2>1, <2>3 DEF f
<1>5. ASSUME Answer(p)
      PROVE  \E g \in FlitRecord :
                /\ FlitOK(g, p, "network") /\ flit' = [flit EXCEPT ![p] = g]
                /\ state[p] = "network" /\ state' = [state EXCEPT ![p] = "network"]
                /\ f.type = "PETITION" /\ reactive
                /\ PortType(g.port) = "node" /\ At(g, 0) /\ g.type = "RESPONSE"
  <2>1. /\ state[p] = "network" /\ f.type = "PETITION" /\ state' = state
        /\ InjectFlit(p, "RESPONSE", f.dest, f.source)
    BY <1>5 DEF Answer
  <2>2. f \in FlitRecord /\ FlitOK(f, p, "network")
    BY <2>1, InNetwork
  <2>3. Addressed(f, p) /\ f.source \in Nodes /\ f.dest \in Nodes
    BY <2>2 DEF FlitOK, FlitRecord
  <2>4. reactive /\ <<f.source, f.dest>> \in Traffic[reactive, p]
    BY <2>1, <2>3 DEF Addressed, Responds
  <2>5. Owned(p, "RESPONSE", f.dest, f.source)
    BY <2>4 DEF Owned
  <2> HIDE DEF f
  <2>6. \E g \in FlitRecord :
            /\ FlitOK(g, p, "network") /\ flit' = [flit EXCEPT ![p] = g]
            /\ PortType(g.port) = "node" /\ At(g, 0) /\ g.type = "RESPONSE"
    BY <2>1, <2>3, <2>5, InjectFlitKeeps
  <2> QED BY <1>2, <2>1, <2>4, <2>6
<1>6. ASSUME Consume(p)
      PROVE  \E g \in FlitRecord :
                /\ FlitOK(g, p, "consumed") /\ flit' = [flit EXCEPT ![p] = g]
                /\ state[p] = "network" /\ state' = [state EXCEPT ![p] = "consumed"]
  <2> DEFINE g == [f EXCEPT !.port = OutPort(f), !.prevSw = f.sw, !.prevP = f.port,
                            !.valNodeReached = ValNodeReached(f)]
  <2>1. /\ state[p] = "network" /\ f.type = "RESPONSE" /\ PortType(OutPort(f)) = "node"
        /\ flit' = [flit EXCEPT ![p] = g] /\ state' = [state EXCEPT ![p] = "consumed"]
    BY <1>6 DEF Consume
  <2>2. f \in FlitRecord /\ FlitOK(f, p, "network")
    BY <2>1, InNetwork
  <2> HIDE DEF f
  <2>3. g \in FlitRecord /\ FlitOK(g, p, "consumed")
    BY <2>1, <2>2, LeavesAtHome
  <2> HIDE DEF g
  <2> QED BY <2>1, <2>3
<1> QED BY <1>3, <1>4, <1>5, <1>6

LEMMA Untouched == ASSUME IInv, UNCHANGED vars PROVE IInv'
<1>1. /\ palm' = palm /\ routing' = routing /\ reactive' = reactive
      /\ state' = state /\ flit' = flit
  BY DEF vars
<1>2. ASSUME NEW q \in Packets, NEW f \in {flit'[q]}, NEW st \in {state'[q]}
      PROVE  FlitOK(f, q, st)'
  <2>1. FlitOK(f, q, st)
    BY <1>1, <1>2 DEF IInv
  <2> QED BY <1>1, <2>1, SameForFlit
<1>3. palm \in BOOLEAN /\ routing \in Routings /\ reactive \in BOOLEAN
      /\ state \in [Packets -> {"source", "network", "consumed"}]
      /\ flit \in [Packets -> FlitRecord]
  BY DEF IInv
<1> QED BY <1>1, <1>2, <1>3 DEF IInv

LEMMA StepOK == IInv /\ [Next]_vars => IInv'
<1> SUFFICES ASSUME IInv, [Next]_vars PROVE IInv'
  OBVIOUS
<1>1. CASE UNCHANGED vars
  BY <1>1, Untouched
<1>2. ASSUME NEW p \in Packets, Inject(p) \/ Hop(p) \/ Answer(p) \/ Consume(p)
      PROVE  IInv'
  <2>1. UNCHANGED <<palm, routing, reactive>>
    BY <1>2 DEF Inject, Hop, Answer, Consume
  <2>2. \E g \in FlitRecord, st \in {"source", "network", "consumed"} :
            /\ FlitOK(g, p, st) /\ flit' = [flit EXCEPT ![p] = g]
            /\ state' = [state EXCEPT ![p] = st]
    BY <1>2, Steps
  <2> QED BY <2>1, <2>2, Carry
<1> QED BY <1>1, <1>2 DEF Next

LEMMA Invariance == Spec => []IInv
BY InitOK, StepOK, PTL DEF Spec

-----------------------------------------------------------------------------
(* Every variable keeps its type, and every flit is in a channel that its  *)
(* link has: the assertions of nextChannel and of the credit counters      *)
(* never fail for want of a channel.                                       *)
THEOREM TypeCorrect == Spec => []TypeOK
<1>1. ASSUME IInv PROVE TypeOK
  <2>1. \A p \in Packets : state[p] = "network" => ChannelThere(flit[p])
    BY <1>1, InNetwork DEF FlitOK
  <2>2. /\ palm \in BOOLEAN /\ routing \in Routings /\ reactive \in BOOLEAN
        /\ state \in [Packets -> {"source", "network", "consumed"}]
        /\ flit \in [Packets -> FlitRecord]
    BY <1>1 DEF IInv
  <2> QED BY <2>1, <2>2 DEF TypeOK, FlitRecord, ChannelThere
<1> QED BY <1>1, Invariance, PTL

(* A credit goes to the switch and the port the flit was sent from: the    *)
(* formulas for the two ends of a link agree, for every size and layout.   *)
THEOREM CreditsCorrect == Spec => []CreditsReachSender
<1>1. ASSUME IInv PROVE CreditsReachSender
  <2>1. \A p \in Packets : state[p] = "network" => LinkBack(flit[p])
    BY <1>1, InNetwork DEF FlitOK
  <2> QED BY <2>1 DEF CreditsReachSender, LinkBack
<1> QED BY <1>1, Invariance, PTL

(* Where a flit is in the sequence of the hops of petitions and responses. *)
Place(f, i) == (IF Responds(f) THEN Hops + 1 ELSE 0) + i

LEMMA PlaceIs ==
  ASSUME IInv, NEW f \in FlitRecord, NEW i \in 0..Hops, At(f, i)
  PROVE  places[routing][f.port][f.channel] = {Place(f, i)}
<1> DEFINE response == Responds(f)
           n == Len(typeVc[routing])
           before == HopsOf(routing, petitionVc[routing], f.port, f.channel)
           behind == HopsOf(routing, responseVc[routing], f.port, f.channel)
<1>1. /\ routing \in Routings /\ f.port \in Ports /\ f.channel \in Channels
      /\ response \in BOOLEAN
  BY DEF IInv, FlitRecord, Responds
<1>2. places[routing][f.port][f.channel] =
          IF PortType(f.port) = "node" THEN {IF f.channel = 0 THEN 0 ELSE n + 1}
          ELSE before \cup {n + 1 + l : l \in behind}
  BY <1>1 DEF places
<1>3. Place(f, i) = (IF response THEN n + 1 ELSE 0) + i /\ n \in 3..6
  BY HopCount DEF Place, Hops
<1>4. CASE PortType(f.port) = "node"
  <2>1. i = 0 /\ f.channel = IF response THEN 1 ELSE 0
    BY <1>4 DEF At, InjectionChannel, Responds
  <2> HIDE DEF response, n
  <2> QED BY <1>1, <1>2, <1>3, <1>4, <2>1
<1>5. CASE PortType(f.port) # "node"
  <2>1. /\ i \in 1..n /\ typeVc[routing][i] = PortType(f.port)
        /\ f.channel = VcOf(routing, response)[i]
    BY <1>5 DEF At, Hops
  <2> DEFINE other == ~response
  <2>2. other \in BOOLEAN /\ other # response /\ other = ~response
    BY <1>1
  <2> HIDE DEF response, other
  <2>3. /\ HopsOf(routing, VcOf(routing, response), f.port, f.channel) = {i}
        /\ HopsOf(routing, VcOf(routing, other), f.port, f.channel) = {}
    <3>1. HopsOf(routing, VcOf(routing, response), f.port, f.channel) = {i}
      <4>1. Made(routing, response, f.port, f.channel, i) /\ i # 0
        BY <1>1, <2>1, HopOfChannel
      <4> QED BY <4>1 DEF Made
    <3>2. HopsOf(routing, VcOf(routing, other), f.port, f.channel) = {}
      <4>1. NoneMade(routing, other, f.port, f.channel)
        BY <1>1, <2>1, <2>2, NotOfTheOther
      <4> QED BY <4>1 DEF NoneMade
    <3> QED BY <3>1, <3>2
  <2>4. CASE response
    <3>1. before = {} /\ behind = {i}
      BY <2>2, <2>3, <2>4 DEF VcOf
    <3> HIDE DEF before, behind, n
    <3> QED BY <1>2, <1>3, <1>5, <2>4, <3>1
  <2>5. CASE ~response
    <3>1. before = {i} /\ behind = {}
      BY <2>2, <2>3, <2>5 DEF VcOf
    <3> HIDE DEF before, behind, n
    <3> QED BY <1>2, <1>3, <1>5, <2>5, <3>1
  <2> QED BY <1>1, <2>4, <2>5
<1> QED BY <1>4, <1>5

(* A hop goes on to a later place, and so does the response to a petition. *)
LEMMA HopRises ==
  ASSUME IInv, NEW f \in FlitRecord, NEW p \in Packets, FlitOK(f, p, "network"),
         PortType(OutPort(f)) # "node"
  PROVE  \E i, k \in 0..Hops : At(f, i) /\ At(NextFlit(f), k) /\ Place(f, i) < Place(NextFlit(f), k)
<1>1. PICK i \in 0..Hops : At(f, i) /\ f.hopCount <= i /\ i <= Bound(f)
  BY DEF FlitOK, OnTheWay
<1>2. PICK k \in 1..Hops : i < k /\ At(NextFlit(f), k)
  BY <1>1, HopPlace
<1>3. Responds(NextFlit(f)) <=> Responds(f)
  BY DEF NextFlit, Responds, FlitRecord
<1>4. Place(f, i) < Place(NextFlit(f), k) /\ k \in 0..Hops
  BY <1>2, <1>3, HopCount DEF Place
<1> QED BY <1>1, <1>2, <1>4

LEMMA AnswerRises ==
  ASSUME IInv, NEW f \in FlitRecord, NEW g \in FlitRecord, NEW p \in Packets,
         FlitOK(f, p, "network"), f.type = "PETITION",
         At(g, 0), g.type = "RESPONSE", reactive
  PROVE  \E i \in 0..Hops : At(f, i) /\ Place(f, i) < Place(g, 0)
<1>1. PICK i \in 0..Hops : At(f, i)
  BY DEF FlitOK, OnTheWay
<1>2. ~Responds(f) /\ Responds(g)
  BY DEF Responds
<1>3. Place(f, i) < Place(g, 0)
  BY <1>2, HopCount DEF Place
<1> QED BY <1>1, <1>3

(* "an increasing sequence to break cyclic dependencies" (vcMngmt.cc:137): *)
(* a flit in the network only ever takes a channel that comes later in the *)
(* sequence than the one it holds.                                         *)
THEOREM ChannelsRise == Spec => ChannelsIncrease
<1> DEFINE Rises(p) ==
        state[p] = "network" /\ flit'[p] # flit[p] /\ state'[p] = "network" =>
            \A i \in places[routing][flit[p].port][flit[p].channel],
               j \in places[routing][flit'[p].port][flit'[p].channel] : i < j
<1>1. ASSUME IInv, Next, NEW q \in Packets
      PROVE  Rises(q)
  <2> SUFFICES ASSUME state[q] = "network", flit'[q] # flit[q], state'[q] = "network"
               PROVE  \A i \in places[routing][flit[q].port][flit[q].channel],
                         j \in places[routing][flit'[q].port][flit'[q].channel] : i < j
    OBVIOUS
  <2>1. PICK p \in Packets : Inject(p) \/ Hop(p) \/ Answer(p) \/ Consume(p)
    BY <1>1 DEF Next
  <2>2. /\ flit \in [Packets -> FlitRecord]
        /\ state \in [Packets -> {"source", "network", "consumed"}]
    BY <1>1 DEF IInv
  <2>3. p = q
    <3>1. \E g : flit' = [flit EXCEPT ![p] = g]
      BY <1>1, <2>1, Steps
    <3> QED BY <2>2, <3>1
  <2>4. flit[q] \in FlitRecord /\ FlitOK(flit[q], q, "network")
    BY <1>1, InNetwork
  <2>5. \E g \in FlitRecord, i, k \in 0..Hops :
            flit'[q] = g /\ At(flit[q], i) /\ At(g, k) /\ Place(flit[q], i) < Place(g, k)
    <3>1. CASE Hop(q)
      <4>1. /\ PortType(OutPort(flit[q])) # "node" /\ NextFlit(flit[q]) \in FlitRecord
            /\ flit' = [flit EXCEPT ![q] = NextFlit(flit[q])]
        BY <1>1, <3>1, Steps
      <4>2. flit'[q] = NextFlit(flit[q])
        BY <2>2, <4>1
      <4>3. \E i, k \in 0..Hops : /\ At(flit[q], i) /\ At(NextFlit(flit[q]), k)
                                  /\ Place(flit[q], i) < Place(NextFlit(flit[q]), k)
        BY <1>1, <2>4, <4>1, HopRises
      <4> QED BY <4>1, <4>2, <4>3
    <3>2. CASE Answer(q)
      <4>1. PICK g \in FlitRecord :
                /\ flit' = [flit EXCEPT ![q] = g] /\ flit[q].type = "PETITION" /\ reactive
                /\ At(g, 0) /\ g.type = "RESPONSE"
        BY <1>1, <3>2, Steps
      <4>2. flit'[q] = g
        BY <2>2, <4>1
      <4>3. \E i \in 0..Hops : At(flit[q], i) /\ Place(flit[q], i) < Place(g, 0)
        BY <1>1, <2>4, <4>1, AnswerRises
      <4>4. 0 \in 0..Hops
        BY <1>1, HopCount
      <4> QED BY <4>1, <4>2, <4>3, <4>4
    <3>3. CASE Inject(q)
      BY <1>1, <3>3, Steps
    <3>4. CASE Consume(q)
      <4>1. state' = [state EXCEPT ![q] = "consumed"]
        BY <1>1, <3>4, Steps
      <4> QED BY <2>2, <4>1
    <3> QED BY <2>1, <2>3, <3>1, <3>2, <3>3, <3>4
  <2>6. PICK g \in FlitRecord, i \in 0..Hops, k \in 0..Hops :
            flit'[q] = g /\ At(flit[q], i) /\ At(g, k) /\ Place(flit[q], i) < Place(g, k)
    BY <2>5
  <2>7. /\ places[routing][flit[q].port][flit[q].channel] = {Place(flit[q], i)}
        /\ places[routing][g.port][g.channel] = {Place(g, k)}
    BY <1>1, <2>4, <2>6, PlaceIs
  <2> QED BY <2>6, <2>7
<1>2. ASSUME IInv, [Next]_vars
      PROVE  [\A p \in Packets : Rises(p)]_vars
  BY <1>1, <1>2
<1> QED BY <1>2, Invariance, PTL DEF Spec, ChannelsIncrease

-----------------------------------------------------------------------------
(* A packet that has left the network has done so at the node it was for,  *)
(* or, a response, at the one that asked; and with Valiant routing not     *)
(* without having been at its Valiant group or switch.                     *)
THEOREM ArrivesHome == Spec => [](\A p \in Packets : state[p] = "consumed" => Home(p))
<1>1. ASSUME IInv, NEW p \in Packets, state[p] = "consumed"
      PROVE  Home(p)
  <2>1. FlitOK(flit[p], p, state[p])
    BY <1>1 DEF IInv
  <2> QED BY <1>1, <2>1 DEF FlitOK, AtHome, Home
<1>2. IInv => \A p \in Packets : state[p] = "consumed" => Home(p)
  BY <1>1
<1> QED BY <1>2, Invariance, PTL

(* No flit goes around: a packet has made no more hops since it was        *)
(* injected than the longest path of its routing has (typeVc).             *)
THEOREM PathsBounded ==
  Spec => [](\A p \in Packets :
                 state[p] = "network" => flit[p].hopCount <= Len(typeVc[routing]))
<1>1. ASSUME IInv, NEW p \in Packets, state[p] = "network"
      PROVE  flit[p].hopCount <= Len(typeVc[routing])
  <2>1. flit[p] \in FlitRecord /\ FlitOK(flit[p], p, "network")
    BY <1>1, InNetwork
  <2>2. PICK i \in 0..Hops : flit[p].hopCount <= i
    BY <2>1 DEF FlitOK, OnTheWay
  <2>3. flit[p].hopCount \in 0..6 /\ Hops \in 3..6
    BY <1>1, <2>1, HopCount DEF FlitRecord
  <2> QED BY <2>2, <2>3 DEF Hops
<1>2. IInv => \A p \in Packets :
                  state[p] = "network" => flit[p].hopCount <= Len(typeVc[routing])
  BY <1>1
<1> QED BY <1>2, Invariance, PTL

-----------------------------------------------------------------------------
(* Freedom from deadlock.                                                  *)

(* A packet in the network, by its place in the sequence.                  *)
InPlace(p, x) ==
    /\ state[p] = "network"
    /\ \E i \in 0..Hops : At(flit[p], i) /\ x = Place(flit[p], i)

(* Two flits in the same channel are in the same place.                    *)
LEMMA SameChannel ==
  ASSUME IInv, NEW f \in FlitRecord, NEW g \in FlitRecord,
         NEW i \in 0..Hops, NEW k \in 0..Hops, At(f, i), At(g, k),
         f.port = g.port, f.channel = g.channel
  PROVE  Place(f, i) = Place(g, k)
<1>1. /\ places[routing][f.port][f.channel] = {Place(f, i)}
      /\ places[routing][g.port][g.channel] = {Place(g, k)}
  BY PlaceIs
<1> QED BY <1>1

(* What a flit waits for is a flit in a later place.                       *)
LEMMA WaitsForLater ==
  ASSUME IInv, NEW p \in Packets, state[p] = "network", ~CanMove(p),
         NEW x, InPlace(p, x)
  PROVE  \E q \in Packets, y \in Nat : InPlace(q, y) /\ x < y
<1> DEFINE f == flit[p]
<1>1. f \in FlitRecord /\ FlitOK(f, p, "network")
  BY InNetwork
<1>2. PICK i0 \in 0..Hops : At(f, i0) /\ x = Place(f, i0)
  BY DEF InPlace
<1>3. \E g \in FlitRecord, q \in Packets, k \in 0..Hops, i \in 0..Hops :
          /\ q \in InBuffer(g.sw, g.port, g.channel)
          /\ At(f, i) /\ At(g, k) /\ Place(f, i) < Place(g, k)
  <2>1. CASE PortType(OutPort(f)) # "node"
    <3> DEFINE g == NextFlit(f)
    <3>1. \E q : q \in InBuffer(g.sw, g.port, g.channel)
      BY <2>1 DEF CanMove
    <3>2. \A q : q \in InBuffer(g.sw, g.port, g.channel) => q \in Packets
      BY DEF InBuffer
    <3> HIDE DEF f
    <3>3. g \in FlitRecord
      BY <1>1, <2>1, HopKeeps
    <3>4. \E i, k \in 0..Hops : At(f, i) /\ At(g, k) /\ Place(f, i) < Place(g, k)
      BY <1>1, <2>1, HopRises
    <3> HIDE DEF g
    <3> QED BY <3>1, <3>2, <3>3, <3>4
  <2>2. CASE PortType(OutPort(f)) = "node"
    <3> DEFINE g == Injected("RESPONSE", f.dest, f.source, f.dest)
    <3>1. f.type = "PETITION" /\ f.source \in Nodes /\ f.dest \in Nodes
      BY <1>1, <2>2 DEF CanMove, FlitRecord
    <3>2. /\ g.sw = SwitchOf(f.dest) /\ g.port = f.dest % P
          /\ g.channel = InjectionChannel("RESPONSE")
      BY DEF Injected
    <3>3. \E q \in Packets : q \in InBuffer(g.sw, g.port, g.channel)
      BY <2>2, <3>1, <3>2 DEF CanMove, InBuffer
    <3>4. Addressed(f, p)
      BY <1>1 DEF FlitOK
    <3>5. reactive /\ <<f.source, f.dest>> \in Traffic[reactive, p]
      BY <3>1, <3>4 DEF Addressed, Responds
    <3>6. Addressed(g, p)
      BY <3>5 DEF Addressed, Injected, Responds
    <3>7. g = Injected("RESPONSE", f.dest, f.source, f.dest)
      OBVIOUS
    <3> HIDE DEF f, g
    <3>8. g \in FlitRecord /\ At(g, 0) /\ g.type = "RESPONSE"
      BY <3>1, <3>6, <3>7, InjectKeeps
    <3>9. \E i \in 0..Hops : At(f, i) /\ Place(f, i) < Place(g, 0)
      BY <1>1, <3>1, <3>5, <3>8, AnswerRises
    <3>10. 0 \in 0..Hops
      BY HopCount
    <3> QED BY <3>3, <3>8, <3>9, <3>10
  <2> QED BY <2>1, <2>2
<1>4. PICK g \in FlitRecord, q \in Packets, k \in 0..Hops, i \in 0..Hops :
          /\ q \in InBuffer(g.sw, g.port, g.channel)
          /\ At(f, i) /\ At(g, k) /\ Place(f, i) < Place(g, k)
  BY <1>3
<1>5. state[q] = "network" /\ flit[q].port = g.port /\ flit[q].channel = g.channel
  BY <1>4 DEF InBuffer
<1>6. flit[q] \in FlitRecord /\ FlitOK(flit[q], q, "network")
  BY <1>5, InNetwork
<1>7. PICK m \in 0..Hops : At(flit[q], m)
  BY <1>6 DEF FlitOK, OnTheWay
<1> HIDE DEF f
<1>8. Place(flit[q], m) = Place(g, k)
  BY <1>4, <1>5, <1>6, <1>7, SameChannel
<1>9. x = Place(f, i)
  BY <1>1, <1>2, <1>4, SameChannel
<1>10. Place(flit[q], m) \in Nat
  BY HopCount DEF Place
<1>11. InPlace(q, Place(flit[q], m))
  BY <1>5, <1>7 DEF InPlace
<1> QED BY <1>4, <1>8, <1>9, <1>10, <1>11

(* Numbers that are bounded have a greatest one.                           *)
LEMMA Greatest ==
  ASSUME NEW S \in SUBSET Nat, NEW top \in Nat, \A x \in S : x <= top, NEW s \in S
  PROVE  \E x \in S : \A y \in S : ~(x < y)
<1> DEFINE T == {n \in Nat : \E x \in S : n = top - x}
<1>1. T \in SUBSET Nat /\ top - s \in T
  OBVIOUS
<1>2. \E n \in T : \A m \in T : n <= m
  <2> HIDE DEF T
  <2> QED BY <1>1, NatMinimum
<1>3. PICK x \in S : top - x \in T /\ \A m \in T : top - x <= m
  BY <1>2
<1>4. \A y \in S : top - y \in T
  OBVIOUS
<1>5. \A y \in S : ~(x < y)
  <2>1. \A y \in S : top - x <= top - y
    BY <1>3, <1>4
  <2> QED BY <2>1
<1> QED BY <1>5

(* The network does not deadlock, whatever its size, its traffic and the   *)
(* number of its packets: as long as there are packets in it, one of them  *)
(* can move.  (The one whose channel comes last can: what it would wait    *)
(* for is later still.)                                                    *)
THEOREM DeadlockFree == Spec => []NoDeadlock
<1>1. ASSUME IInv PROVE NoDeadlock
  <2> SUFFICES ASSUME NEW p0 \in Packets, state[p0] = "network",
                      \A p \in Packets : state[p] = "network" => ~CanMove(p)
               PROVE  FALSE
    BY DEF NoDeadlock
  <2> DEFINE S == {x \in 0..(2 * Hops + 1) : \E p \in Packets : InPlace(p, x)}
  <2>1. Hops \in 3..6
    BY <1>1, HopCount
  <2>2. \A p \in Packets : \A x : InPlace(p, x) => x \in S
    <3> SUFFICES ASSUME NEW p \in Packets, NEW x, InPlace(p, x) PROVE x \in 0..(2 * Hops + 1)
      OBVIOUS
    <3> QED BY <2>1 DEF InPlace, Place
  <2>3. \E x : InPlace(p0, x)
    BY <1>1, InNetwork DEF FlitOK, OnTheWay, InPlace
  <2>4. S \in SUBSET Nat /\ 2 * Hops + 1 \in Nat /\ \A x \in S : x <= 2 * Hops + 1
    BY <2>1
  <2>5. \A x \in S : \E p \in Packets : state[p] = "network" /\ InPlace(p, x)
    BY DEF InPlace
  <2> HIDE DEF S
  <2>6. PICK x \in S : \A y \in S : ~(x < y)
    BY <2>2, <2>3, <2>4, Greatest
  <2>7. PICK p \in Packets : state[p] = "network" /\ InPlace(p, x)
    BY <2>5
  <2>8. \E q \in Packets, y \in Nat : InPlace(q, y) /\ x < y
    BY <1>1, <2>7, WaitsForLater
  <2> QED BY <2>2, <2>6, <2>8
<1> QED BY <1>1, Invariance, PTL

-----------------------------------------------------------------------------
(* The length of a minimal path, in the consecutive layout.                *)

(* The hops from switch s to node n: the link to its group, a hop to the   *)
(* switch that has it, and one from the switch it leads to.                *)
HopsLeft(layout, s, n) ==
    LET h == hPos(s)
        t == SwitchOf(n)
        g == hPos(t)
    IN  IF s = t THEN 0 ELSE IF h = g THEN 1
        ELSE 1 + (IF NextA(layout, s, n) = aPos(s) THEN 0 ELSE 1)
               + (IF GroupLink(layout, g, h) \div H = aPos(t) THEN 0 ELSE 1)

LEMMA RowOfLink ==
  ASSUME NEW link \in GroupLinks, NEW a \in 0..(A - 1)
  PROVE  link \div H = a <=> link \in (a * H)..(a * H + H - 1)
<1>1. /\ link \div H \in 0..(A - 1) /\ link % H \in 0..(H - 1)
      /\ link = (link \div H) * H + (link % H)
  BY PortOfLink
<1>2. ASSUME link \div H = a PROVE link \in (a * H)..(a * H + H - 1)
  <2> DEFINE k == link % H
             first == a * H
  <2>1. link = first + k /\ k \in 0..(H - 1)
    BY <1>1, <1>2
  <2>2. first \in Int
    OBVIOUS
  <2> HIDE DEF k, first
  <2>3. link \in first..(first + H - 1)
    BY <2>1, <2>2
  <2> QED BY <2>3 DEF first
<1>3. ASSUME link \in (a * H)..(a * H + H - 1) PROVE link \div H = a
  <2>1. a * H \in Int
    OBVIOUS
  <2> DEFINE k == link - a * H
  <2>2. k \in 0..(H - 1) /\ link = a * H + k
    BY <1>1, <1>3, <2>1
  <2> HIDE DEF k
  <2> QED BY <2>2, LinkOfPort
<1> QED BY <1>2, <1>3

LEMMA PathLength ==
  ASSUME NEW layout \in BOOLEAN, ~layout, NEW src \in Nodes, NEW dest \in Nodes
  PROVE  MinPathLength(src, dest) = HopsLeft(layout, SwitchOf(src), dest)
<1> DEFINE s == SwitchOf(src)   a == aPos(s)    h == hPos(s)
           t == SwitchOf(dest)  b == aPos(t)    g == hPos(t)
           up == IF h < g THEN 1 ELSE 0
           down == IF h > g THEN 1 ELSE 0
           leaves == g \in (a * H + up)..(a * H + up + H - 1)
           enters == h \in (b * H + down)..(b * H + down + H - 1)
           link == GroupLink(layout, h, g)
           back == GroupLink(layout, g, h)
<1>1. /\ s \in Switches /\ t \in Switches
      /\ h \in Groups /\ g \in Groups /\ a \in 0..(A - 1) /\ b \in 0..(A - 1)
      /\ s = h * A + a /\ t = g * A + b
  BY NodeParts, SwitchParts
<1>2. h \in Int /\ g \in Int
  BY <1>1 DEF Groups
<1>3. MinPathLength(src, dest) =
          IF h = g THEN (IF a = b THEN 0 ELSE 1)
          ELSE 1 + (IF leaves THEN 0 ELSE 1) + (IF enters THEN 0 ELSE 1)
  BY DEF MinPathLength
<1>4. HopsLeft(layout, s, dest) =
          IF s = t THEN 0 ELSE IF h = g THEN 1
          ELSE 1 + (IF link \div H = a THEN 0 ELSE 1) + (IF back \div H = b THEN 0 ELSE 1)
  BY DEF HopsLeft, NextA
<1>5. CASE h = g
  BY <1>1, <1>3, <1>4, <1>5
<1>6. CASE h # g
  <2>1. link = g - up /\ back = h - down
    BY <1>2, <1>6 DEF GroupLink
  <2>2. link \in GroupLinks /\ back \in GroupLinks
    BY <1>1, <1>6, GroupLinkTo
  <2>3. a * H \in Int /\ b * H \in Int /\ up \in Int /\ down \in Int
    BY <1>1
  <2>4. link \div H = a <=> link \in (a * H)..(a * H + H - 1)
    BY <1>1, <2>2, RowOfLink
  <2>5. back \div H = b <=> back \in (b * H)..(b * H + H - 1)
    BY <1>1, <2>2, RowOfLink
  <2>6. \A x, y, z \in Int : x - y \in z..(z + H - 1) <=> x \in (z + y)..(z + y + H - 1)
    OBVIOUS
  <2>7. (link \div H = a <=> leaves) /\ (back \div H = b <=> enters)
    <3> HIDE DEF link, back, up, down, h, g, a, b
    <3> QED BY <1>2, <2>1, <2>3, <2>4, <2>5, <2>6
  <2>8. s # t
    BY <1>6
  <2> HIDE DEF leaves, enters, link, back
  <2> QED BY <1>3, <1>4, <1>6, <2>7, <2>8
<1> QED BY <1>5, <1>6

OneLess(layout, s, n) ==
    /\ HopsLeft(layout, s, n) \in 1..3
    /\ HopsLeft(layout, neighList[layout][s][minTable[layout][s][n]], n)
           = HopsLeft(layout, s, n) - 1

LEMMA OneHopLess ==
  ASSUME NEW layout \in BOOLEAN, NEW s \in Switches, NEW n \in Nodes, s # SwitchOf(n)
  PROVE  OneLess(layout, s, n)
<1> DEFINE out == minTable[layout][s][n]
           t == SwitchOf(n)
           h == hPos(s)
           g == hPos(t)
           link == GroupLink(layout, h, g)
           last == IF GroupLink(layout, g, h) \div H = aPos(t) THEN 0 ELSE 1
<1>1. /\ t \in Switches
      /\ h \in Groups /\ g \in Groups /\ aPos(s) \in 0..(A - 1) /\ aPos(t) \in 0..(A - 1)
      /\ s = h * A + aPos(s) /\ t = g * A + aPos(t)
  BY NodeParts, SwitchParts
<1>2. out = MinOutputPort(layout, s, n)
  BY Tables
<1>3. HopsLeft(layout, s, n) \in 1..3
  BY DEF HopsLeft
<1> HIDE DEF out
<1>4. CASE g = h
  <2>1. NextA(layout, s, n) = aPos(t) /\ aPos(t) # aPos(s)
    BY <1>1, <1>4 DEF NextA
  <2>2. out = LocalPort(aPos(s), aPos(t))
    BY <1>2, <2>1 DEF MinOutputPort
  <2>3. neighList[layout][s][out] = t
    BY <1>1, <1>4, <2>1, <2>2, LocalLink
  <2>4. HopsLeft(layout, s, n) = 1 /\ HopsLeft(layout, t, n) = 0
    BY <1>4 DEF HopsLeft
  <2> QED BY <1>3, <2>3, <2>4 DEF out, OneLess
<1>5. CASE g # h /\ link \div H = aPos(s)
  <2> DEFINE next == neighList[layout][s][out]
             back == GroupLink(layout, g, h)
  <2>1. NextA(layout, s, n) = aPos(s)
    BY <1>5 DEF NextA
  <2>2. out = GlobalOffset + (link % H)
    BY <1>2, <1>5, <2>1 DEF MinOutputPort
  <2>3. next \in Switches /\ hPos(next) = g /\ aPos(next) = back \div H
    BY <1>1, <1>5, <2>2, GlobalLink
  <2>4. HopsLeft(layout, s, n) = 1 + last
    BY <1>5, <2>1 DEF HopsLeft
  <2> HIDE DEF next
  <2>5. next = t <=> back \div H = aPos(t)
    <3>1. next = g * A + aPos(next)
      BY <2>3, SwitchParts
    <3> QED BY <1>1, <2>3, <3>1
  <2>6. HopsLeft(layout, next, n) = last
    BY <2>3, <2>5 DEF HopsLeft
  <2> QED BY <1>3, <2>4, <2>6 DEF out, next, OneLess
<1>6. CASE g # h /\ link \div H # aPos(s)
  <2> DEFINE c == link \div H
             next == h * A + c
  <2>1. NextA(layout, s, n) = c
    BY <1>6 DEF NextA
  <2>2. c \in 0..(A - 1)
    BY <1>1, <1>6, GroupLinkTo, PortOfLink
  <2>3. out = LocalPort(aPos(s), c)
    BY <1>2, <1>6, <2>1 DEF MinOutputPort
  <2>4. neighList[layout][s][out] = next /\ hPos(next) = h /\ aPos(next) = c
    BY <1>1, <1>6, <2>2, <2>3, LocalLink
  <2>5. NextA(layout, next, n) = c
    BY <1>6, <2>4 DEF NextA
  <2> HIDE DEF c, next
  <2>6. HopsLeft(layout, s, n) = 2 + last
    BY <1>6, <2>1 DEF HopsLeft, c
  <2>7. HopsLeft(layout, next, n) = 1 + last
    BY <1>6, <2>4, <2>5 DEF HopsLeft
  <2> QED BY <1>3, <2>4, <2>6, <2>7 DEF out, OneLess
<1> QED BY <1>4, <1>5, <1>6

(* The hops a packet has made and those it still has to make are as many   *)
(* as its source worked out.                                               *)
Exact(f) == f.hopCount + HopsLeft(palm, f.sw, f.dest) = f.minPathLength

PathKept ==
    routing = "min" /\ ~palm =>
        \A p \in Packets :
            /\ state[p] # "source" => Exact(flit[p])
            /\ state[p] = "consumed" => flit[p].sw = SwitchOf(flit[p].dest)

LEMMA PathStarts ==
  ASSUME IInv, ~palm, NEW type, NEW src \in Nodes, NEW dest \in Nodes, NEW val
  PROVE  LET g == Injected(type, src, dest, val)
         IN  Exact(g)
<1> DEFINE g == Injected(type, src, dest, val)
<1>1. /\ g.sw = SwitchOf(src) /\ g.dest = dest /\ g.hopCount = 0
      /\ g.minPathLength = MinPathLength(src, dest)
  BY DEF Injected
<1> HIDE DEF g
<1>2. g.minPathLength = HopsLeft(palm, SwitchOf(src), dest)
  BY <1>1, PathLength DEF IInv
<1>3. g.minPathLength \in 0..3
  BY <1>1, PathLengths
<1> QED BY <1>1, <1>2, <1>3 DEF g, Exact

LEMMA SetUpOnce == ASSUME [Next]_vars PROVE palm' = palm /\ routing' = routing
BY DEF Next, Inject, Hop, Answer, Consume, vars

LEMMA PathStays == IInv /\ PathKept /\ [Next]_vars => PathKept'
<1> SUFFICES ASSUME IInv, PathKept, [Next]_vars PROVE PathKept'
  OBVIOUS
<1> SUFFICES ASSUME routing' = "min", ~palm'
             PROVE  \A q \in Packets :
                       /\ state'[q] # "source" => Exact(flit'[q])
                       /\ state'[q] = "consumed" => flit'[q].sw = SwitchOf(flit'[q].dest)
  <2>1. palm' = palm
    BY SetUpOnce
  <2>2. \A f : Exact(f)' <=> Exact(f)
    BY <2>1 DEF Exact
  <2> QED BY <2>2 DEF PathKept
<1>1. /\ flit \in [Packets -> FlitRecord]
      /\ state \in [Packets -> {"source", "network", "consumed"}]
      /\ palm \in BOOLEAN
  BY DEF IInv
<1>2. /\ routing = "min" /\ ~palm
      /\ \A p \in Packets :
            /\ state[p] # "source" => Exact(flit[p])
            /\ state[p] = "consumed" => flit[p].sw = SwitchOf(flit[p].dest)
  <2>1. palm' = palm /\ routing' = routing
    BY SetUpOnce
  <2> QED BY <2>1 DEF PathKept
<1>3. CASE UNCHANGED vars
  BY <1>2, <1>3 DEF vars
<1>4. ASSUME NEW p \in Packets, Inject(p) \/ Hop(p) \/ Answer(p) \/ Consume(p)
      PROVE  \A q \in Packets :
                /\ state'[q] # "source" => Exact(flit'[q])
                /\ state'[q] = "consumed" => flit'[q].sw = SwitchOf(flit'[q].dest)
  <2> DEFINE f == flit[p]
  <2>1. \E g, st :
            /\ flit' = [flit EXCEPT ![p] = g] /\ state' = [state EXCEPT ![p] = st]
            /\ Exact(g)
            /\ st = "consumed" => g.sw = SwitchOf(g.dest)
    <3>1. CASE Inject(p)
      <4>1. PICK src \in Nodes : \E dest \in Nodes :
                InjectFlit(p, IF reactive THEN "PETITION" ELSE "RESPONSE", src, dest)
        BY <3>1 DEF Inject
      <4>2. PICK dest \in Nodes :
                InjectFlit(p, IF reactive THEN "PETITION" ELSE "RESPONSE", src, dest)
        BY <4>1
      <4>3. PICK type, val : flit' = [flit EXCEPT ![p] = Injected(type, src, dest, val)]
        BY <4>2 DEF InjectFlit, Injected
      <4>4. state' = [state EXCEPT ![p] = "network"]
        BY <3>1 DEF Inject
      <4> DEFINE g == Injected(type, src, dest, val)
      <4>5. Exact(g)
        BY <1>2, PathStarts
      <4>6. flit' = [flit EXCEPT ![p] = g]
        BY <4>3
      <4> HIDE DEF g
      <4> WITNESS g, "network"
      <4> QED BY <4>4, <4>5, <4>6
    <3>2. CASE Answer(p)
      <4>1. /\ state' = state /\ state[p] = "network"
            /\ InjectFlit(p, "RESPONSE", f.dest, f.source)
        BY <3>2 DEF Answer
      <4>2. PICK type, val : flit' = [flit EXCEPT ![p] = Injected(type, f.dest, f.source, val)]
        BY <4>1 DEF InjectFlit, Injected
      <4>3. state' = [state EXCEPT ![p] = "network"]
        BY <1>1, <4>1
      <4>4. f.dest \in Nodes /\ f.source \in Nodes
        BY <1>1 DEF FlitRecord
      <4> DEFINE g == Injected(type, f.dest, f.source, val)
      <4> HIDE DEF f
      <4>5. Exact(g)
        BY <1>2, <4>4, PathStarts
      <4>6. flit' = [flit EXCEPT ![p] = g]
        BY <4>2
      <4> HIDE DEF g
      <4> WITNESS g, "network"
      <4> QED BY <4>3, <4>5, <4>6
    <3>3. CASE Hop(p)
      <4>1. /\ state[p] = "network" /\ PortType(OutPort(f)) # "node"
            /\ flit' = [flit EXCEPT ![p] = NextFlit(f)]
            /\ state' = [state EXCEPT ![p] = "network"]
        BY <3>3, Steps
      <4>2. f \in FlitRecord /\ Exact(f)
        BY <1>1, <1>2, <4>1
      <4>3. Goal(f) = f.dest /\ OutPort(f) = minTable[palm][f.sw][f.dest]
        BY <1>2 DEF Goal, OutPort
      <4>4. f.sw \in Switches /\ f.dest \in Nodes /\ f.hopCount \in 0..6
        BY <4>2 DEF FlitRecord
      <4> HIDE DEF f
      <4>5. f.sw # SwitchOf(f.dest)
        BY <4>1, <4>2, <4>3, Route DEF Near
      <4> DEFINE g == NextFlit(f)
      <4>6. /\ g.sw = neighList[palm][f.sw][minTable[palm][f.sw][f.dest]]
            /\ g.dest = f.dest /\ g.hopCount = f.hopCount + 1
            /\ g.minPathLength = f.minPathLength
        BY <4>2, <4>3 DEF NextFlit, FlitRecord
      <4> HIDE DEF g
      <4>7. /\ HopsLeft(palm, f.sw, f.dest) \in 1..3
            /\ HopsLeft(palm, g.sw, f.dest) = HopsLeft(palm, f.sw, f.dest) - 1
        <5>1. OneLess(palm, f.sw, f.dest)
          BY <1>1, <4>4, <4>5, OneHopLess
        <5> QED BY <4>6, <5>1 DEF OneLess
      <4>8. Exact(g)
        BY <4>2, <4>4, <4>6, <4>7 DEF Exact
      <4> QED BY <4>1, <4>8 DEF g
    <3>4. CASE Consume(p)
      <4>1. /\ state[p] = "network" /\ PortType(OutPort(f)) = "node"
            /\ state' = [state EXCEPT ![p] = "consumed"]
            /\ flit' = [flit EXCEPT ![p] =
                   [f EXCEPT !.port = OutPort(f), !.prevSw = f.sw, !.prevP = f.port,
                             !.valNodeReached = ValNodeReached(f)]]
        BY <3>4 DEF Consume
      <4>2. f \in FlitRecord /\ Exact(f)
        BY <1>1, <1>2, <4>1
      <4>3. Goal(f) = f.dest
        BY <1>2 DEF Goal
      <4> HIDE DEF f
      <4>4. f.sw = SwitchOf(f.dest)
        BY <4>1, <4>2, <4>3, Route
      <4> DEFINE g == [f EXCEPT !.port = OutPort(f), !.prevSw = f.sw, !.prevP = f.port,
                                !.valNodeReached = ValNodeReached(f)]
      <4>5. /\ g.sw = f.sw /\ g.dest = f.dest /\ g.hopCount = f.hopCount
            /\ g.minPathLength = f.minPathLength
        BY <4>2 DEF FlitRecord
      <4> HIDE DEF g
      <4>6. /\ Exact(g)
            /\ g.sw = SwitchOf(g.dest)
        BY <4>2, <4>4, <4>5 DEF Exact
      <4> QED BY <4>1, <4>6 DEF g
    <3> QED BY <1>4, <3>1, <3>2, <3>3, <3>4
  <2>2. PICK g, st :
            /\ flit' = [flit EXCEPT ![p] = g] /\ state' = [state EXCEPT ![p] = st]
            /\ Exact(g)
            /\ st = "consumed" => g.sw = SwitchOf(g.dest)
    BY <2>1
  <2> QED BY <1>1, <1>2, <2>2
<1> QED BY <1>3, <1>4 DEF Next

(* With the consecutive layout of the global links every packet that is    *)
(* routed minimally makes as many hops as its source worked out, for every *)
(* size of the network.  (With the palm tree layout it does not: that is   *)
(* what a run of MCDragonfly shows.)                                       *)
THEOREM PathsExact == Spec => [](~palm => MinPathExact)
<1>1. Init => PathKept
  BY DEF Init, PathKept
<1>2. ASSUME IInv, PathKept
      PROVE  ~palm => MinPathExact
  <2> SUFFICES ASSUME ~palm, NEW p \in Packets, state[p] = "consumed", routing = "min"
               PROVE  flit[p].hopCount = flit[p].minPathLength
    BY DEF MinPathExact
  <2>1. /\ Exact(flit[p])
        /\ flit[p].sw = SwitchOf(flit[p].dest)
    BY <1>2 DEF PathKept
  <2>2. HopsLeft(palm, flit[p].sw, flit[p].dest) = 0
    BY <2>1 DEF HopsLeft
  <2>3. flit[p].hopCount \in 0..6
    BY <1>2 DEF IInv, FlitRecord
  <2> QED BY <2>1, <2>2, <2>3 DEF Exact
<1> QED BY <1>1, <1>2, Invariance, PathStays, PTL DEF Spec
=============================================================================
