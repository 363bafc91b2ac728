-------------------------- MODULE CongestionProofs --------------------------
(***************************************************************************)
(* Proofs about Congestion, for every number of switches, links and        *)
(* channels, all delays, thresholds and periods.                           *)
(*                                                                         *)
(* What a switch will hold of another one once it has read what is under   *)
(* way to it (AfterReading) does not change when it reads, and becomes     *)
(* what the other one tells when a notification is appended: so it is what *)
(* the other told last, in any order of the turns (Piggyback, Contention). *)
(* Flits that are counted are in bijection with those that are queued; the *)
(* entries of flits on their way out, with the channels that still send.   *)
(* The counters of ACOR and QCN are related to histories that know nothing *)
(* of them.                                                                *)
(***************************************************************************)
EXTENDS Congestion, FiniteSetTheorems, WellFoundedInduction, TLAPS

-----------------------------------------------------------------------------
(* Every set of natural numbers has a least one.                           *)
LEMMA NatMinimum ==
  ASSUME NEW S \in SUBSET Nat, S # {}
  PROVE  \E m \in S : \A n \in S : m <= n
<1> DEFINE less == {p \in Nat \X Nat : p[1] < p[2]}
<1>0. OpToRel(<, Nat) = less
  BY DEF OpToRel
<1>1. \A n, m \in Nat : <<n, m>> \in less <=> n < m
  OBVIOUS
<1> HIDE DEF less
<1>2. PICK m \in S : \A n \in S : ~(<<n, m>> \in less)
  BY <1>0, NatLessThanWellFounded, WFMin
<1>3. \A n \in S : n \in Nat /\ m \in Nat /\ ~(n < m)
  BY <1>1, <1>2
<1>4. \A n \in S : m <= n
  BY <1>3
<1> QED BY <1>4

(* Min and Max of the places of a list.                                    *)
LEMMA LeastPlace ==
  ASSUME NEW n \in Nat, NEW S \in SUBSET (1..n), S # {}
  PROVE  Min(S) \in S /\ \A k \in S : Min(S) <= k
<1>1. S \in SUBSET Nat
  OBVIOUS
<1>2. \E m \in S : \A k \in S : m <= k
  BY <1>1, NatMinimum
<1> QED BY <1>2 DEF Min

LEMMA GreatestPlace ==
  ASSUME NEW n \in Nat, NEW S \in SUBSET (1..n), S # {}
  PROVE  Max(S) \in S /\ \A k \in S : k <= Max(S)
<1> DEFINE R == {n - k : k \in S}
<1>1. R \in SUBSET Nat /\ R # {}
  <2>1. \A k \in S : k \in 1..n /\ n - k \in Nat
    OBVIOUS
  <2>2. PICK k \in S : TRUE
    OBVIOUS
  <2>3. n - k \in R
    OBVIOUS
  <2> QED BY <2>1, <2>3
<1>2. PICK m \in R : \A r \in R : m <= r
  BY <1>1, NatMinimum
<1>3. PICK k \in S : m = n - k
  BY <1>2
<1>4. ASSUME NEW l \in S PROVE l <= k
  <2>1. n - l \in R
    OBVIOUS
  <2>2. n - k <= n - l /\ l \in Int /\ k \in Int
    BY <1>2, <1>3, <2>1
  <2> QED BY <2>2
<1>5. \E l \in S : \A j \in S : l >= j
  BY <1>4
<1>6. Max(S) \in S /\ \A j \in S : Max(S) >= j
  BY <1>5 DEF Max
<1> QED BY <1>6


-----------------------------------------------------------------------------
(* Notifications.                                                          *)

LEMMA FromAtFinite ==
  ASSUME NEW T, NEW q \in Seq(T), NEW t, FromAt(q, t) # {}
  PROVE  /\ Max(FromAt(q, t)) \in FromAt(q, t)
         /\ \A i \in FromAt(q, t) : i <= Max(FromAt(q, t))
<1>1. FromAt(q, t) \in SUBSET (1..Len(q)) /\ Len(q) \in Nat
  BY DEF FromAt
<1> QED BY <1>1, GreatestPlace

(* The places of a list that has a greatest one.                           *)
LEMMA GreatestIs ==
  ASSUME NEW T, NEW q \in Seq(T), NEW t, NEW m \in FromAt(q, t),
         \A i \in FromAt(q, t) : i <= m
  PROVE  Max(FromAt(q, t)) = m
<1>1. Max(FromAt(q, t)) \in FromAt(q, t) /\ m <= Max(FromAt(q, t))
  BY FromAtFinite
<1>2. Max(FromAt(q, t)) \in Int /\ m \in Int
  BY <1>1 DEF FromAt
<1> QED BY <1>1, <1>2

(* A notification that is appended is what its sender told last.           *)
LEMMA ReadingAppended ==
  ASSUME NEW T, NEW q \in Seq(T), NEW f \in T, NEW view, NEW t \in Routers
  PROVE  AfterReading(Append(q, f), view)[t]
           = IF f.from = t THEN f.info ELSE AfterReading(q, view)[t]
<1> DEFINE r == Append(q, f)
           n == Len(q)
<1>1. n \in Nat /\ Len(r) = n + 1 /\ r \in Seq(T) /\ r[n + 1] = f
      /\ \A i \in 1..n : r[i] = q[i]
  OBVIOUS
<1> HIDE DEF r
<1>2. CASE f.from = t
  <2>1. n + 1 \in FromAt(r, t) /\ \A i \in FromAt(r, t) : i <= n + 1
    BY <1>1, <1>2 DEF FromAt
  <2>2. Max(FromAt(r, t)) = n + 1
    BY <1>1, <2>1, GreatestIs
  <2> QED BY <1>1, <1>2, <2>1, <2>2 DEF AfterReading, r
<1>3. CASE f.from # t
  <2>1. FromAt(r, t) = FromAt(q, t)
    BY <1>1, <1>3 DEF FromAt
  <2>2. CASE FromAt(q, t) = {}
    BY <1>3, <2>1, <2>2 DEF AfterReading, r
  <2>3. CASE FromAt(q, t) # {}
    <3>1. Max(FromAt(q, t)) \in 1..n
      BY <2>3, FromAtFinite DEF FromAt
    <3>2. r[Max(FromAt(r, t))] = q[Max(FromAt(q, t))]
      BY <1>1, <2>1, <3>1
    <3> QED BY <1>3, <2>1, <2>3, <3>2 DEF AfterReading, r
  <2> QED BY <2>2, <2>3
<1> QED BY <1>2, <1>3

(* Reading a list in two goes is reading it in one.                        *)
LEMMA ReadingSplit ==
  ASSUME NEW T, NEW q \in Seq(T), NEW n \in 0..Len(q), NEW t \in Routers,
         NEW view, NEW older, older[t] = view[t]
  PROVE  AfterReading(SubSeq(q, n + 1, Len(q)), AfterReading(SubSeq(q, 1, n), older))[t]
           = AfterReading(q, view)[t]
<1> DEFINE a == SubSeq(q, 1, n)
           b == SubSeq(q, n + 1, Len(q))
<1>1. a \in Seq(T) /\ Len(a) = n /\ \A i \in 1..n : a[i] = q[i]
  OBVIOUS
<1>2. b \in Seq(T) /\ Len(b) = Len(q) - n /\ \A i \in 1..(Len(q) - n) : b[i] = q[n + i]
  OBVIOUS
<1>3. Len(q) \in Nat
  OBVIOUS
<1> HIDE DEF a, b
<1>4. CASE FromAt(b, t) = {}
  <2>1. \A i \in 1..Len(q) : q[i].from = t => i \in 1..n
    <3> SUFFICES ASSUME NEW i \in 1..Len(q), i > n, q[i].from = t PROVE FALSE
      OBVIOUS
    <3>1. i - n \in 1..(Len(q) - n) /\ n + (i - n) = i
      BY <1>3
    <3>2. b[i - n] = q[i]
      BY <1>2, <3>1
    <3> QED BY <1>2, <1>4, <3>1, <3>2 DEF FromAt
  <2>2. FromAt(a, t) = FromAt(q, t)
    BY <1>1, <1>3, <2>1 DEF FromAt
  <2>3. AfterReading(a, older)[t] = AfterReading(q, view)[t]
    <3>1. CASE FromAt(q, t) = {}
      BY <2>2, <3>1 DEF AfterReading
    <3>2. CASE FromAt(q, t) # {}
      <4>1. Max(FromAt(a, t)) \in 1..n
        BY <1>1, <2>2, <3>2, FromAtFinite DEF FromAt
      <4>2. a[Max(FromAt(a, t))] = q[Max(FromAt(q, t))]
        BY <1>1, <2>2, <4>1
      <4> QED BY <2>2, <3>2, <4>2 DEF AfterReading
    <3> QED BY <3>1, <3>2
  <2> QED BY <1>4, <2>3 DEF AfterReading, a, b
<1>5. CASE FromAt(b, t) # {}
  <2> DEFINE m == Max(FromAt(b, t))
  <2>1. m \in FromAt(b, t) /\ \A i \in FromAt(b, t) : i <= m
    BY <1>2, <1>5, FromAtFinite
  <2> HIDE DEF m
  <2>2. m \in 1..(Len(q) - n) /\ b[m].from = t /\ b[m] = q[n + m]
    BY <1>2, <2>1 DEF FromAt
  <2>3. n + m \in FromAt(q, t)
    BY <1>3, <2>2 DEF FromAt
  <2>4. ASSUME NEW i \in FromAt(q, t) PROVE i <= n + m
    <3>1. i \in 1..Len(q) /\ q[i].from = t
      BY DEF FromAt
    <3>2. CASE i <= n
      BY <2>2, <3>1, <3>2
    <3>3. CASE i > n
      <4>1. i - n \in 1..(Len(q) - n) /\ n + (i - n) = i
        BY <1>3, <3>1, <3>3
      <4>2. i - n \in FromAt(b, t)
        BY <1>2, <3>1, <4>1 DEF FromAt
      <4> QED BY <2>1, <2>2, <3>1, <4>2
    <3> QED BY <3>1, <3>2, <3>3
  <2>5. Max(FromAt(q, t)) = n + m
    BY <2>3, <2>4, GreatestIs
  <2> QED BY <1>5, <2>2, <2>3, <2>5 DEF AfterReading, b, m
<1> QED BY <1>4, <1>5

LEMMA FromAtAppended ==
  ASSUME NEW T, NEW q \in Seq(T), NEW f \in T, NEW t, f.from # t, FromAt(q, t) = {}
  PROVE  FromAt(Append(q, f), t) = {}
<1>1. \A i \in 1..(Len(q) + 1) : i \in 1..Len(q) \/ i = Len(q) + 1
  OBVIOUS
<1> QED BY <1>1 DEF FromAt

(* The notifications that are due are the first ones of the list, and the  *)
(* first that is left is not due.                                          *)
LEMMA DueFirst ==
  ASSUME NEW T, NEW q \in Seq(T)
  PROVE  \E n \in 0..Len(q) :
           /\ Due(q) = SubSeq(q, 1, n) /\ NotDue(q) = SubSeq(q, n + 1, Len(q))
           /\ n < Len(q) => q[n + 1].arrival > cycle
<1> DEFINE late == {i \in 1..Len(q) : q[i].arrival > cycle}
<1>0. Len(q) \in Nat
  OBVIOUS
<1>1. CASE late = {}
  <2>1. Due(q) = q
    BY <1>1 DEF Due
  <2>2. q = SubSeq(q, 1, Len(q))
    OBVIOUS
  <2>3. NotDue(q) = SubSeq(q, Len(q) + 1, Len(q))
    BY <2>1 DEF NotDue
  <2> DEFINE n == Len(q)
  <2>4. n \in 0..Len(q) /\ ~(n < Len(q))
    BY <1>0
  <2> HIDE DEF late
  <2> QED BY <2>1, <2>2, <2>3, <2>4
<1>2. CASE late # {}
  <2> DEFINE m == Min(late)
  <2>1. m \in late
    BY <1>0, <1>2, LeastPlace
  <2>2. Due(q) = SubSeq(q, 1, m - 1)
    BY <1>2 DEF Due
  <2> HIDE DEF m
  <2>3. m \in 1..Len(q) /\ q[m].arrival > cycle
    BY <2>1
  <2>4. m - 1 \in 0..Len(q) /\ m - 1 + 1 = m
    BY <1>0, <2>3
  <2>5. Len(Due(q)) = m - 1
    BY <1>0, <2>2, <2>4
  <2> QED BY <2>2, <2>3, <2>4, <2>5 DEF NotDue
<1> QED BY <1>1, <1>2

LEMMA ReadingType ==
  ASSUME NEW Info, NEW T, \A f \in T : f.info \in Info, NEW q \in Seq(T),
         NEW view \in [Routers -> Info]
  PROVE  AfterReading(Due(q), view) \in [Routers -> Info]
<1>1. PICK n \in 0..Len(q) : Due(q) = SubSeq(q, 1, n)
  BY DueFirst
<1>2. Due(q) \in Seq(T)
  BY <1>1
<1>3. ASSUME NEW t \in Routers, FromAt(Due(q), t) # {}
      PROVE  Due(q)[Max(FromAt(Due(q), t))].info \in Info
  <2>1. Max(FromAt(Due(q), t)) \in 1..Len(Due(q))
    BY <1>2, <1>3, FromAtFinite DEF FromAt
  <2> QED BY <1>2, <2>1
<1>4. \A t \in Routers : AfterReading(Due(q), view)[t] \in Info
  BY <1>3 DEF AfterReading
<1> QED BY <1>4 DEF AfterReading

(* Reading what is due leaves what will be held as it is.                  *)
LEMMA ReadingDue ==
  ASSUME NEW T, NEW q \in Seq(T), NEW t \in Routers, NEW view, NEW older,
         older[t] = view[t]
  PROVE  /\ AfterReading(NotDue(q), AfterReading(Due(q), older))[t]
              = AfterReading(q, view)[t]
         /\ Due(q) \in Seq(T) /\ NotDue(q) \in Seq(T)
<1>1. PICK n \in 0..Len(q) :
        Due(q) = SubSeq(q, 1, n) /\ NotDue(q) = SubSeq(q, n + 1, Len(q))
  BY DueFirst
<1>2. AfterReading(NotDue(q), AfterReading(Due(q), older))[t] = AfterReading(q, view)[t]
  BY <1>1, ReadingSplit
<1>3. Len(q) \in Nat
  OBVIOUS
<1>4. /\ Due(q) \in Seq(T) /\ Len(Due(q)) = n /\ \A i \in 1..n : Due(q)[i] = q[i]
  BY <1>1
<1>5. /\ NotDue(q) \in Seq(T) /\ Len(NotDue(q)) = Len(q) - n
      /\ \A i \in 1..(Len(q) - n) : NotDue(q)[i] = q[n + i]
  BY <1>1, <1>3
<1> QED BY <1>2, <1>4, <1>5

(* What it holds of a switch that told it nothing is left alone.           *)
LEMMA ReadingNothing ==
  ASSUME NEW T, NEW q \in Seq(T), NEW t \in Routers, NEW view, FromAt(q, t) = {}
  PROVE  FromAt(NotDue(q), t) = {} /\ AfterReading(Due(q), view)[t] = view[t]
<1>1. PICK n \in 0..Len(q) :
        Due(q) = SubSeq(q, 1, n) /\ NotDue(q) = SubSeq(q, n + 1, Len(q))
  BY DueFirst
<1>2. Len(q) \in Nat
  OBVIOUS
<1>3. Len(Due(q)) = n /\ \A i \in 1..n : Due(q)[i] = q[i]
  BY <1>1
<1>4. Len(NotDue(q)) = Len(q) - n /\ \A i \in 1..(Len(q) - n) : NotDue(q)[i] = q[n + i]
  BY <1>1, <1>2
<1>5. \A i \in 1..Len(q) : q[i].from # t
  BY DEF FromAt
<1>6. FromAt(NotDue(q), t) = {}
  <2>1. \A i \in 1..(Len(q) - n) : n + i \in 1..Len(q)
    BY <1>2
  <2> QED BY <1>4, <1>5, <2>1 DEF FromAt
<1>7. FromAt(Due(q), t) = {}
  <2>1. \A i \in 1..n : i \in 1..Len(q)
    BY <1>2
  <2> QED BY <1>3, <1>5, <2>1 DEF FromAt
<1> QED BY <1>6, <1>7 DEF AfterReading

(* Turns.                                                                  *)
TurnsOK == cycle \in 0..MaxCycle /\ turn \in Routers

LEMMA TurnTaken ==
  ASSUME TurnsOK, NEW s \in Routers, TurnOf(s)
  PROVE  TurnsOK' /\ cycle' >= cycle /\ cycle \in Nat /\ cycle' \in Nat
<1> USE TurnsAssumption DEF TurnsAssumption, TurnsOK, Routers
<1>1. cycle \in 0..MaxCycle /\ s \in 0..(A - 1) /\ cycle < MaxCycle
  BY DEF TurnOf
<1>2. CASE s = A - 1
  BY <1>1, <1>2 DEF TurnOf
<1>3. CASE s # A - 1
  BY <1>1, <1>3 DEF TurnOf
<1> QED BY <1>2, <1>3

(* The arrivals in a list are in order and none is later than last.        *)
InOrder(q, last) ==
    \A i \in 1..Len(q) :
        /\ q[i].arrival \in Nat /\ q[i].arrival <= last
        /\ \A j \in 1..i : q[j].arrival <= q[i].arrival

LEMMA InOrderAppended ==
  ASSUME NEW T, NEW q \in Seq(T), NEW f \in T, NEW last \in Nat, InOrder(q, last),
         f.arrival = last
  PROVE  InOrder(Append(q, f), last)
<1> DEFINE r == Append(q, f)
           n == Len(q)
<1>1. n \in Nat /\ Len(r) = n + 1 /\ r[n + 1] = f /\ \A i \in 1..n : r[i] = q[i]
  OBVIOUS
<1> HIDE DEF r
<1>2. ASSUME NEW i \in 1..(n + 1)
      PROVE  /\ r[i].arrival \in Nat /\ r[i].arrival <= last
             /\ \A j \in 1..i : r[j].arrival <= r[i].arrival
  <2>1. CASE i \in 1..n
    <3>1. \A j \in 1..i : j \in 1..n
      BY <1>1, <2>1
    <3> QED BY <1>1, <2>1, <3>1 DEF InOrder
  <2>2. CASE i = n + 1
    <3>1. \A j \in 1..i : j \in 1..n \/ j = n + 1
      BY <1>1, <2>2
    <3> QED BY <1>1, <2>2, <3>1 DEF InOrder
  <2> QED BY <1>1, <2>1, <2>2
<1> QED BY <1>1, <1>2 DEF InOrder, r

LEMMA InOrderLeft ==
  ASSUME NEW T, NEW q \in Seq(T), NEW last \in Nat, NEW later \in Nat, last <= later,
         InOrder(q, last), cycle \in Nat
  PROVE  /\ InOrder(NotDue(q), later) /\ InOrder(q, later)
         /\ \A i \in 1..Len(NotDue(q)) : NotDue(q)[i].arrival > cycle
<1>1. PICK n \in 0..Len(q) :
        /\ NotDue(q) = SubSeq(q, n + 1, Len(q))
        /\ n < Len(q) => q[n + 1].arrival > cycle
  BY DueFirst
<1> DEFINE b == NotDue(q)
<1>2. Len(q) \in Nat
  OBVIOUS
<1>3. /\ Len(b) = Len(q) - n /\ \A i \in 1..(Len(q) - n) : b[i] = q[n + i]
  BY <1>1, <1>2
<1> HIDE DEF b
<1>4. \A i \in 1..Len(q) : /\ q[i].arrival \in Nat /\ q[i].arrival <= later
                           /\ \A j \in 1..i : q[j].arrival <= q[i].arrival
  BY DEF InOrder
<1>5. ASSUME NEW i \in 1..(Len(q) - n)
      PROVE  /\ b[i].arrival \in Nat /\ b[i].arrival <= later /\ b[i].arrival > cycle
             /\ \A j \in 1..i : b[j].arrival <= b[i].arrival
  <2>1. n + i \in 1..Len(q) /\ n + 1 \in 1..(n + i) /\ n + 1 \in 1..Len(q)
    BY <1>2
  <2>2. b[i] = q[n + i]
    BY <1>3
  <2>3. q[n + 1].arrival > cycle /\ q[n + 1].arrival <= q[n + i].arrival
    BY <1>1, <1>2, <1>4, <2>1
  <2>4. ASSUME NEW j \in 1..i PROVE b[j].arrival <= b[i].arrival
    <3>1. j \in 1..(Len(q) - n) /\ n + j \in 1..(n + i)
      BY <1>2
    <3> QED BY <1>3, <1>4, <2>1, <2>2, <3>1
  <2>5. q[n + i].arrival \in Nat /\ q[n + i].arrival <= later /\ q[n + 1].arrival \in Nat
    BY <1>4, <2>1
  <2> QED BY SMTT(60), <2>2, <2>3, <2>4, <2>5
<1> QED BY <1>3, <1>4, <1>5 DEF InOrder, b

-----------------------------------------------------------------------------
(* Piggyback.                                                              *)

PbIInv ==
    /\ PbTypeOK
    /\ PbConsistent
    /\ \A s \in Routers : InOrder(incomingPb[s], cycle + LocalDelay)

LEMMA PbInitially == TurnsInit /\ PbInit => PbIInv
<1> SUFFICES ASSUME TurnsInit, PbInit PROVE PbIInv
  OBVIOUS
<1>1. \A s \in Routers : \A t : FromAt(incomingPb[s], t) = {}
  BY DEF PbInit, FromAt
<1>2. PbTypeOK
  <2>1. 0 \in Occupancies
    BY PiggybackAssumption DEF PiggybackAssumption
  <2>2. m_globalLinkCongested \in [Routers -> [Routers -> LinkInfo]]
    BY DEF PbInit, LinkInfo, Clear
  <2>3. occupancy \in [Routers -> [Links -> [Chans -> Occupancies]]]
    BY <2>1 DEF PbInit
  <2>4. incomingPb \in [Routers -> Seq(PbFlit)]
    BY DEF PbInit
  <2> QED BY <1>1, <2>2, <2>3, <2>4 DEF PbInit, PbTypeOK
<1>3. PbConsistent
  BY <1>1 DEF PbInit, PbConsistent, AfterReading, Others
<1>4. \A s \in Routers : InOrder(incomingPb[s], cycle + LocalDelay)
  BY DEF PbInit, InOrder
<1> QED BY <1>2, <1>3, <1>4 DEF PbIInv

LEMMA OwnStatusType ==
  ASSUME NEW info \in LinkInfo, NEW occ PROVE OwnStatus(occ, info) \in LinkInfo
<1> DEFINE own(l, c) ==
      IF detection = "PER_VC" THEN occ[l][c] > ChannelThreshold(occ, c)
      ELSE IF c # 0 THEN info[l][c]
      ELSE MapThenSumSet(LAMBDA k : occ[l][k], Chans) > GlobalChannels * PortThreshold(occ)
<1>1. ASSUME NEW l \in Links, NEW c \in Chans PROVE own(l, c) \in BOOLEAN
  <2> DEFINE total == MapThenSumSet(LAMBDA k : occ[l][k], Chans)
             limit == GlobalChannels * PortThreshold(occ)
             bound == ChannelThreshold(occ, c)
             phits == occ[l][c]
  <2>1. \A x, y : (x > y) \in BOOLEAN
    OBVIOUS
  <2>2. info[l][c] \in BOOLEAN
    BY DEF LinkInfo
  <2>3. (phits > bound) \in BOOLEAN /\ (total > limit) \in BOOLEAN
    <3> HIDE DEF total, limit, bound, phits
    <3> QED BY <2>1
  <2>4. own(l, c) = IF detection = "PER_VC" THEN phits > bound
                    ELSE IF c # 0 THEN info[l][c] ELSE total > limit
    BY Zenon
  <2> HIDE DEF total, limit, bound, phits, own
  <2>5. CASE detection = "PER_VC"
    BY <2>3, <2>4, <2>5, Zenon
  <2>6. CASE detection # "PER_VC" /\ c # 0
    BY <2>2, <2>4, <2>6, Zenon
  <2>7. CASE detection # "PER_VC" /\ c = 0
    BY <2>3, <2>4, <2>7, Zenon
  <2> QED BY <2>5, <2>6, <2>7, Zenon
<1> HIDE DEF own
<1>2. [l \in Links |-> [c \in Chans |-> own(l, c)]] \in LinkInfo
  BY <1>1 DEF LinkInfo
<1> QED BY <1>2 DEF OwnStatus, own

(* A switch acts: it updates its own marks, reads and tells.               *)
LEMMA PbActInv ==
  ASSUME PbIInv, TurnsOK, NEW s \in Routers, PbAct(s) PROVE PbIInv'
<1>1. PbTypeOK /\ PbConsistent /\ \A r \in Routers : InOrder(incomingPb[r], cycle + LocalDelay)
  BY DEF PbIInv
<1>2. PICK l \in Links, c \in Chans, q \in Occupancies :
        /\ occupancy' = [occupancy EXCEPT ![s][l][c] = q]
        /\ UpdatePb(s, occupancy'[s])
  BY DEF PbAct
<1>3. detection' = detection /\ loop' = loop /\ TurnOf(s)
  BY DEF PbAct
<1>4. /\ m_globalLinkCongested \in [Routers -> [Routers -> LinkInfo]]
      /\ incomingPb \in [Routers -> Seq(PbFlit)]
      /\ occupancy \in [Routers -> [Links -> [Chans -> Occupancies]]]
      /\ \A r \in Routers : FromAt(incomingPb[r], r) = {}
  BY <1>1 DEF PbTypeOK
<1> DEFINE view == m_globalLinkCongested[s]
           own == OwnStatus(occupancy'[s], view[s])
           told == [from |-> s, info |-> own, arrival |-> cycle + LocalDelay]
           older == [view EXCEPT ![s] = own]
<1>5. /\ m_globalLinkCongested' = [m_globalLinkCongested EXCEPT ![s] = ReadFlits(s, older)]
      /\ incomingPb' = [t \in Routers |-> IF t = s THEN NotDue(incomingPb[s])
                                           ELSE Append(incomingPb[t], told)]
  BY <1>2, Zenon DEF UpdatePb
<1>6. own \in LinkInfo
  BY <1>4, OwnStatusType
<1> HIDE DEF own
<1>7. cycle \in Nat /\ cycle' \in Nat /\ cycle' >= cycle /\ LocalDelay \in Nat
  BY <1>3, TurnTaken, TurnsAssumption DEF TurnsAssumption
<1>8. told \in PbFlit
  BY <1>6, <1>7 DEF PbFlit
<1>9. /\ older \in [Routers -> LinkInfo] /\ older[s] = own
      /\ \A t \in Others(s) : older[t] = view[t]
  BY <1>4, <1>6 DEF Others
<1> HIDE DEF told, older
<1>10. /\ m_globalLinkCongested'[s] = AfterReading(Due(incomingPb[s]), older)
       /\ \A r \in Others(s) : m_globalLinkCongested'[r] = m_globalLinkCongested[r]
  BY <1>4, <1>5 DEF ReadFlits, Others
<1>11. /\ incomingPb'[s] = NotDue(incomingPb[s])
       /\ \A r \in Others(s) : incomingPb'[r] = Append(incomingPb[r], told)
  BY <1>5 DEF Others
<1>12. /\ m_globalLinkCongested'[s][s] = own
       /\ \A t \in Others(s) : m_globalLinkCongested'[t][t] = m_globalLinkCongested[t][t]
  <2>1. incomingPb[s] \in Seq(PbFlit) /\ FromAt(incomingPb[s], s) = {}
    BY <1>4
  <2>2. AfterReading(Due(incomingPb[s]), older)[s] = older[s]
    BY <2>1, ReadingNothing
  <2> QED BY <1>9, <1>10, <2>2
<1>13. PbTypeOK'
  <2>1. m_globalLinkCongested' \in [Routers -> [Routers -> LinkInfo]]
    <3>1. ReadFlits(s, older) \in [Routers -> LinkInfo]
      <4>1. \A f \in PbFlit : f.info \in LinkInfo
        BY DEF PbFlit
      <4>2. incomingPb[s] \in Seq(PbFlit)
        BY <1>4
      <4> QED BY <1>9, <4>1, <4>2, ReadingType DEF ReadFlits
    <3> QED BY <1>4, <1>5, <3>1
  <2>2. incomingPb' \in [Routers -> Seq(PbFlit)]
    <3>1. NotDue(incomingPb[s]) \in Seq(PbFlit)
      BY <1>4, ReadingDue
    <3>2. \A t \in Routers : Append(incomingPb[t], told) \in Seq(PbFlit)
      BY <1>4, <1>8
    <3> QED BY <1>5, <3>1, <3>2
  <2>3. \A r \in Routers : FromAt(incomingPb'[r], r) = {}
    <3>1. FromAt(incomingPb'[s], s) = {}
      BY <1>4, <1>11, ReadingNothing
    <3>2. ASSUME NEW r \in Others(s) PROVE FromAt(incomingPb'[r], r) = {}
      <4>1. told.from # r /\ r \in Routers
        BY DEF told, Others
      <4>2. FromAt(incomingPb[r], r) = {} /\ incomingPb[r] \in Seq(PbFlit)
        BY <1>4, <4>1
      <4> QED BY <1>8, <1>11, <4>1, <4>2, FromAtAppended
    <3> QED BY <3>1, <3>2 DEF Others
  <2>4. occupancy' \in [Routers -> [Links -> [Chans -> Occupancies]]]
    BY <1>2, <1>4
  <2> QED BY <1>1, <1>3, <2>1, <2>2, <2>3, <2>4 DEF PbTypeOK
<1>14. PbConsistent'
  <2> SUFFICES ASSUME NEW r \in Routers, NEW t \in Others(r)
               PROVE  AfterReading(incomingPb'[r], m_globalLinkCongested'[r])[t]
                        = m_globalLinkCongested'[t][t]
    BY DEF PbConsistent
  <2>0. t \in Routers /\ t # r
    BY DEF Others
  <2>1. AfterReading(incomingPb[r], m_globalLinkCongested[r])[t] = m_globalLinkCongested[t][t]
    BY <1>1 DEF PbConsistent
  <2>2. CASE r = s
    <3>1. older[t] = view[t] /\ t \in Others(s)
      BY <1>9, <2>2
    <3>2. incomingPb[s] \in Seq(PbFlit)
      BY <1>4
    <3>3. AfterReading(NotDue(incomingPb[s]), AfterReading(Due(incomingPb[s]), older))[t]
            = AfterReading(incomingPb[s], view)[t]
      BY <2>0, <3>1, <3>2, ReadingDue
    <3> QED BY <1>10, <1>11, <1>12, <2>1, <2>2, <3>1, <3>3
  <2>3. CASE r # s
    <3>1. r \in Others(s)
      BY <2>3 DEF Others
    <3>2. AfterReading(Append(incomingPb[r], told), m_globalLinkCongested[r])[t]
            = IF told.from = t THEN told.info
              ELSE AfterReading(incomingPb[r], m_globalLinkCongested[r])[t]
      BY <1>4, <1>8, <2>0, ReadingAppended
    <3>3. told.from = s /\ told.info = own
      BY DEF told
    <3>4. t = s \/ t \in Others(s)
      BY <2>0 DEF Others
    <3> QED BY <1>10, <1>11, <1>12, <2>1, <3>1, <3>2, <3>3, <3>4
  <2> QED BY <2>2, <2>3
<1>15. ASSUME NEW r \in Routers PROVE InOrder(incomingPb'[r], cycle' + LocalDelay)
  <2>1. /\ cycle + LocalDelay \in Nat /\ cycle' + LocalDelay \in Nat
        /\ cycle + LocalDelay <= cycle' + LocalDelay
    <3>1. \A x, y, d \in Nat : y >= x => /\ x + d \in Nat /\ y + d \in Nat
                                        /\ x + d <= y + d
      OBVIOUS
    <3> QED BY <1>7, <3>1
  <2>2. incomingPb[r] \in Seq(PbFlit) /\ InOrder(incomingPb[r], cycle + LocalDelay)
    BY <1>1, <1>4
  <2>3. CASE r = s
    BY <1>7, <1>11, <2>1, <2>2, <2>3, InOrderLeft
  <2>4. CASE r # s
    <3>1. told.arrival = cycle + LocalDelay
      BY DEF told
    <3>2. InOrder(Append(incomingPb[r], told), cycle + LocalDelay)
      BY <1>8, <2>1, <2>2, <3>1, InOrderAppended
    <3>3. Append(incomingPb[r], told) \in Seq(PbFlit)
      BY <1>8, <2>2
    <3>4. InOrder(Append(incomingPb[r], told), cycle' + LocalDelay)
      BY <1>7, <2>1, <3>2, <3>3, InOrderLeft
    <3> QED BY <1>11, <2>4, <3>4 DEF Others
  <2> QED BY <2>3, <2>4
<1> QED BY <1>13, <1>14, <1>15 DEF PbIInv

(* Nothing happens but that time passes.                                   *)
LEMMA PbLaterInv ==
  ASSUME PbIInv, cycle \in Nat, cycle' \in Nat, cycle' >= cycle, pbVars' = pbVars
  PROVE  PbIInv'
<1>1. /\ detection' = detection /\ loop' = loop /\ occupancy' = occupancy
      /\ m_globalLinkCongested' = m_globalLinkCongested /\ incomingPb' = incomingPb
  BY DEF pbVars
<1>2. PbTypeOK' /\ PbConsistent'
  BY <1>1 DEF PbIInv, PbTypeOK, PbConsistent
<1>3. ASSUME NEW r \in Routers PROVE InOrder(incomingPb'[r], cycle' + LocalDelay)
  <2>1. /\ cycle + LocalDelay \in Nat /\ cycle' + LocalDelay \in Nat
        /\ cycle + LocalDelay <= cycle' + LocalDelay
    <3>1. \A x, y, d \in Nat : y >= x => /\ x + d \in Nat /\ y + d \in Nat
                                        /\ x + d <= y + d
      OBVIOUS
    <3> QED BY <3>1, TurnsAssumption DEF TurnsAssumption
  <2>2. incomingPb[r] \in Seq(PbFlit) /\ InOrder(incomingPb[r], cycle + LocalDelay)
    BY DEF PbIInv, PbTypeOK
  <2> QED BY <1>1, <2>1, <2>2, InOrderLeft
<1> QED BY <1>2, <1>3 DEF PbIInv

(* A switch is idle, and may read.                                         *)
LEMMA PbIdleInv ==
  ASSUME PbIInv, TurnsOK, NEW s \in Routers, PbIdle(s) PROVE PbIInv'
<1>1. cycle \in Nat /\ cycle' \in Nat /\ cycle' >= cycle /\ LocalDelay \in Nat
  BY TurnTaken, TurnsAssumption DEF PbIdle, TurnsAssumption
<1>2. CASE loop # "trace"
  <2>1. pbVars' = pbVars
    BY <1>2 DEF PbIdle, pbVars
  <2> QED BY <1>1, <2>1, PbLaterInv
<1>3. CASE loop = "trace"
  <2>1. /\ m_globalLinkCongested' = [m_globalLinkCongested EXCEPT
               ![s] = AfterReading(Due(incomingPb[s]), m_globalLinkCongested[s])]
        /\ incomingPb' = [incomingPb EXCEPT ![s] = NotDue(@)]
        /\ detection' = detection /\ loop' = loop /\ occupancy' = occupancy
    BY <1>3 DEF PbIdle, ReadFlits
  <2>2. /\ m_globalLinkCongested \in [Routers -> [Routers -> LinkInfo]]
        /\ incomingPb \in [Routers -> Seq(PbFlit)]
        /\ \A r \in Routers : FromAt(incomingPb[r], r) = {}
        /\ \A r \in Routers : InOrder(incomingPb[r], cycle + LocalDelay)
    BY DEF PbIInv, PbTypeOK
  <2> DEFINE view == m_globalLinkCongested[s]
             q == incomingPb[s]
  <2>3. q \in Seq(PbFlit) /\ FromAt(q, s) = {} /\ view \in [Routers -> LinkInfo]
    BY <2>2
  <2>4. /\ m_globalLinkCongested'[s] = AfterReading(Due(q), view)
        /\ incomingPb'[s] = NotDue(q)
        /\ \A r \in Others(s) : /\ m_globalLinkCongested'[r] = m_globalLinkCongested[r]
                                /\ incomingPb'[r] = incomingPb[r]
    BY <2>1, <2>2 DEF Others
  <2> HIDE DEF view, q
  <2>5. FromAt(NotDue(q), s) = {} /\ AfterReading(Due(q), view)[s] = view[s]
    BY <2>3, ReadingNothing
  <2>6. PbTypeOK'
    <3>1. AfterReading(Due(q), view) \in [Routers -> LinkInfo]
      <4>1. \A f \in PbFlit : f.info \in LinkInfo
        BY DEF PbFlit
      <4> QED BY <2>3, <4>1, ReadingType
    <3>2. m_globalLinkCongested' \in [Routers -> [Routers -> LinkInfo]]
      BY <2>1, <2>2, <3>1 DEF view, q
    <3>3. NotDue(q) \in Seq(PbFlit)
      BY <2>3, ReadingDue
    <3>4. incomingPb' \in [Routers -> Seq(PbFlit)]
      BY <2>1, <2>2, <3>3 DEF q
    <3>5. \A r \in Routers : FromAt(incomingPb'[r], r) = {}
      BY <2>2, <2>4, <2>5 DEF Others
    <3> QED BY <2>1, <3>2, <3>4, <3>5 DEF PbIInv, PbTypeOK
  <2>7. \A t \in Routers : m_globalLinkCongested'[t][t] = m_globalLinkCongested[t][t]
    BY <2>4, <2>5 DEF Others, view
  <2>8. PbConsistent'
    <3> SUFFICES ASSUME NEW r \in Routers, NEW t \in Others(r)
                 PROVE  AfterReading(incomingPb'[r], m_globalLinkCongested'[r])[t]
                          = m_globalLinkCongested'[t][t]
      BY DEF PbConsistent
    <3>1. AfterReading(incomingPb[r], m_globalLinkCongested[r])[t] = m_globalLinkCongested[t][t]
      BY DEF PbIInv, PbConsistent
    <3>2. t \in Routers
      BY DEF Others
    <3>3. CASE r = s
      <4>1. AfterReading(NotDue(q), AfterReading(Due(q), view))[t] = AfterReading(q, view)[t]
        BY <2>3, <3>2, ReadingDue
      <4> QED BY <2>4, <2>7, <3>1, <3>2, <3>3, <4>1 DEF q, view
    <3>4. CASE r # s
      BY <2>4, <2>7, <3>1, <3>2, <3>4 DEF Others
    <3> QED BY <3>3, <3>4
  <2>9. ASSUME NEW r \in Routers PROVE InOrder(incomingPb'[r], cycle' + LocalDelay)
    <3>1. /\ cycle + LocalDelay \in Nat /\ cycle' + LocalDelay \in Nat
          /\ cycle + LocalDelay <= cycle' + LocalDelay
      <4>1. \A x, y, d \in Nat : y >= x => /\ x + d \in Nat /\ y + d \in Nat
                                          /\ x + d <= y + d
        OBVIOUS
      <4> QED BY <1>1, <4>1
    <3>2. incomingPb[r] \in Seq(PbFlit) /\ InOrder(incomingPb[r], cycle + LocalDelay)
      BY <2>2
    <3>3. /\ InOrder(NotDue(incomingPb[r]), cycle' + LocalDelay)
          /\ InOrder(incomingPb[r], cycle' + LocalDelay)
      BY <1>1, <3>1, <3>2, InOrderLeft
    <3> QED BY <2>4, <3>3 DEF Others, q
  <2> QED BY <2>6, <2>8, <2>9 DEF PbIInv
<1> QED BY <1>2, <1>3

(* Whose notifications wait, and for how long.                             *)
LEMMA PbActReads ==
  ASSUME PbIInv, TurnsOK, NEW s \in Routers, PbAct(s)
  PROVE  \A i \in 1..Len(incomingPb'[s]) : incomingPb'[s][i].arrival > cycle
<1>1. cycle \in Nat /\ LocalDelay \in Nat /\ cycle + LocalDelay \in Nat
  BY TurnTaken, TurnsAssumption DEF PbAct, TurnsAssumption
<1>2. incomingPb[s] \in Seq(PbFlit) /\ InOrder(incomingPb[s], cycle + LocalDelay)
  BY DEF PbIInv, PbTypeOK
<1>3. incomingPb'[s] = NotDue(incomingPb[s])
  BY DEF PbAct, UpdatePb
<1>4. cycle + LocalDelay <= cycle + LocalDelay
  BY <1>1
<1> QED BY <1>1, <1>2, <1>3, <1>4, InOrderLeft

LEMMA PbIdleSilent ==
  ASSUME PbIInv, NEW s \in Routers, PbIdle(s), NEW t \in Others(s)
  PROVE  incomingPb'[t] = incomingPb[t]
BY DEF PbIInv, PbTypeOK, PbIdle, Others
-----------------------------------------------------------------------------
(* Contention counters.                                                    *)

LEMMA StillSendingType ==
  ASSUME NEW q \in Seq(Nat) PROVE StillSending(q) \in Seq(Nat)
<1> DEFINE left == {i \in 1..Len(q) : q[i] > cycle}
<1>1. CASE left = {}
  BY <1>1 DEF StillSending
<1>2. CASE left # {}
  <2>1. left \in SUBSET Nat
    OBVIOUS
  <2>2. PICK m \in left : \A j \in left : m <= j
    BY <1>2, <2>1, NatMinimum
  <2> DEFINE first == CHOOSE i \in left : \A j \in left : i <= j
  <2>3. first \in left
    BY <2>2
  <2>4. StillSending(q) = SubSeq(q, first, Len(q))
    BY <1>2 DEF StillSending
  <2> HIDE DEF first
  <2> QED BY SMTT(60), <2>3, <2>4
<1> QED BY <1>1, <1>2

LEMMA SetToSeqType ==
  ASSUME NEW S, IsFiniteSet(S)
  PROVE  SetToSeq(S) \in Seq(S)
<1>1. Cardinality(S) \in Nat /\ \E f \in [1..Cardinality(S) -> S] : IsInjective(f)
  BY FS_CardinalityType DEF ExistsBijection, Bijection, Injection
<1>2. SetToSeq(S) \in [1..Cardinality(S) -> S]
  BY <1>1 DEF SetToSeq
<1> QED BY <1>1, <1>2

LEMMA ContendedType ==
  ASSUME NEW s \in Routers, NEW x \in OutPorts \cup OtherGroups,
         m_sending_end_cycle_queue \in [Routers -> [OutPorts \cup OtherGroups -> Seq(Nat)]]
  PROVE  Contended(s, x) \in Nat
<1> DEFINE heads == {ch \in InChannels :
                       Counted(s, ch) /\ CountsFor(queue[s][ch][1].dest, ch, x)}
<1>1. heads \in SUBSET InChannels /\ IsFiniteSet(InChannels)
  BY ContentionAssumption DEF ContentionAssumption
<1>2. Cardinality(heads) \in Nat
  BY <1>1, FS_Subset, FS_CardinalityType
<1>3. m_sending_end_cycle_queue[s][x] \in Seq(Nat)
  OBVIOUS
<1>4. Len(StillSending(m_sending_end_cycle_queue[s][x])) \in Nat
  BY <1>3, StillSendingType
<1> QED BY <1>2, <1>4 DEF Contended, Count

(* The places in the queues qs of a switch of the flits that leave by p.   *)
Places(qs, p) == {x \in InChannels \X (1..Capacity) :
                     x[2] <= Len(qs[x[1]]) /\ MinPort[qs[x[1]][x[2]].dest] = p}

(* The channels of C whose head leaves by p.                               *)
HeadsFor(qs, C, p) == {ch \in C : MinPort[qs[ch][1].dest] = p}

(* What is in the queues qs of a switch.                                   *)
Queues == {qs \in [InChannels -> Seq(Flit)] : \A ch \in InChannels : Len(qs[ch]) <= Capacity}

LEMMA PlacesFinite ==
  ASSUME NEW qs, NEW p
  PROVE  IsFiniteSet(Places(qs, p)) /\ Count(Places(qs, p)) \in Nat
<1>1. IsFiniteSet(InChannels) /\ Capacity \in Nat
  BY ContentionAssumption DEF ContentionAssumption
<1>2. IsFiniteSet(InChannels \X (1..Capacity))
  <2>1. IsFiniteSet(1..Capacity)
    BY <1>1, FS_Interval
  <2> QED BY <1>1, <2>1, FS_Product
<1>3. Places(qs, p) \in SUBSET (InChannels \X (1..Capacity))
  BY DEF Places
<1>4. IsFiniteSet(Places(qs, p))
  BY <1>2, <1>3, FS_Subset
<1> QED BY <1>4, FS_CardinalityType DEF Count

(* A flit is appended: the count for its port is one more.                 *)
Appended(qs, ch, f, new) ==
    /\ qs \in Queues /\ ch \in InChannels /\ f \in Flit /\ Len(qs[ch]) < Capacity
    /\ new \in [InChannels -> Seq(Flit)] /\ new[ch] = Append(qs[ch], f)
    /\ \A c \in InChannels : c # ch => new[c] = qs[c]

LEMMA PlacesInserted ==
  ASSUME NEW qs, NEW ch, NEW f, NEW new, Appended(qs, ch, f, new), NEW p
  PROVE  /\ new \in Queues
         /\ Count(Places(new, p))
              = Count(Places(qs, p)) + (IF MinPort[f.dest] = p THEN 1 ELSE 0)
<1> DEFINE n == Len(qs[ch])
<1>0. /\ qs \in Queues /\ ch \in InChannels /\ f \in Flit /\ Len(qs[ch]) < Capacity
      /\ new \in [InChannels -> Seq(Flit)] /\ new[ch] = Append(qs[ch], f)
      /\ \A c \in InChannels : c # ch => new[c] = qs[c]
  BY DEF Appended
<1>1. /\ qs \in [InChannels -> Seq(Flit)] /\ qs[ch] \in Seq(Flit) /\ n \in Nat
      /\ \A c \in InChannels : Len(qs[c]) <= Capacity
  BY <1>0 DEF Queues
<1>2. /\ new \in [InChannels -> Seq(Flit)] /\ new[ch] = Append(qs[ch], f)
      /\ \A c \in InChannels : c # ch => new[c] = qs[c]
  BY <1>0, <1>1
<1>3. /\ Len(new[ch]) = n + 1 /\ new[ch][n + 1] = f /\ \A i \in 1..n : new[ch][i] = qs[ch][i]
      /\ Capacity \in Nat
  BY <1>1, <1>2, ContentionAssumption DEF ContentionAssumption
<1>4. new \in Queues
  <2>1. ASSUME NEW c \in InChannels PROVE Len(new[c]) <= Capacity
    <3>1. CASE c = ch
      BY <1>0, <1>1, <1>3, <3>1
    <3>2. CASE c # ch
      BY <1>1, <1>2, <3>2
    <3> QED BY <3>1, <3>2
  <2> QED BY <1>2, <2>1 DEF Queues
<1>5. ASSUME NEW c \in InChannels, NEW i \in 1..Capacity
      PROVE  <<c, i>> \in Places(new, p) <=>
                 \/ <<c, i>> \in Places(qs, p)
                 \/ c = ch /\ i = n + 1 /\ MinPort[f.dest] = p
  <2>1. /\ <<c, i>> \in Places(qs, p) <=> i <= Len(qs[c]) /\ MinPort[qs[c][i].dest] = p
        /\ <<c, i>> \in Places(new, p) <=> i <= Len(new[c]) /\ MinPort[new[c][i].dest] = p
    BY DEF Places
  <2> HIDE DEF n
  <2>2. CASE c # ch
    BY <1>2, <2>1, <2>2
  <2>3. CASE c = ch /\ i \in 1..n
    <3>1. i <= n /\ i <= n + 1 /\ i # n + 1
      BY <1>1, <2>3
    <3>2. i <= Len(qs[c]) /\ i <= Len(new[c]) /\ new[c][i] = qs[c][i]
      BY <1>3, <2>3, <3>1 DEF n
    <3> QED BY <2>1, <3>1, <3>2
  <2>4. CASE c = ch /\ i = n + 1
    <3>1. ~(i <= n) /\ i <= n + 1
      BY <1>1, <2>4
    <3>2. ~(i <= Len(qs[c])) /\ i <= Len(new[c]) /\ new[c][i] = f
      BY <1>3, <2>4, <3>1 DEF n
    <3> QED BY <2>1, <2>4, <3>2
  <2>5. CASE c = ch /\ i > n + 1
    <3>1. ~(i <= n) /\ ~(i <= n + 1) /\ i # n + 1
      BY <1>1, <2>5
    <3>2. ~(i <= Len(qs[c])) /\ ~(i <= Len(new[c]))
      BY <1>3, <2>5, <3>1 DEF n
    <3> QED BY <2>1, <3>1, <3>2
  <2> QED BY <1>1, <2>2, <2>3, <2>4, <2>5
<1>6. <<ch, n + 1>> \in InChannels \X (1..Capacity) /\ <<ch, n + 1>> \notin Places(qs, p)
  BY <1>0, <1>1, <1>3 DEF Places
<1>7. \A g : Places(g, p) \in SUBSET (InChannels \X (1..Capacity))
  BY DEF Places
<1>10. \A x \in InChannels \X (1..Capacity) :
         \E c \in InChannels, i \in 1..Capacity : x = <<c, i>>
  OBVIOUS
<1>8. CASE MinPort[f.dest] = p
  <2>1. Places(new, p) = Places(qs, p) \cup {<<ch, n + 1>>}
    BY <1>5, <1>6, <1>7, <1>8, <1>10
  <2>2. Cardinality(Places(new, p)) = Cardinality(Places(qs, p)) + 1
    BY <1>6, <2>1, PlacesFinite, FS_AddElement
  <2> QED BY <1>4, <1>8, <2>2 DEF Count
<1>9. CASE MinPort[f.dest] # p
  <2>1. Places(new, p) = Places(qs, p)
    <3>1. \A c \in InChannels, i \in 1..Capacity :
             <<c, i>> \in Places(new, p) <=> <<c, i>> \in Places(qs, p)
      BY <1>5, <1>9
    <3>2. \A x \in InChannels \X (1..Capacity) : x \in Places(new, p) <=> x \in Places(qs, p)
      BY <1>10, <3>1
    <3> QED BY <1>7, <3>2
  <2> QED BY <1>4, <1>9, <2>1, PlacesFinite
<1> QED BY <1>8, <1>9

(* The heads of the channels C leave: the count for each port falls by     *)
(* those of them that leave by it.                                         *)
Popped(qs, C, new) ==
    /\ qs \in Queues /\ C \in SUBSET InChannels /\ \A ch \in C : qs[ch] # <<>>
    /\ new \in [InChannels -> Seq(Flit)] /\ \A ch \in C : new[ch] = Tail(qs[ch])
    /\ \A ch \in InChannels : ch \notin C => new[ch] = qs[ch]

LEMMA PlacesLeft ==
  ASSUME NEW qs, NEW C, NEW new, Popped(qs, C, new), NEW p
  PROVE  /\ new \in Queues
         /\ Count(Places(new, p)) = Count(Places(qs, p))
                - Count(HeadsFor(qs, C, p))
<1> DEFINE heads == {ch \in C : MinPort[qs[ch][1].dest] = p}
           first == [ch \in heads |-> <<ch, 1>>]
           gone == {<<ch, 1>> : ch \in heads}
           rest == Places(qs, p) \ gone
           back(x) == IF x[1] \in C THEN <<x[1], x[2] + 1>> ELSE x
           shift == [x \in Places(new, p) |-> back(x)]
<1>0. /\ qs \in Queues /\ C \in SUBSET InChannels /\ \A ch \in C : qs[ch] # <<>>
      /\ new \in [InChannels -> Seq(Flit)] /\ \A ch \in C : new[ch] = Tail(qs[ch])
      /\ \A ch \in InChannels : ch \notin C => new[ch] = qs[ch]
  BY DEF Popped
<1>1. /\ qs \in [InChannels -> Seq(Flit)] /\ Capacity \in Nat \ {0} /\ IsFiniteSet(InChannels)
      /\ \A ch \in InChannels : qs[ch] \in Seq(Flit) /\ Len(qs[ch]) \in Nat
                                /\ Len(qs[ch]) <= Capacity
  BY <1>0, ContentionAssumption DEF Queues, ContentionAssumption
<1>2. \A ch \in C : /\ Len(qs[ch]) > 0 /\ new[ch] = Tail(qs[ch]) /\ new[ch] \in Seq(Flit)
                    /\ Len(new[ch]) = Len(qs[ch]) - 1
                    /\ \A i \in 1..(Len(qs[ch]) - 1) : new[ch][i] = qs[ch][i + 1]
  <2>1. \A q \in Seq(Flit) : q # <<>> =>
            /\ Len(q) > 0 /\ Tail(q) \in Seq(Flit) /\ Len(Tail(q)) = Len(q) - 1
            /\ \A i \in 1..(Len(q) - 1) : Tail(q)[i] = q[i + 1]
    OBVIOUS
  <2>2. \A ch \in C : qs[ch] \in Seq(Flit) /\ qs[ch] # <<>> /\ new[ch] = Tail(qs[ch])
    BY <1>0, <1>1
  <2> SUFFICES ASSUME NEW ch \in C
               PROVE  /\ Len(qs[ch]) > 0 /\ new[ch] = Tail(qs[ch]) /\ new[ch] \in Seq(Flit)
                      /\ Len(new[ch]) = Len(qs[ch]) - 1
                      /\ \A i \in 1..(Len(qs[ch]) - 1) : new[ch][i] = qs[ch][i + 1]
    OBVIOUS
  <2> DEFINE q == qs[ch]
             r == new[ch]
  <2>3. q \in Seq(Flit) /\ q # <<>> /\ r = Tail(q)
    BY <2>2
  <2> HIDE DEF q, r
  <2>4. /\ Len(q) > 0 /\ r \in Seq(Flit) /\ Len(r) = Len(q) - 1
        /\ \A i \in 1..(Len(q) - 1) : r[i] = q[i + 1]
    BY <2>1, <2>3
  <2> QED BY <2>3, <2>4 DEF q, r
<1>3. \A ch \in InChannels : ch \notin C => new[ch] = qs[ch]
  BY <1>0
<1>4. new \in Queues
  BY <1>0, <1>1, <1>2, <1>3 DEF Queues
<1>5. IsFiniteSet(Places(qs, p)) /\ IsFiniteSet(Places(new, p))
  BY PlacesFinite
<1>6. \A g : \A x : x \in Places(g, p) <=>
                      /\ x \in InChannels \X (1..Capacity)
                      /\ x[2] <= Len(g[x[1]]) /\ MinPort[g[x[1]][x[2]].dest] = p
  BY DEF Places
<1>7. IsFiniteSet(heads) /\ IsFiniteSet(gone) /\ Cardinality(gone) = Cardinality(heads)
  <2>1. IsFiniteSet(heads)
    BY <1>0, <1>1, FS_Subset
  <2>2. first \in Bijection(heads, gone)
    BY DEF Bijection, Injection, Surjection, IsInjective
  <2> HIDE DEF heads, gone, first
  <2>3. ExistsBijection(heads, gone)
    BY <2>2 DEF ExistsBijection
  <2> QED BY <2>1, <2>3, FS_Bijection
<1>8. gone \subseteq Places(qs, p)
  <2>1. ASSUME NEW ch \in heads PROVE <<ch, 1>> \in Places(qs, p)
    <3>1. ch \in C /\ MinPort[qs[ch][1].dest] = p /\ ch \in InChannels
      BY <1>0
    <3>2. 1 \in 1..Capacity /\ 1 <= Len(qs[ch])
      BY <1>1, <1>2, <3>1
    <3> QED BY <1>6, <3>1, <3>2
  <2> QED BY <2>1
<1>9. shift \in Bijection(Places(new, p), rest)
  <2>1. ASSUME NEW x \in Places(new, p) PROVE back(x) \in rest
    <3>1. PICK ch \in InChannels, i \in 1..Capacity : x = <<ch, i>>
      BY <1>6
    <3>2. i <= Len(new[ch]) /\ MinPort[new[ch][i].dest] = p
      BY <1>6, <3>1
    <3>3. CASE ch \in C
      <4>1. /\ i \in 1..(Len(qs[ch]) - 1) /\ i + 1 <= Len(qs[ch]) /\ i + 1 \in 1..Capacity
            /\ new[ch][i] = qs[ch][i + 1] /\ i + 1 # 1
        BY <1>1, <1>2, <3>2, <3>3
      <4>2. <<ch, i + 1>> \in Places(qs, p)
        BY <1>6, <3>2, <4>1
      <4>3. <<ch, i + 1>> \notin gone
        BY <4>1
      <4> QED BY <3>1, <3>3, <4>2, <4>3
    <3>4. CASE ch \notin C
      <4>1. x \in Places(qs, p)
        BY <1>3, <1>6, <3>1, <3>2, <3>4
      <4>2. x \notin gone
        BY <3>1, <3>4
      <4> QED BY <3>1, <3>4, <4>1, <4>2
    <3> QED BY <3>3, <3>4
  <2>2. ASSUME NEW x \in Places(new, p), NEW y \in Places(new, p), back(x) = back(y)
        PROVE  x = y
    <3>1. PICK ch \in InChannels, i \in 1..Capacity : x = <<ch, i>>
      BY <1>6
    <3>2. PICK c \in InChannels, j \in 1..Capacity : y = <<c, j>>
      BY <1>6
    <3>3. back(x)[1] = ch /\ back(y)[1] = c
      BY <3>1, <3>2
    <3>4. i \in Int /\ j \in Int
      OBVIOUS
    <3> QED BY <2>2, <3>1, <3>2, <3>3, <3>4
  <2>3. ASSUME NEW y \in rest PROVE \E x \in Places(new, p) : back(x) = y
    <3>1. PICK ch \in InChannels, i \in 1..Capacity : y = <<ch, i>>
      BY <1>6
    <3>2. i <= Len(qs[ch]) /\ MinPort[qs[ch][i].dest] = p
      BY <1>6, <3>1
    <3>3. CASE ch \in C
      <4>1. i # 1
        BY <3>1, <3>2, <3>3
      <4>2. /\ i - 1 \in 1..Capacity /\ i - 1 \in 1..(Len(qs[ch]) - 1) /\ i - 1 + 1 = i
            /\ i - 1 <= Len(new[ch])
        BY <1>1, <1>2, <3>2, <3>3, <4>1
      <4>3. new[ch][i - 1] = qs[ch][i]
        BY <1>2, <3>3, <4>2
      <4>4. <<ch, i - 1>> \in Places(new, p)
        BY <1>6, <3>2, <4>2, <4>3
      <4>5. back(<<ch, i - 1>>) = y
        BY <3>1, <3>3, <4>2
      <4> QED BY <4>4, <4>5
    <3>4. CASE ch \notin C
      <4>1. y \in Places(new, p)
        BY <1>3, <1>6, <3>1, <3>2, <3>4
      <4> QED BY <3>1, <3>4, <4>1
    <3> QED BY <3>3, <3>4
  <2> HIDE DEF rest, back
  <2> QED BY <2>1, <2>2, <2>3 DEF Bijection, Injection, Surjection, IsInjective
<1>10. IsFiniteSet(rest) /\ Cardinality(rest) = Cardinality(Places(new, p))
  <2> HIDE DEF rest, shift
  <2>1. ExistsBijection(Places(new, p), rest)
    BY <1>9 DEF ExistsBijection
  <2> QED BY <1>5, <2>1, FS_Bijection
<1>11. Cardinality(Places(qs, p)) = Cardinality(rest) + Cardinality(gone)
  <2>1. rest \cup gone = Places(qs, p) /\ rest \cap gone = {}
    BY <1>8
  <2> HIDE DEF rest, gone
  <2>2. Cardinality(rest \cup gone)
          = Cardinality(rest) + Cardinality(gone) - Cardinality(rest \cap gone)
    BY <1>7, <1>10, FS_Union
  <2>3. Cardinality(rest) \in Nat /\ Cardinality(gone) \in Nat
    BY <1>7, <1>10, FS_CardinalityType
  <2>4. Cardinality(rest \cap gone) = 0
    BY <2>1, FS_EmptySet
  <2>5. Cardinality(rest \cup gone) = Cardinality(Places(qs, p))
    BY <2>1
  <2> QED BY <2>2, <2>3, <2>4, <2>5
<1>12. Cardinality(Places(new, p)) = Cardinality(Places(qs, p)) - Cardinality(heads)
  <2>1. Cardinality(rest) \in Nat /\ Cardinality(gone) \in Nat
    BY <1>7, <1>10, FS_CardinalityType
  <2> HIDE DEF rest, gone, heads
  <2> QED BY <1>7, <1>10, <1>11, <2>1
<1> QED BY <1>4, <1>12 DEF Count, HeadsFor

CaIInv == CaTypeOK /\ CaShared /\ QueuedCounted

LEMMA QueuedPlaces ==
  ASSUME CaTypeOK, NEW s \in Routers
  PROVE  queue[s] \in Queues /\ \A p : Queued(s, p) = Places(queue[s], p)
BY DEF CaTypeOK, Queues, Queued, Places

LEMMA CaInitially == TurnsInit /\ CaInit => CaIInv
<1> SUFFICES ASSUME TurnsInit, CaInit PROVE CaIInv
  OBVIOUS
<1>1. \A s \in Routers : \A t : FromAt(incomingCa[s], t) = {}
  BY DEF CaInit, FromAt
<1>2. CaTypeOK
  <2>1. (CHOOSE d \in Dests : TRUE) \in Dests
    BY ContentionAssumption DEF ContentionAssumption
  <2>2. /\ queue \in [Routers -> [InChannels -> Seq(Flit)]]
        /\ \A s \in Routers, ch \in InChannels : Len(queue[s][ch]) = 0
    BY DEF CaInit
  <2>3. Capacity \in Nat
    BY ContentionAssumption DEF ContentionAssumption
  <2>4. /\ sendingEnd \in [Routers -> [InChannels -> Nat]]
        /\ sentTo \in [Routers -> [InChannels -> Dests]]
    BY <2>1 DEF CaInit
  <2>5. /\ m_sending_end_cycle_queue \in [Routers -> [OutPorts \cup OtherGroups -> Seq(Nat)]]
        /\ m_contention_counter \in [Routers -> [OutPorts -> Nat]]
        /\ incomingCa \in [Routers -> Seq(CaFlit)]
    BY DEF CaInit
  <2>6. /\ lastShared \in [Routers -> [OtherGroups -> Nat]]
        /\ m_partial_counter \in [Routers -> [Routers -> [OtherGroups -> Nat]]]
    BY DEF CaInit
  <2>7. atHeader \in BOOLEAN /\ loopOfTraces \in BOOLEAN
    BY DEF CaInit
  <2>8. \A s \in Routers, ch \in InChannels : Len(queue[s][ch]) <= Capacity
    BY <2>2, <2>3
  <2> QED BY <1>1, <2>2, <2>4, <2>5, <2>6, <2>7, <2>8 DEF CaTypeOK
<1>3. CaShared
  BY <1>1 DEF CaInit, CaShared, AfterReading, Others
<1>4. QueuedCounted
  <2> SUFFICES ASSUME NEW s \in Routers, NEW p \in OutPorts
               PROVE  m_contention_counter[s][p] = Count(Queued(s, p))
    BY DEF QueuedCounted
  <2>1. \A ch \in InChannels : Len(queue[s][ch]) = 0
    BY DEF CaInit
  <2>2. Queued(s, p) = {}
    BY <2>1 DEF Queued
  <2> QED BY <2>2, FS_EmptySet DEF CaInit, Count
<1> QED BY <1>2, <1>3, <1>4 DEF CaIInv

(* A flit comes in.                                                        *)
LEMMA CaInsertInv ==
  ASSUME CaIInv, cycle \in Nat, NEW s \in Routers, NEW ch \in InChannels, NEW d \in Dests,
         Insert(s, ch, d)
  PROVE  CaIInv'
<1> DEFINE f == [dest |-> d, entry |-> cycle + InDelay[ch]]
<1>1. CaTypeOK /\ CaShared /\ QueuedCounted
  BY DEF CaIInv
<1>2. f \in Flit /\ f.dest = d
  BY ContentionAssumption DEF ContentionAssumption, Flit
<1>3. /\ Len(queue[s][ch]) < Capacity
      /\ queue' = [queue EXCEPT ![s][ch] = Append(@, f)]
      /\ m_contention_counter' =
             IF atHeader THEN m_contention_counter
             ELSE [m_contention_counter EXCEPT ![s][MinPort[d]] = @ + 1]
      /\ UNCHANGED <<turnVars, atHeader, loopOfTraces, sendingEnd, sentTo,
                     m_partial_counter, m_sending_end_cycle_queue, incomingCa, lastShared>>
  BY DEF Insert
<1> HIDE DEF f
<1>4. queue \in [Routers -> [InChannels -> Seq(Flit)]]
      /\ m_contention_counter \in [Routers -> [OutPorts -> Nat]] /\ atHeader \in BOOLEAN
  BY <1>1 DEF CaTypeOK
<1>5. /\ queue'[s] = [queue[s] EXCEPT ![ch] = Append(@, f)]
      /\ \A r \in Routers : r # s => queue'[r] = queue[r]
  BY <1>3, <1>4
<1>6. queue[s] \in Queues
  BY <1>1, QueuedPlaces
<1>7. /\ queue'[s] \in Queues
      /\ \A p : Count(Places(queue'[s], p))
                  = Count(Places(queue[s], p)) + (IF MinPort[d] = p THEN 1 ELSE 0)
  <2> DEFINE qs == queue[s]
             new == queue'[s]
  <2>1. Appended(qs, ch, f, new)
    BY <1>2, <1>3, <1>4, <1>5, <1>6 DEF Appended
  <2> HIDE DEF qs, new
  <2>2. ASSUME NEW p
        PROVE  /\ new \in Queues
               /\ Count(Places(new, p))
                    = Count(Places(qs, p)) + (IF MinPort[f.dest] = p THEN 1 ELSE 0)
    BY <2>1, PlacesInserted
  <2> QED BY <1>2, <2>2 DEF qs, new
<1>8. /\ queue' \in [Routers -> [InChannels -> Seq(Flit)]]
      /\ \A r \in Routers, c \in InChannels : Len(queue'[r][c]) <= Capacity
  <2>1. \A r \in Routers : queue'[r] \in Queues
    BY <1>1, <1>5, <1>7, QueuedPlaces
  <2> QED BY <1>3, <1>4, <2>1 DEF Queues
<1>9. MinPort[d] \in OutPorts
  BY DEF OutPorts
<1>10. m_contention_counter' \in [Routers -> [OutPorts -> Nat]]
  BY <1>3, <1>4, <1>9
<1>11. CaTypeOK'
  BY <1>1, <1>3, <1>8, <1>10 DEF CaTypeOK
<1>12. CaShared'
  BY <1>1, <1>3 DEF CaShared
<1>13. QueuedCounted'
  <2> SUFFICES ASSUME ~atHeader, NEW r \in Routers, NEW p \in OutPorts
               PROVE  m_contention_counter'[r][p] = Count(Queued(r, p))'
    BY <1>3 DEF QueuedCounted
  <2>1. Queued(r, p)' = Places(queue'[r], p) /\ Queued(r, p) = Places(queue[r], p)
    BY DEF Queued, Places
  <2>2. m_contention_counter[r][p] = Count(Places(queue[r], p))
    BY <1>1, <2>1 DEF QueuedCounted
  <2>3. m_contention_counter' = [m_contention_counter EXCEPT ![s][MinPort[d]] = @ + 1]
    BY <1>3
  <2>4. m_contention_counter'[r][p] = Count(Places(queue'[r], p))
    <3>1. CASE r # s
      BY <1>4, <1>5, <2>2, <2>3, <3>1
    <3>2. CASE r = s /\ p = MinPort[d]
      BY <1>4, <1>7, <2>2, <2>3, <3>2
    <3>3. CASE r = s /\ p # MinPort[d]
      <4>1. m_contention_counter'[r][p] = m_contention_counter[r][p]
        BY <1>4, <2>3, <3>3
      <4>2. Count(Places(queue[r], p)) \in Nat
        BY PlacesFinite
      <4> QED BY <1>7, <2>2, <3>3, <4>1, <4>2
    <3> QED BY <3>1, <3>2, <3>3
  <2> QED BY <2>1, <2>4 DEF Count
<1> QED BY <1>11, <1>12, <1>13 DEF CaIInv

(* Flits leave their channels.                                             *)
LEMMA TraversalTypes ==
  ASSUME CaTypeOK, cycle \in Nat, NEW s \in Routers,
         NEW C \in SUBSET {ch \in InChannels : HasHead(s, ch)}, Traversal(s, C)
  PROVE  /\ queue' \in [Routers -> [InChannels -> Seq(Flit)]]
         /\ \A r \in Routers, ch \in InChannels : Len(queue'[r][ch]) <= Capacity
         /\ \A r \in Routers : r # s => queue'[r] = queue[r]
         /\ \A p : Count(Places(queue'[s], p)) = Count(Places(queue[s], p))
                       - Count(HeadsFor(queue[s], C, p))
         /\ sendingEnd' \in [Routers -> [InChannels -> Nat]]
         /\ sentTo' \in [Routers -> [InChannels -> Dests]]
         /\ m_sending_end_cycle_queue' \in [Routers -> [OutPorts \cup OtherGroups -> Seq(Nat)]]
<1> DEFINE flit(ch) == queue[s][ch][1]
           left(ch) == flit(ch).entry + FlitSize - cycle
           length(ch) == IF left(ch) > XbarLength THEN left(ch) ELSE XbarLength
           going(x) == {ch \in C : /\ Noted(flit(ch).dest)
                                   /\ CountsFor(flit(ch).dest, ch, x)}
           noted(x) == SetToSeq(going(x))
           old == queue[s]
           new == [ch \in InChannels |-> IF ch \in C THEN Tail(old[ch]) ELSE old[ch]]
           ends == m_sending_end_cycle_queue[s]
           ended(x) == IF atHeader THEN StillSending(ends[x]) \o
                             [i \in 1..Len(noted(x)) |-> cycle + length(noted(x)[i])]
                       ELSE ends[x]
<1>1. /\ queue \in [Routers -> [InChannels -> Seq(Flit)]]
      /\ sendingEnd \in [Routers -> [InChannels -> Nat]]
      /\ sentTo \in [Routers -> [InChannels -> Dests]]
      /\ m_sending_end_cycle_queue \in [Routers -> [OutPorts \cup OtherGroups -> Seq(Nat)]]
  BY DEF CaTypeOK
<1>2. /\ queue' = [queue EXCEPT ![s] = new]
      /\ sendingEnd' = [sendingEnd EXCEPT ![s] =
             [ch \in InChannels |-> IF ch \in C THEN cycle + length(ch) ELSE @[ch]]]
      /\ sentTo' = [sentTo EXCEPT ![s] =
             [ch \in InChannels |-> IF ch \in C THEN flit(ch).dest ELSE @[ch]]]
      /\ m_sending_end_cycle_queue' = [m_sending_end_cycle_queue EXCEPT ![s] =
             [x \in OutPorts \cup OtherGroups |-> ended(x)]]
  BY DEF Traversal
<1>3. C \in SUBSET InChannels /\ IsFiniteSet(InChannels)
  BY ContentionAssumption DEF ContentionAssumption
<1>4. ASSUME NEW ch \in C
      PROVE  /\ old[ch] # <<>> /\ flit(ch).dest \in Dests /\ cycle + length(ch) \in Nat
  <2>1. old[ch] \in Seq(Flit) /\ old[ch] # <<>>
    BY <1>1, <1>3 DEF HasHead
  <2>2. flit(ch) \in Flit
    BY <2>1
  <2>3. flit(ch).entry \in Nat /\ flit(ch).dest \in Dests
    BY <2>2 DEF Flit
  <2>4. XbarLength \in Nat /\ FlitSize \in Nat
    BY ContentionAssumption DEF ContentionAssumption
  <2> QED BY <2>1, <2>3, <2>4
<1> HIDE DEF flit, length
<1>5. old \in Queues
  BY QueuedPlaces
<1>6. new \in Queues /\ \A p : Count(Places(new, p)) = Count(Places(old, p))
                                 - Count(HeadsFor(old, C, p))
  <2>1. \A ch \in C : old[ch] # <<>>
    BY <1>4
  <2>2. Popped(old, C, new)
    BY <1>3, <1>5, <2>1 DEF Queues, Popped
  <2> HIDE DEF old, new
  <2> QED BY <2>2, PlacesLeft
<1>7. queue'[s] = new /\ \A r \in Routers : r # s => queue'[r] = queue[r]
  BY <1>1, <1>2
<1>8. /\ queue' \in [Routers -> [InChannels -> Seq(Flit)]]
      /\ \A r \in Routers, ch \in InChannels : Len(queue'[r][ch]) <= Capacity
  <2>1. \A r \in Routers : queue'[r] \in Queues
    BY <1>6, <1>7, QueuedPlaces
  <2> HIDE DEF new
  <2> QED BY <1>1, <1>2, <2>1 DEF Queues
<1>9. sendingEnd' \in [Routers -> [InChannels -> Nat]]
  BY <1>1, <1>2, <1>4
<1>10. sentTo' \in [Routers -> [InChannels -> Dests]]
  BY <1>1, <1>2, <1>4
<1>11. ASSUME NEW x \in OutPorts \cup OtherGroups PROVE ended(x) \in Seq(Nat)
  <2>1. ends[x] \in Seq(Nat)
    BY <1>1
  <2>2. StillSending(ends[x]) \in Seq(Nat)
    BY <2>1, StillSendingType
  <2>3. going(x) \in SUBSET C /\ IsFiniteSet(going(x))
    BY <1>3, FS_Subset
  <2>4. noted(x) \in Seq(going(x))
    BY <2>3, SetToSeqType
  <2> DEFINE list == noted(x)
             chosen == going(x)
             cycles == [i \in 1..Len(list) |-> cycle + length(list[i])]
  <2>5. cycles \in Seq(Nat)
    <3>1. Len(list) \in Nat /\ \A i \in 1..Len(list) : list[i] \in C
      <4>1. list \in Seq(chosen) /\ chosen \in SUBSET C
        BY <2>3, <2>4
      <4> HIDE DEF list, chosen
      <4> QED BY <4>1
    <3> HIDE DEF list
    <3>2. \A i \in 1..Len(list) : cycle + length(list[i]) \in Nat
      BY <1>4, <3>1
    <3> QED BY <3>1, <3>2
  <2>6. ended(x) = IF atHeader THEN StillSending(ends[x]) \o cycles ELSE ends[x]
    OBVIOUS
  <2> HIDE DEF ended, cycles
  <2> QED BY <2>1, <2>2, <2>5, <2>6
<1> HIDE DEF ended
<1>12. m_sending_end_cycle_queue' \in [Routers -> [OutPorts \cup OtherGroups -> Seq(Nat)]]
  BY <1>1, <1>2, <1>11
<1> QED BY <1>6, <1>7, <1>8, <1>9, <1>10, <1>12
(* What a switch of a group reads of a list of shared counters.            *)
LEMMA CaReading ==
  ASSUME CaTypeOK, CaShared, NEW s \in Routers, NEW older \in [Routers -> [OtherGroups -> Nat]],
         \A t \in Others(s) : older[t] = m_partial_counter[s][t]
  PROVE  /\ AfterReading(Due(incomingCa[s]), older) \in [Routers -> [OtherGroups -> Nat]]
         /\ NotDue(incomingCa[s]) \in Seq(CaFlit)
         /\ FromAt(NotDue(incomingCa[s]), s) = {}
         /\ \A t \in Others(s) :
               AfterReading(NotDue(incomingCa[s]),
                            AfterReading(Due(incomingCa[s]), older))[t] = lastShared[t]
<1> DEFINE q == incomingCa[s]
           view == m_partial_counter[s]
<1>1. q \in Seq(CaFlit) /\ FromAt(q, s) = {}
  BY DEF CaTypeOK
<1>2. \A t \in Others(s) : AfterReading(q, view)[t] = lastShared[t] /\ t \in Routers
  BY DEF CaShared, Others
<1> HIDE DEF q, view
<1>3. AfterReading(Due(q), older) \in [Routers -> [OtherGroups -> Nat]]
  <2>1. \A f \in CaFlit : f.info \in [OtherGroups -> Nat]
    BY DEF CaFlit
  <2> QED BY <1>1, <2>1, ReadingType
<1>4. FromAt(NotDue(q), s) = {}
  BY <1>1, ReadingNothing
<1>5. NotDue(q) \in Seq(CaFlit)
  BY <1>1, ReadingDue
<1>6. ASSUME NEW t \in Others(s)
      PROVE  AfterReading(NotDue(q), AfterReading(Due(q), older))[t] = lastShared[t]
  <2>1. older[t] = view[t] /\ t \in Routers
    BY <1>2 DEF view
  <2>2. AfterReading(NotDue(q), AfterReading(Due(q), older))[t] = AfterReading(q, view)[t]
    BY <1>1, <2>1, ReadingDue
  <2> QED BY <1>2, <2>2
<1> QED BY <1>3, <1>4, <1>5, <1>6 DEF q

(* A switch acts and counts the heads.                                     *)
LEMMA CaActHeads ==
  ASSUME CaIInv, TurnsOK, NEW s \in Routers, CaAct(s), atHeader PROVE CaIInv'
<1>1. CaTypeOK /\ CaShared
  BY DEF CaIInv
<1>2. PICK C \in SUBSET {ch \in InChannels : HasHead(s, ch)} :
        /\ Traversal(s, C)
        /\ m_contention_counter' = [m_contention_counter EXCEPT
               ![s] = [p \in OutPorts |-> Contended(s, p)]]
        /\ m_partial_counter' = [m_partial_counter EXCEPT
               ![s] = ReadCaFlits(s, [@ EXCEPT ![s] = [g \in OtherGroups |-> Contended(s, g)]])]
        /\ Share(s, [g \in OtherGroups |-> Contended(s, g)])
  BY Zenon DEF CaAct
<1>3. atHeader' = atHeader /\ loopOfTraces' = loopOfTraces /\ TurnOf(s)
  BY DEF CaAct
<1>4. cycle \in Nat /\ LocalDelay \in Nat
  BY <1>3, TurnTaken, TurnsAssumption DEF TurnsAssumption
<1> DEFINE own == [g \in OtherGroups |-> Contended(s, g)]
           view == m_partial_counter[s]
           older == [view EXCEPT ![s] = own]
           told == [from |-> s, info |-> own, arrival |-> cycle + LocalDelay]
<1>5. /\ m_contention_counter \in [Routers -> [OutPorts -> Nat]]
      /\ m_partial_counter \in [Routers -> [Routers -> [OtherGroups -> Nat]]]
      /\ incomingCa \in [Routers -> Seq(CaFlit)]
      /\ lastShared \in [Routers -> [OtherGroups -> Nat]]
      /\ m_sending_end_cycle_queue \in [Routers -> [OutPorts \cup OtherGroups -> Seq(Nat)]]
      /\ \A r \in Routers : FromAt(incomingCa[r], r) = {}
  BY <1>1 DEF CaTypeOK
<1>6. /\ \A x \in OutPorts \cup OtherGroups : Contended(s, x) \in Nat
      /\ own \in [OtherGroups -> Nat]
  BY <1>5, ContendedType
<1>7. told \in CaFlit /\ told.from = s /\ told.info = own
  BY <1>4, <1>6 DEF CaFlit
<1>8. older \in [Routers -> [OtherGroups -> Nat]] /\ \A t \in Others(s) : older[t] = view[t]
  BY <1>5, <1>6 DEF Others
<1> DEFINE read == AfterReading(Due(incomingCa[s]), older)
<1>9. /\ m_partial_counter' = [m_partial_counter EXCEPT ![s] = read]
      /\ Share(s, own)
  BY <1>2 DEF ReadCaFlits
<1>10. /\ read \in [Routers -> [OtherGroups -> Nat]]
       /\ NotDue(incomingCa[s]) \in Seq(CaFlit) /\ FromAt(NotDue(incomingCa[s]), s) = {}
       /\ \A t \in Others(s) : AfterReading(NotDue(incomingCa[s]), read)[t] = lastShared[t]
  <2> HIDE DEF older
  <2> QED BY <1>1, <1>8, CaReading
<1>11. m_contention_counter' \in [Routers -> [OutPorts -> Nat]]
  BY <1>2, <1>5, <1>6
<1> HIDE DEF own, older, told, read
<1>12. /\ m_partial_counter' \in [Routers -> [Routers -> [OtherGroups -> Nat]]]
       /\ m_partial_counter'[s] = read
       /\ \A r \in Others(s) : m_partial_counter'[r] = m_partial_counter[r]
  BY <1>5, <1>9, <1>10 DEF Others
<1>13. /\ incomingCa'[s] = NotDue(incomingCa[s])
       /\ incomingCa' \in [Routers -> Seq(CaFlit)]
       /\ lastShared' \in [Routers -> [OtherGroups -> Nat]]
       /\ \A t \in Others(s) : lastShared'[t] = lastShared[t]
       /\ \/ /\ lastShared'[s] = own
             /\ \A r \in Others(s) : incomingCa'[r] = Append(incomingCa[r], told)
          \/ /\ lastShared' = lastShared
             /\ \A r \in Others(s) : incomingCa'[r] = incomingCa[r]
  <2>1. CASE cycle % SharePeriod = 0
    <3>1. /\ incomingCa' = [t \in Routers |-> IF t = s THEN NotDue(incomingCa[s])
                                              ELSE Append(incomingCa[t], told)]
          /\ lastShared' = [lastShared EXCEPT ![s] = own]
      BY <1>9, <2>1 DEF Share, told
    <3>2. \A t \in Routers : Append(incomingCa[t], told) \in Seq(CaFlit)
      BY <1>5, <1>7
    <3> QED BY <1>5, <1>6, <1>10, <3>1, <3>2 DEF Others
  <2>2. CASE cycle % SharePeriod # 0
    <3>1. /\ incomingCa' = [incomingCa EXCEPT ![s] = NotDue(@)] /\ lastShared' = lastShared
      BY <1>9, <2>2 DEF Share
    <3> QED BY <1>5, <1>10, <3>1 DEF Others
  <2> QED BY <2>1, <2>2
<1>14. ASSUME NEW r \in Routers PROVE FromAt(incomingCa'[r], r) = {}
  <2>1. CASE r = s
    BY <1>10, <1>13, <2>1
  <2>2. CASE r # s
    <3>1. FromAt(Append(incomingCa[r], told), r) = {}
      BY <1>5, <1>7, <2>2, FromAtAppended
    <3> QED BY <1>5, <1>13, <2>2, <3>1 DEF Others
  <2> QED BY <2>1, <2>2
<1>15. CaTypeOK'
  BY <1>1, <1>2, <1>3, <1>4, <1>11, <1>12, <1>13, <1>14, TraversalTypes DEF CaTypeOK
<1>16. CaShared'
  <2> SUFFICES ASSUME NEW r \in Routers, NEW t \in Others(r)
               PROVE  AfterReading(incomingCa'[r], m_partial_counter'[r])[t] = lastShared'[t]
    BY DEF CaShared
  <2>0. t \in Routers /\ t # r
    BY DEF Others
  <2>1. CASE r = s
    BY <1>10, <1>12, <1>13, <2>1
  <2>2. CASE r # s
    <3>1. r \in Others(s) /\ (t = s \/ t \in Others(s)) /\ incomingCa[r] \in Seq(CaFlit)
      BY <1>5, <2>0, <2>2 DEF Others
    <3>2. AfterReading(incomingCa[r], m_partial_counter[r])[t] = lastShared[t]
      BY <1>1 DEF CaShared
    <3>3. AfterReading(Append(incomingCa[r], told), m_partial_counter[r])[t]
            = IF told.from = t THEN told.info
              ELSE AfterReading(incomingCa[r], m_partial_counter[r])[t]
      BY <1>7, <2>0, <3>1, ReadingAppended
    <3> QED BY <1>7, <1>12, <1>13, <3>1, <3>2, <3>3
  <2> QED BY <2>1, <2>2
<1>17. QueuedCounted'
  BY <1>3 DEF QueuedCounted
<1> QED BY <1>15, <1>16, <1>17 DEF CaIInv

(* A switch acts and counts what is queued.                                *)
LEMMA CaActQueued ==
  ASSUME CaIInv, TurnsOK, NEW s \in Routers, CaAct(s), ~atHeader PROVE CaIInv'
<1>1. CaTypeOK /\ CaShared /\ QueuedCounted
  BY DEF CaIInv
<1>2. PICK C \in SUBSET {ch \in InChannels : HasHead(s, ch)} :
        /\ Traversal(s, C)
        /\ m_contention_counter' = [m_contention_counter EXCEPT ![s] =
               [p \in OutPorts |-> @[p] - Count(HeadsFor(queue[s], C, p))]]
  BY DEF CaAct, HeadsFor
<1>3. /\ atHeader' = atHeader /\ loopOfTraces' = loopOfTraces /\ TurnOf(s)
      /\ m_partial_counter' = m_partial_counter /\ incomingCa' = incomingCa
      /\ lastShared' = lastShared
  BY DEF CaAct
<1>4. cycle \in Nat
  BY <1>3, TurnTaken
<1>5. /\ queue' \in [Routers -> [InChannels -> Seq(Flit)]]
      /\ \A r \in Routers, ch \in InChannels : Len(queue'[r][ch]) <= Capacity
      /\ \A r \in Routers : r # s => queue'[r] = queue[r]
      /\ \A p : Count(Places(queue'[s], p)) = Count(Places(queue[s], p))
                    - Count(HeadsFor(queue[s], C, p))
      /\ sendingEnd' \in [Routers -> [InChannels -> Nat]]
      /\ sentTo' \in [Routers -> [InChannels -> Dests]]
      /\ m_sending_end_cycle_queue' \in [Routers -> [OutPorts \cup OtherGroups -> Seq(Nat)]]
  BY <1>1, <1>2, <1>4, TraversalTypes
<1>6. m_contention_counter \in [Routers -> [OutPorts -> Nat]]
  BY <1>1 DEF CaTypeOK
<1>7. ASSUME NEW r \in Routers, NEW p \in OutPorts
      PROVE  m_contention_counter'[r][p] = Count(Places(queue'[r], p))
  <2>1. m_contention_counter[r][p] = Count(Places(queue[r], p))
    BY <1>1 DEF QueuedCounted, Queued, Places
  <2>2. CASE r = s
    <3>1. m_contention_counter'[s][p]
            = m_contention_counter[s][p] - Count(HeadsFor(queue[s], C, p))
      BY <1>2, <1>6
    <3>2. Count(Places(queue'[s], p))
            = Count(Places(queue[s], p)) - Count(HeadsFor(queue[s], C, p))
      BY <1>5
    <3> QED BY <2>1, <2>2, <3>1, <3>2
  <2>3. CASE r # s
    BY <1>2, <1>5, <1>6, <2>1, <2>3
  <2> QED BY <2>2, <2>3
<1>8. QueuedCounted'
  <2> SUFFICES ASSUME NEW r \in Routers, NEW p \in OutPorts
               PROVE  m_contention_counter'[r][p] = Count(Queued(r, p))'
    BY <1>3 DEF QueuedCounted
  <2>1. Queued(r, p)' = Places(queue'[r], p)
    BY DEF Queued, Places
  <2> QED BY <1>7, <2>1 DEF Count
<1>9. m_contention_counter' \in [Routers -> [OutPorts -> Nat]]
  <2>1. \A r \in Routers, p \in OutPorts : m_contention_counter'[r][p] \in Nat
    BY <1>7, PlacesFinite
  <2>2. /\ m_contention_counter'[s] \in [OutPorts -> Nat]
        /\ \A r \in Routers : r # s => m_contention_counter'[r] = m_contention_counter[r]
    <3>1. m_contention_counter'[s]
            = [p \in OutPorts |-> m_contention_counter[s][p] - Count(HeadsFor(queue[s], C, p))]
      BY <1>2, <1>6
    <3> QED BY <1>2, <1>6, <2>1, <3>1
  <2> QED BY <1>2, <1>6, <2>2
<1>10. CaTypeOK'
  BY <1>1, <1>3, <1>5, <1>9 DEF CaTypeOK
<1>11. CaShared'
  BY <1>1, <1>3 DEF CaShared
<1> QED BY <1>8, <1>10, <1>11 DEF CaIInv

(* A switch is idle, and may read.                                         *)
LEMMA CaIdleInv ==
  ASSUME CaIInv, TurnsOK, NEW s \in Routers, CaIdle(s) PROVE CaIInv'
<1>1. CaTypeOK /\ CaShared /\ QueuedCounted
  BY DEF CaIInv
<1>2. UNCHANGED <<atHeader, loopOfTraces, queue, sendingEnd, sentTo, lastShared,
                  m_contention_counter, m_sending_end_cycle_queue>>
  BY DEF CaIdle
<1>3. QueuedCounted'
  BY ZenonT(60), <1>1, <1>2 DEF QueuedCounted, Queued
<1>4. CASE ~loopOfTraces
  <2>1. UNCHANGED <<m_partial_counter, incomingCa>>
    BY <1>4 DEF CaIdle
  <2> QED BY <1>1, <1>2, <1>3, <2>1 DEF CaTypeOK, CaShared, CaIInv
<1>5. CASE loopOfTraces
  <2>1. /\ m_partial_counter' = [m_partial_counter EXCEPT
               ![s] = AfterReading(Due(incomingCa[s]), m_partial_counter[s])]
        /\ incomingCa' = [incomingCa EXCEPT ![s] = NotDue(@)]
    BY <1>5 DEF CaIdle, ReadCaFlits
  <2>2. /\ m_partial_counter \in [Routers -> [Routers -> [OtherGroups -> Nat]]]
        /\ incomingCa \in [Routers -> Seq(CaFlit)]
        /\ \A r \in Routers : FromAt(incomingCa[r], r) = {}
    BY <1>1 DEF CaTypeOK
  <2> DEFINE view == m_partial_counter[s]
             read == AfterReading(Due(incomingCa[s]), view)
  <2>3. view \in [Routers -> [OtherGroups -> Nat]]
    BY <2>2
  <2>4. /\ read \in [Routers -> [OtherGroups -> Nat]]
        /\ NotDue(incomingCa[s]) \in Seq(CaFlit) /\ FromAt(NotDue(incomingCa[s]), s) = {}
        /\ \A t \in Others(s) : AfterReading(NotDue(incomingCa[s]), read)[t] = lastShared[t]
    BY <1>1, <2>3, CaReading
  <2> HIDE DEF read
  <2>5. /\ m_partial_counter' \in [Routers -> [Routers -> [OtherGroups -> Nat]]]
        /\ incomingCa' \in [Routers -> Seq(CaFlit)]
        /\ m_partial_counter'[s] = read /\ incomingCa'[s] = NotDue(incomingCa[s])
        /\ \A r \in Others(s) : /\ m_partial_counter'[r] = m_partial_counter[r]
                                /\ incomingCa'[r] = incomingCa[r]
    BY <2>1, <2>2, <2>4 DEF Others, read
  <2>6. CaTypeOK'
    <3>1. \A r \in Routers : FromAt(incomingCa'[r], r) = {}
      BY <2>2, <2>4, <2>5 DEF Others
    <3> QED BY <1>1, <1>2, <2>5, <3>1 DEF CaTypeOK
  <2>7. CaShared'
    <3> SUFFICES ASSUME NEW r \in Routers, NEW t \in Others(r)
                 PROVE  AfterReading(incomingCa'[r], m_partial_counter'[r])[t] = lastShared[t]
      BY <1>2 DEF CaShared
    <3>1. CASE r = s
      BY <2>4, <2>5, <3>1
    <3>2. CASE r # s
      BY <1>1, <2>5, <3>2 DEF CaShared, Others
    <3> QED BY <3>1, <3>2
  <2> QED BY <1>3, <2>6, <2>7 DEF CaIInv
<1> QED BY <1>4, <1>5

LEMMA CaNextInv == ASSUME CaIInv, TurnsOK, CaNext PROVE CaIInv' /\ TurnsOK'
<1>0. cycle \in Nat
  BY TurnsAssumption DEF TurnsOK, TurnsAssumption
<1> SUFFICES ASSUME NEW s \in Routers,
                    \/ CaAct(s) \/ CaIdle(s)
                    \/ \E ch \in InChannels, d \in Dests :
                           <<s, ch, d>> \in Arrivals /\ Insert(s, ch, d)
             PROVE  CaIInv' /\ TurnsOK'
  BY DEF CaNext
<1>1. CASE CaAct(s)
  <2>1. TurnOf(s) /\ atHeader \in BOOLEAN
    BY <1>1 DEF CaAct, CaIInv, CaTypeOK
  <2> QED BY <1>1, <2>1, CaActHeads, CaActQueued, TurnTaken
<1>2. CASE CaIdle(s)
  <2>1. TurnOf(s)
    BY <1>2 DEF CaIdle
  <2> QED BY <1>2, <2>1, CaIdleInv, TurnTaken
<1>3. CASE \E ch \in InChannels, d \in Dests : <<s, ch, d>> \in Arrivals /\ Insert(s, ch, d)
  <2>1. PICK ch \in InChannels, d \in Dests : Insert(s, ch, d)
    BY <1>3
  <2>2. cycle' = cycle /\ turn' = turn
    BY <2>1 DEF Insert, turnVars
  <2> QED BY <1>0, <2>1, <2>2, CaInsertInv DEF TurnsOK
<1> QED BY <1>1, <1>2, <1>3
(* What is on its way out, where a flit takes as long through the crossbar *)
(* as through a link: the entries of a queue are in order, and as many of  *)
(* them are later than any cycle to come as channels are still sending.    *)
Later(q, c) == {i \in 1..Len(q) : q[i] > c}
Rising(q, last) == \A i \in 1..Len(q) : q[i] <= last /\ \A j \in 1..i : q[j] <= q[i]

SendingFor(s, x, c) ==
    {ch \in InChannels : /\ sendingEnd[s][ch] > c
                         /\ Noted(sentTo[s][ch]) /\ CountsFor(sentTo[s][ch], ch, x)}

SendingCounted ==
    atHeader => \A s \in Routers, x \in OutPorts \cup OtherGroups :
        /\ Rising(m_sending_end_cycle_queue[s][x], cycle + FlitSize)
        /\ \A c \in Nat : c >= cycle =>
               Count(Later(m_sending_end_cycle_queue[s][x], c)) = Count(SendingFor(s, x, c))

(* The later entries of a rising list are its last ones.                   *)
LEMMA LaterLast ==
  ASSUME NEW q \in Seq(Nat), NEW last \in Nat, Rising(q, last), NEW c \in Nat
  PROVE  \E n \in 0..Len(q) :
           /\ \A i \in 1..Len(q) : q[i] > c <=> i > n
           /\ Later(q, c) = (n + 1)..Len(q) /\ Count(Later(q, c)) = Len(q) - n
<1> DEFINE late == Later(q, c)
<1>1. Len(q) \in Nat /\ \A i \in 1..Len(q) : q[i] \in Nat /\ \A j \in 1..i : q[j] <= q[i]
  BY DEF Rising
<1>2. PICK n \in 0..Len(q) : \A i \in 1..Len(q) : q[i] > c <=> i > n
  <2>1. CASE late = {}
    <3> WITNESS Len(q) \in 0..Len(q)
    <3> QED BY <1>1, <2>1 DEF Later
  <2>2. CASE late # {}
    <3>1. late \in SUBSET Nat
      BY DEF Later
    <3>2. PICK m \in late : \A i \in late : m <= i
      BY <2>2, <3>1, NatMinimum
    <3>3. m \in 1..Len(q) /\ q[m] > c
      BY <3>2 DEF Later
    <3>4. m - 1 \in 0..Len(q)
      BY <1>1, <3>3
    <3>5. ASSUME NEW i \in 1..Len(q) PROVE q[i] > c <=> i > m - 1
      <4>1. CASE i > m - 1
        <5>1. m \in 1..i
          BY <3>3, <4>1
        <5>2. q[m] <= q[i] /\ q[m] \in Nat /\ q[i] \in Nat
          BY <1>1, <3>3, <5>1
        <5> QED BY <3>3, <4>1, <5>2
      <4>2. CASE ~(i > m - 1)
        <5>1. ~(m <= i)
          BY <3>3, <4>2
        <5> QED BY <3>2, <4>2, <5>1 DEF Later
      <4> QED BY <4>1, <4>2
    <3> QED BY <3>4, <3>5
  <2> QED BY <2>1, <2>2
<1>3. Later(q, c) = (n + 1)..Len(q)
  BY <1>1, <1>2 DEF Later
<1>4. Cardinality((n + 1)..Len(q)) = Len(q) - n
  <2>1. n + 1 \in Int /\ Len(q) \in Int
    BY <1>1
  <2>2. Cardinality((n + 1)..Len(q))
          = IF n + 1 > Len(q) THEN 0 ELSE Len(q) - (n + 1) + 1
    BY <2>1, FS_Interval
  <2> QED BY <1>1, <2>2
<1> QED BY <1>2, <1>3, <1>4 DEF Count

(* The entries that have expired go, and no other.                         *)
LEMMA StillSendingLater ==
  ASSUME NEW q \in Seq(Nat), NEW last \in Nat, Rising(q, last), cycle \in Nat
  PROVE  /\ Rising(StillSending(q), last)
         /\ Len(StillSending(q)) = Count(Later(q, cycle))
         /\ \A c \in Nat : c >= cycle =>
                Count(Later(StillSending(q), c)) = Count(Later(q, c))
<1>1. PICK n \in 0..Len(q) :
        /\ \A i \in 1..Len(q) : q[i] > cycle <=> i > n
        /\ Later(q, cycle) = (n + 1)..Len(q) /\ Count(Later(q, cycle)) = Len(q) - n
  BY LaterLast
<1> DEFINE r == StillSending(q)
<1>2. Len(q) \in Nat /\ \A i \in 1..Len(q) : q[i] \in Nat
  OBVIOUS
<1>3. /\ r \in Seq(Nat) /\ Len(r) = Len(q) - n
      /\ \A i \in 1..(Len(q) - n) : r[i] = q[n + i]
  <2> DEFINE left == {i \in 1..Len(q) : q[i] > cycle}
  <2>1. left = (n + 1)..Len(q)
    BY <1>1 DEF Later
  <2>2. CASE n = Len(q)
    <3>1. left = {}
      BY <1>2, <2>1, <2>2
    <3>2. r = <<>>
      BY <3>1 DEF StillSending
    <3> HIDE DEF r
    <3> QED BY <1>2, <2>2, <3>2
  <2>3. CASE n # Len(q)
    <3>1. n + 1 \in left /\ \A j \in left : n + 1 <= j
      <4>1. n \in Int /\ n + 1 <= Len(q)
        BY <1>2, <2>3
      <4> HIDE DEF left
      <4> QED BY <1>2, <2>1, <4>1
    <3> DEFINE first == CHOOSE i \in left : \A j \in left : i <= j
    <3>2. first \in left /\ \A j \in left : first <= j
      BY <3>1
    <3>3. first = n + 1
      <4>1. first \in Int /\ first <= n + 1 /\ n + 1 <= first
        <5> HIDE DEF first, left
        <5>1. first \in Int
          BY <1>2, <2>1, <3>2
        <5> QED BY <3>1, <3>2, <5>1
      <4> HIDE DEF first
      <4> QED BY <4>1
    <3>4. r = SubSeq(q, first, Len(q))
      BY <3>1 DEF StillSending
    <3>5. r = SubSeq(q, n + 1, Len(q))
      BY <3>3, <3>4
    <3> HIDE DEF r
    <3> QED BY <1>2, <3>5
  <2> QED BY <2>2, <2>3
<1> HIDE DEF r
<1>4. Rising(r, last)
  <2> SUFFICES ASSUME NEW i \in 1..Len(r)
               PROVE  r[i] <= last /\ \A j \in 1..i : r[j] <= r[i]
    BY DEF Rising
  <2>1. n + i \in 1..Len(q) /\ r[i] = q[n + i]
    BY <1>2, <1>3
  <2>2. ASSUME NEW j \in 1..i PROVE r[j] = q[n + j] /\ n + j \in 1..(n + i)
    <3>1. j \in 1..(Len(q) - n)
      BY <1>2, <1>3
    <3> QED BY <1>2, <1>3, <3>1
  <2> QED BY <2>1, <2>2 DEF Rising
<1>5. ASSUME NEW c \in Nat, c >= cycle PROVE Count(Later(r, c)) = Count(Later(q, c))
  <2>1. PICK m \in 0..Len(q) :
          /\ \A i \in 1..Len(q) : q[i] > c <=> i > m
          /\ Count(Later(q, c)) = Len(q) - m
    BY LaterLast
  <2>2. PICK k \in 0..Len(r) :
          /\ \A i \in 1..Len(r) : r[i] > c <=> i > k
          /\ Count(Later(r, c)) = Len(r) - k
    BY <1>3, <1>4, LaterLast
  <2>3. n <= m
    <3> SUFFICES ASSUME m < n PROVE FALSE
      BY <1>2
    <3>1. n \in 1..Len(q) /\ q[n] \in Nat
      BY <1>2
    <3>2. q[n] > c /\ ~(q[n] > cycle)
      BY <1>1, <2>1, <3>1
    <3> QED BY <1>5, <3>1, <3>2
  <2>4. k = m - n
    <3>1. ASSUME k < m - n PROVE FALSE
      <4>1. k + 1 \in 1..Len(r) /\ n + (k + 1) \in 1..Len(q) /\ k + 1 > k
            /\ ~(n + (k + 1) > m) /\ k + 1 \in 1..(Len(q) - n)
        BY <1>2, <1>3, <3>1
      <4>2. r[k + 1] = q[n + (k + 1)]
        BY <1>3, <4>1
      <4> QED BY <2>1, <2>2, <4>1, <4>2
    <3>2. ASSUME k > m - n PROVE FALSE
      <4>1. k \in 1..Len(r) /\ n + k \in 1..Len(q) /\ ~(k > k) /\ n + k > m
            /\ k \in 1..(Len(q) - n)
        BY <1>2, <1>3, <2>3, <3>2
      <4>2. r[k] = q[n + k]
        BY <1>3, <4>1
      <4> QED BY <2>1, <2>2, <4>1, <4>2
    <3>3. k \in Int /\ m - n \in Int
      BY <1>2
    <3> QED BY <3>1, <3>2, <3>3
  <2> QED BY <1>2, <1>3, <2>1, <2>2, <2>4
<1> QED BY <1>1, <1>3, <1>4, <1>5 DEF r

(* The flits of one cycle are noted behind the others.                     *)
LEMMA LaterNoted ==
  ASSUME NEW q \in Seq(Nat), NEW last \in Nat, Rising(q, last), NEW k \in Nat,
         NEW r \in Seq(Nat), Len(r) = k, \A i \in 1..k : r[i] = last
  PROVE  /\ Rising(q \o r, last)
         /\ \A c \in Nat : Count(Later(q \o r, c))
                             = Count(Later(q, c)) + (IF last > c THEN k ELSE 0)
<1> DEFINE b == q \o r
           n == Len(q)
<1>1. /\ n \in Nat /\ b \in Seq(Nat) /\ Len(b) = n + k
      /\ \A i \in 1..n : b[i] = q[i] /\ b[i] \in Nat /\ b[i] <= last
      /\ \A i \in (n + 1)..(n + k) : b[i] = last
  <2>1. n \in Nat /\ b \in Seq(Nat) /\ Len(b) = n + k /\ \A i \in 1..n : b[i] = q[i]
    OBVIOUS
  <2>2. \A i \in 1..n : q[i] \in Nat /\ q[i] <= last
    BY DEF Rising
  <2>3. ASSUME NEW i \in (n + 1)..(n + k) PROVE b[i] = last
    <3>1. i \in 1..(Len(q) + Len(r)) /\ ~(i <= Len(q)) /\ i - n \in 1..k
      BY <2>1
    <3>2. b[i] = r[i - Len(q)]
      BY <3>1
    <3> QED BY <3>1, <3>2
  <2> HIDE DEF b
  <2> QED BY <2>1, <2>2, <2>3
<1> HIDE DEF b
<1>2. \A i \in 1..(n + k) : i \in 1..n \/ i \in (n + 1)..(n + k)
  BY <1>1
<1>3. Rising(b, last)
  <2> SUFFICES ASSUME NEW i \in 1..(n + k)
               PROVE  b[i] <= last /\ \A j \in 1..i : b[j] <= b[i]
    BY <1>1 DEF Rising
  <2>1. CASE i \in 1..n
    <3>1. \A j \in 1..i : j \in 1..n
      BY <1>1, <2>1
    <3> QED BY <1>1, <2>1, <3>1 DEF Rising
  <2>2. CASE i \in (n + 1)..(n + k)
    <3>1. \A j \in 1..i : j \in 1..(n + k)
      BY <1>1, <2>2
    <3>2. b[i] = last
      BY <1>1, <2>2
    <3> QED BY <1>1, <1>2, <3>1, <3>2
  <2> QED BY <1>2, <2>1, <2>2
<1>4. ASSUME NEW c \in Nat
      PROVE  Count(Later(b, c)) = Count(Later(q, c)) + (IF last > c THEN k ELSE 0)
  <2>1. PICK m \in 0..n :
          /\ \A i \in 1..n : q[i] > c <=> i > m
          /\ Count(Later(q, c)) = n - m
    BY LaterLast
  <2>2. PICK l \in 0..(n + k) :
          /\ \A i \in 1..(n + k) : b[i] > c <=> i > l
          /\ Count(Later(b, c)) = n + k - l
    <3>1. PICK l \in 0..Len(b) :
            /\ \A i \in 1..Len(b) : b[i] > c <=> i > l
            /\ Count(Later(b, c)) = Len(b) - l
      BY <1>1, <1>3, LaterLast
    <3> QED BY <1>1, <3>1
  <2>3. CASE last > c
    <3>1. l = m
      <4>1. ASSUME l < m PROVE FALSE
        <5>1. m \in 1..n /\ m \in 1..(n + k) /\ m > l /\ ~(m > m)
          BY <1>1, <4>1
        <5>2. b[m] = q[m]
          BY <1>1, <5>1
        <5> QED BY <2>1, <2>2, <5>1, <5>2
      <4>2. ASSUME m < l, l <= n PROVE FALSE
        <5>1. l \in 1..n /\ l \in 1..(n + k) /\ l > m /\ ~(l > l)
          BY <1>1, <4>2
        <5>2. b[l] = q[l]
          BY <1>1, <5>1
        <5> QED BY <2>1, <2>2, <5>1, <5>2
      <4>3. ASSUME l > n PROVE FALSE
        <5>1. l \in (n + 1)..(n + k) /\ l \in 1..(n + k) /\ ~(l > l)
          BY <1>1, <4>3
        <5>2. b[l] = last
          BY <1>1, <5>1
        <5> QED BY <2>2, <2>3, <5>1, <5>2
      <4> QED BY <1>1, <4>1, <4>2, <4>3
    <3> QED BY <1>1, <2>1, <2>2, <2>3, <3>1
  <2>4. CASE ~(last > c)
    <3>1. m = n
      <4> SUFFICES ASSUME m < n PROVE FALSE
        BY <1>1
      <4>1. n \in 1..n /\ n > m
        BY <1>1
      <4>2. q[n] > c /\ q[n] <= last /\ q[n] \in Nat
        BY <1>1, <2>1, <4>1
      <4> QED BY <2>4, <4>2
    <3>2. l = n + k
      <4> HIDE DEF n
      <4>0. l \in Int /\ n + k \in Int /\ l <= n + k
        BY <1>1
      <4> SUFFICES ASSUME l < n + k PROVE FALSE
        BY <4>0
      <4>1. n + k \in 1..(n + k) /\ n + k > l
        BY <1>1
      <4>2. b[n + k] > c /\ b[n + k] <= last /\ b[n + k] \in Nat
        BY <1>1, <1>2, <2>2, <4>1
      <4> QED BY <2>4, <4>2
    <3> QED BY <1>1, <2>1, <2>2, <2>4, <3>1, <3>2
  <2> QED BY <2>3, <2>4
<1> QED BY <1>3, <1>4 DEF b
LEMMA SendingInitially == CaInit /\ cycle \in Nat => SendingCounted
<1> SUFFICES ASSUME CaInit, cycle \in Nat,
                    NEW s \in Routers, NEW x \in OutPorts \cup OtherGroups
             PROVE  /\ Rising(m_sending_end_cycle_queue[s][x], cycle + FlitSize)
                    /\ \A c \in Nat : c >= cycle =>
                           Count(Later(m_sending_end_cycle_queue[s][x], c))
                             = Count(SendingFor(s, x, c))
  BY DEF SendingCounted
<1>1. m_sending_end_cycle_queue[s][x] = <<>>
  BY DEF CaInit
<1>2. \A ch \in InChannels : sendingEnd[s][ch] = 0
  BY DEF CaInit
<1>3. \A c \in Nat : Later(<<>>, c) = {} /\ SendingFor(s, x, c) = {}
  BY <1>2 DEF Later, SendingFor
<1>4. Rising(<<>>, cycle + FlitSize)
  BY DEF Rising
<1> QED BY <1>1, <1>3, <1>4

(* Nothing leaves, and time may pass.                                      *)
LEMMA SendingLater ==
  ASSUME SendingCounted, CaTypeOK, cycle \in Nat, cycle' \in Nat, cycle' >= cycle,
         UNCHANGED <<atHeader, sendingEnd, sentTo, m_sending_end_cycle_queue>>
  PROVE  SendingCounted'
<1> SUFFICES ASSUME atHeader, NEW s \in Routers, NEW x \in OutPorts \cup OtherGroups
             PROVE  /\ Rising(m_sending_end_cycle_queue[s][x], cycle' + FlitSize)
                    /\ \A c \in Nat : c >= cycle' =>
                           Count(Later(m_sending_end_cycle_queue[s][x], c))
                             = Count(SendingFor(s, x, c))
  <2>1. \A s, x, c : SendingFor(s, x, c)' = {ch \in InChannels :
              /\ sendingEnd[s][ch] > c
              /\ Noted(sentTo[s][ch]) /\ CountsFor(sentTo[s][ch], ch, x)}
    BY DEF SendingFor
  <2> QED BY SMTT(60), <2>1 DEF SendingCounted, SendingFor, Count, Rising, Later
<1>1. /\ Rising(m_sending_end_cycle_queue[s][x], cycle + FlitSize)
      /\ \A c \in Nat : c >= cycle =>
             Count(Later(m_sending_end_cycle_queue[s][x], c)) = Count(SendingFor(s, x, c))
  BY DEF SendingCounted
<1>2. \A c \in Nat : c >= cycle' => c >= cycle
  OBVIOUS
<1>3. m_sending_end_cycle_queue[s][x] \in Seq(Nat)
  BY DEF CaTypeOK
<1>4. Rising(m_sending_end_cycle_queue[s][x], cycle' + FlitSize)
  <2> DEFINE q == m_sending_end_cycle_queue[s][x]
  <2>1. \A i \in 1..Len(q) : q[i] \in Nat
    BY <1>3
  <2>2. FlitSize \in Nat
    BY ContentionAssumption DEF ContentionAssumption
  <2>3. \A v \in Nat : v <= cycle + FlitSize => v <= cycle' + FlitSize
    <3>1. \A v, y, z, d \in Nat : y <= z /\ v <= y + d => v <= z + d
      OBVIOUS
    <3> QED BY <2>2, <3>1
  <2> HIDE DEF q
  <2>4. Rising(q, cycle + FlitSize)
    BY <1>1 DEF q
  <2>5. Rising(q, cycle' + FlitSize)
    BY <2>1, <2>3, <2>4 DEF Rising
  <2> QED BY <2>5 DEF q
<1> QED BY <1>1, <1>2, <1>4

(* The heads of the channels C leave, which takes each the same time.      *)
LEMMA SendingTraversal ==
  ASSUME XbarLength = FlitSize, SendingCounted, CaTypeOK, cycle \in Nat, cycle' \in Nat,
         cycle' >= cycle, atHeader, atHeader' = atHeader, NEW s \in Routers,
         NEW C \in SUBSET {ch \in InChannels : HasHead(s, ch)}, Traversal(s, C)
  PROVE  SendingCounted'
<1> DEFINE flit(ch) == queue[s][ch][1]
           left(ch) == flit(ch).entry + FlitSize - cycle
           length(ch) == IF left(ch) > XbarLength THEN left(ch) ELSE XbarLength
           going(x) == {ch \in C : /\ Noted(flit(ch).dest)
                                   /\ CountsFor(flit(ch).dest, ch, x)}
           noted(x) == SetToSeq(going(x))
           last == cycle + FlitSize
           list(x) == m_sending_end_cycle_queue[s][x]
           tail(x) == [i \in 1..Len(noted(x)) |-> cycle + length(noted(x)[i])]
<1>1. /\ queue \in [Routers -> [InChannels -> Seq(Flit)]]
      /\ sendingEnd \in [Routers -> [InChannels -> Nat]]
      /\ sentTo \in [Routers -> [InChannels -> Dests]]
      /\ m_sending_end_cycle_queue \in [Routers -> [OutPorts \cup OtherGroups -> Seq(Nat)]]
      /\ FlitSize \in Nat /\ last \in Nat
  <2>1. FlitSize \in Nat /\ last \in Nat
    BY ContentionAssumption DEF ContentionAssumption
  <2> QED BY <2>1 DEF CaTypeOK
<1>2. /\ sendingEnd' = [sendingEnd EXCEPT ![s] =
             [ch \in InChannels |-> IF ch \in C THEN cycle + length(ch) ELSE @[ch]]]
      /\ sentTo' = [sentTo EXCEPT ![s] =
             [ch \in InChannels |-> IF ch \in C THEN flit(ch).dest ELSE @[ch]]]
      /\ m_sending_end_cycle_queue' = [m_sending_end_cycle_queue EXCEPT ![s] =
             [x \in OutPorts \cup OtherGroups |-> StillSending(list(x)) \o tail(x)]]
  BY DEF Traversal
<1>3. C \in SUBSET InChannels /\ IsFiniteSet(InChannels)
  BY ContentionAssumption DEF ContentionAssumption
<1>4. ASSUME NEW ch \in C
      PROVE  /\ flit(ch).dest \in Dests /\ length(ch) = FlitSize
             /\ sendingEnd[s][ch] <= cycle /\ ch \in InChannels
  <2>1. queue[s][ch] \in Seq(Flit) /\ queue[s][ch] # <<>> /\ flit(ch).entry <= cycle
        /\ sendingEnd[s][ch] <= cycle /\ ch \in InChannels
    BY <1>1, <1>3 DEF HasHead
  <2>2. flit(ch) \in Flit
    BY <2>1
  <2>3. flit(ch).entry \in Nat /\ flit(ch).dest \in Dests
    BY <2>2 DEF Flit
  <2> HIDE DEF flit
  <2> QED BY <1>1, <2>1, <2>3
<1> HIDE DEF flit, length
<1> SUFFICES ASSUME NEW r \in Routers, NEW x \in OutPorts \cup OtherGroups
             PROVE  /\ Rising(m_sending_end_cycle_queue'[r][x], cycle' + FlitSize)
                    /\ \A c \in Nat : c >= cycle' =>
                           Count(Later(m_sending_end_cycle_queue'[r][x], c))
                             = Count({ch \in InChannels :
                                 /\ sendingEnd'[r][ch] > c /\ Noted(sentTo'[r][ch])
                                 /\ CountsFor(sentTo'[r][ch], ch, x)})
  <2>1. \A r, x, c : SendingFor(r, x, c)' = {ch \in InChannels :
              /\ sendingEnd'[r][ch] > c /\ Noted(sentTo'[r][ch])
              /\ CountsFor(sentTo'[r][ch], ch, x)}
    BY DEF SendingFor
  <2> QED BY <2>1 DEF SendingCounted, Count, Rising, Later
<1>5. \A y \in OutPorts \cup OtherGroups : \A t \in Routers :
        /\ Rising(m_sending_end_cycle_queue[t][y], last)
        /\ \A c \in Nat : c >= cycle =>
               Count(Later(m_sending_end_cycle_queue[t][y], c)) = Count(SendingFor(t, y, c))
        /\ m_sending_end_cycle_queue[t][y] \in Seq(Nat)
  BY <1>1 DEF SendingCounted
<1>6. ASSUME NEW q \in Seq(Nat), Rising(q, last) PROVE Rising(q, cycle' + FlitSize)
  <2>1. \A i \in 1..Len(q) : q[i] \in Nat
    OBVIOUS
  <2>2. \A v \in Nat : v <= last => v <= cycle' + FlitSize
    <3>1. \A v, y, z, d \in Nat : y <= z /\ v <= y + d => v <= z + d
      OBVIOUS
    <3> QED BY <1>1, <3>1
  <2> HIDE DEF last
  <2> QED BY <1>6, <2>1, <2>2 DEF Rising
<1>7. \A c \in Nat : c >= cycle' => c >= cycle
  OBVIOUS
<1>8. CASE r # s
  <2>1. /\ m_sending_end_cycle_queue'[r] = m_sending_end_cycle_queue[r]
        /\ sendingEnd'[r] = sendingEnd[r] /\ sentTo'[r] = sentTo[r]
    BY <1>1, <1>2, <1>8
  <2>2. /\ Rising(m_sending_end_cycle_queue[r][x], cycle' + FlitSize)
        /\ \A c \in Nat : c >= cycle' =>
               Count(Later(m_sending_end_cycle_queue[r][x], c)) = Count(SendingFor(r, x, c))
    BY <1>5, <1>6, <1>7
  <2> QED BY <2>1, <2>2 DEF SendingFor
<1>9. CASE r = s
  <2> DEFINE S == StillSending(list(x))
             b == tail(x)
             k == Cardinality(going(x))
             new == m_sending_end_cycle_queue'[s][x]
             after(c) == {ch \in InChannels :
                             /\ sendingEnd'[s][ch] > c /\ Noted(sentTo'[s][ch])
                             /\ CountsFor(sentTo'[s][ch], ch, x)}
  <2>1. new = S \o b
    BY <1>1, <1>2
  <2>2. /\ list(x) \in Seq(Nat) /\ Rising(list(x), last)
        /\ \A c \in Nat : c >= cycle =>
               Count(Later(list(x), c)) = Count(SendingFor(s, x, c))
    BY <1>5
  <2>3. /\ S \in Seq(Nat) /\ Rising(S, last)
        /\ \A c \in Nat : c >= cycle => Count(Later(S, c)) = Count(Later(list(x), c))
    <3> HIDE DEF list
    <3> QED BY <1>1, <2>2, StillSendingType, StillSendingLater
  <2>4. IsFiniteSet(going(x)) /\ k \in Nat
    <3>1. going(x) \in SUBSET InChannels
      BY <1>3
    <3> QED BY <1>3, <3>1, FS_Subset, FS_CardinalityType
  <2>5. Len(b) = k /\ b \in Seq(Nat) /\ \A i \in 1..k : b[i] = last
    <3> DEFINE places == noted(x)
               chosen == going(x)
    <3>1. places \in [1..k -> chosen] /\ chosen \subseteq C
      <4>1. \E f \in [1..Cardinality(chosen) -> chosen] : IsInjective(f)
        <5> HIDE DEF chosen
        <5> QED BY <2>4, FS_CardinalityType DEF ExistsBijection, Bijection, Injection, chosen
      <4>2. SetToSeq(chosen) \in [1..Cardinality(chosen) -> chosen]
        BY <4>1 DEF SetToSeq
      <4>3. chosen \subseteq C
        OBVIOUS
      <4> QED BY <4>2, <4>3
    <3>2. Len(places) = k
      <4> HIDE DEF places, k
      <4> QED BY <2>4, <3>1
    <3>3. b = [i \in 1..Len(places) |-> cycle + length(places[i])]
      OBVIOUS
    <3> HIDE DEF places, chosen, k, b
    <3>4. \A i \in 1..k : places[i] \in C
      BY <3>1
    <3>5. \A i \in 1..k : cycle + length(places[i]) = last
      BY <1>4, <3>4
    <3>6. b = [i \in 1..k |-> last]
      BY <3>2, <3>3, <3>5
    <3> QED BY <1>1, <2>4, <3>6
  <2> HIDE DEF S, b, k
  <2>6. /\ Rising(new, last) /\ new \in Seq(Nat)
        /\ \A c \in Nat : Count(Later(new, c))
                            = Count(Later(S, c)) + (IF last > c THEN k ELSE 0)
    <3> HIDE DEF new, last
    <3>1. last \in Nat
      BY <1>1 DEF last
    <3> QED BY <2>1, <2>3, <2>4, <2>5, <3>1, LaterNoted
  <2>7. ASSUME NEW c \in Nat, c >= cycle
        PROVE  Count(after(c)) = Count(SendingFor(s, x, c)) + (IF last > c THEN k ELSE 0)
    <3>1. \A ch \in InChannels :
            /\ sendingEnd'[s][ch] = IF ch \in C THEN last ELSE sendingEnd[s][ch]
            /\ sentTo'[s][ch] = IF ch \in C THEN flit(ch).dest ELSE sentTo[s][ch]
      BY <1>1, <1>2, <1>4
    <3>2. \A ch \in C : ch \in InChannels /\ ~(sendingEnd[s][ch] > c)
      <4>1. \A ch \in C : sendingEnd[s][ch] <= cycle /\ ch \in InChannels
                          /\ sendingEnd[s][ch] \in Nat
        BY <1>1, <1>4
      <4> QED BY <2>7, <4>1
    <3>3. SendingFor(s, x, c) = {ch \in InChannels \ C :
              /\ sendingEnd[s][ch] > c
              /\ Noted(sentTo[s][ch]) /\ CountsFor(sentTo[s][ch], ch, x)}
      BY <3>2 DEF SendingFor
    <3>4. IsFiniteSet(SendingFor(s, x, c)) /\ Cardinality(SendingFor(s, x, c)) \in Nat
      <4>1. SendingFor(s, x, c) \in SUBSET InChannels
        BY DEF SendingFor
      <4> QED BY <1>3, <4>1, FS_Subset, FS_CardinalityType
    <3>5. CASE last > c
      <4>1. after(c) = SendingFor(s, x, c) \cup going(x)
        <5> HIDE DEF last
        <5> QED BY <1>3, <3>1, <3>3, <3>5
      <4>2. SendingFor(s, x, c) \cap going(x) = {}
        BY <3>3
      <4> HIDE DEF going, after
      <4>3. Cardinality(SendingFor(s, x, c) \cup going(x))
              = Cardinality(SendingFor(s, x, c)) + Cardinality(going(x))
                  - Cardinality(SendingFor(s, x, c) \cap going(x))
        BY <2>4, <3>4, FS_Union
      <4>4. Cardinality(SendingFor(s, x, c) \cap going(x)) = 0
        BY <4>2, FS_EmptySet
      <4>5. Cardinality(after(c)) = Cardinality(SendingFor(s, x, c)) + k
        BY <2>4, <3>4, <4>1, <4>3, <4>4 DEF k
      <4> QED BY <3>5, <4>5 DEF Count
    <3>6. CASE ~(last > c)
      <4>1. after(c) = SendingFor(s, x, c)
        <5> HIDE DEF last
        <5> QED BY <1>3, <3>1, <3>3, <3>6
      <4> HIDE DEF after
      <4> QED BY <3>4, <3>6, <4>1 DEF Count
    <3> QED BY <3>5, <3>6
  <2>8. ASSUME NEW c \in Nat, c >= cycle' PROVE Count(Later(new, c)) = Count(after(c))
    <3> HIDE DEF new, after, last, list
    <3>1. c >= cycle
      BY <1>7, <2>8
    <3> QED BY <2>2, <2>3, <2>6, <2>7, <3>1
  <2>9. Rising(new, cycle' + FlitSize)
    <3> HIDE DEF new
    <3> QED BY <1>6, <2>6
  <2> QED BY <1>9, <2>8, <2>9
<1> QED BY <1>8, <1>9
LEMMA SendingNextInv ==
  ASSUME XbarLength = FlitSize, SendingCounted, CaIInv, TurnsOK, CaNext
  PROVE  SendingCounted'
<1>1. cycle \in Nat /\ CaTypeOK
  BY TurnsAssumption DEF TurnsOK, TurnsAssumption, CaIInv
<1> SUFFICES ASSUME NEW s \in Routers,
                    \/ CaAct(s) \/ CaIdle(s)
                    \/ \E ch \in InChannels, d \in Dests :
                           <<s, ch, d>> \in Arrivals /\ Insert(s, ch, d)
             PROVE  SendingCounted'
  BY DEF CaNext
<1>2. CASE CaAct(s)
  <2>1. TurnOf(s) /\ atHeader' = atHeader
    BY <1>2 DEF CaAct
  <2>2. cycle' \in Nat /\ cycle' >= cycle
    BY <2>1, TurnTaken
  <2>3. PICK C \in SUBSET {ch \in InChannels : HasHead(s, ch)} : Traversal(s, C)
    BY <1>2 DEF CaAct
  <2>4. CASE atHeader
    BY <1>1, <2>1, <2>2, <2>3, <2>4, SendingTraversal
  <2>5. CASE ~atHeader
    BY <2>1, <2>5 DEF SendingCounted
  <2> QED BY <2>4, <2>5
<1>3. CASE CaIdle(s)
  <2>1. /\ TurnOf(s)
        /\ UNCHANGED <<atHeader, sendingEnd, sentTo, m_sending_end_cycle_queue>>
    BY <1>3 DEF CaIdle
  <2>2. cycle' \in Nat /\ cycle' >= cycle
    BY <2>1, TurnTaken
  <2> QED BY <1>1, <2>1, <2>2, SendingLater
<1>4. CASE \E ch \in InChannels, d \in Dests : <<s, ch, d>> \in Arrivals /\ Insert(s, ch, d)
  <2>1. UNCHANGED <<atHeader, sendingEnd, sentTo, m_sending_end_cycle_queue, cycle>>
    BY <1>4 DEF Insert, turnVars
  <2>2. cycle' \in Nat /\ cycle' >= cycle
    BY <1>1, <2>1
  <2> QED BY <1>1, <2>1, <2>2, SendingLater
<1> QED BY <1>2, <1>3, <1>4

(* Every channel that has a flit for x is counted once.                    *)
LEMMA ContendedExact ==
  ASSUME SendingCounted, CaTypeOK, atHeader, cycle \in Nat,
         NEW s \in Routers, NEW x \in OutPorts \cup OtherGroups
  PROVE  Contended(s, x) = Count({ch \in InChannels : AsksFor(s, ch, x)})
<1> DEFINE heads == {ch \in InChannels :
                       HasHead(s, ch) /\ CountsFor(queue[s][ch][1].dest, ch, x)}
           q == m_sending_end_cycle_queue[s][x]
           going == SendingFor(s, x, cycle)
<1>1. /\ q \in Seq(Nat) /\ Rising(q, cycle + FlitSize) /\ cycle + FlitSize \in Nat
      /\ Count(Later(q, cycle)) = Count(going)
  <2>1. cycle + FlitSize \in Nat /\ cycle >= cycle
    BY ContentionAssumption DEF ContentionAssumption
  <2> QED BY <2>1 DEF SendingCounted, CaTypeOK
<1>2. Len(StillSending(q)) = Count(going)
  <2> HIDE DEF q, going
  <2> QED BY <1>1, StillSendingLater
<1>3. IsFiniteSet(heads) /\ IsFiniteSet(going)
  <2>1. IsFiniteSet(InChannels) /\ heads \in SUBSET InChannels /\ going \in SUBSET InChannels
    BY ContentionAssumption DEF ContentionAssumption, SendingFor
  <2> QED BY <2>1, FS_Subset
<1>4. {ch \in InChannels : AsksFor(s, ch, x)} = heads \cup going
  BY DEF AsksFor, SendingFor
<1>5. heads \cap going = {}
  <2>1. \A ch \in InChannels : sendingEnd[s][ch] \in Nat
    BY DEF CaTypeOK
  <2> QED BY <2>1 DEF HasHead, SendingFor
<1>6. Contended(s, x) = Cardinality(heads) + Len(StillSending(q))
  BY DEF Contended, Counted, Count
<1> HIDE DEF heads, going, q
<1>7. Cardinality(heads) \in Nat /\ Cardinality(going) \in Nat
  BY <1>3, FS_CardinalityType
<1>8. Cardinality(heads \cup going)
        = Cardinality(heads) + Cardinality(going) - Cardinality(heads \cap going)
  BY <1>3, FS_Union
<1>9. Cardinality(heads \cap going) = 0
  BY <1>5, FS_EmptySet
<1>10. Count({ch \in InChannels : AsksFor(s, ch, x)}) = Cardinality(heads \cup going)
  BY <1>4 DEF Count
<1>11. Contended(s, x) = Cardinality(heads) + Cardinality(going)
  BY <1>2, <1>6 DEF Count
<1> QED BY <1>7, <1>8, <1>9, <1>10, <1>11

(* What a switch routes by in its turn.                                    *)
LEMMA CaActExact ==
  ASSUME SendingCounted, CaIInv, TurnsOK, NEW s \in Routers, CaAct(s), atHeader
  PROVE  /\ \A p \in OutPorts : m_contention_counter'[s][p] =
                Count({ch \in InChannels : AsksFor(s, ch, p)})
         /\ \A g \in OtherGroups : m_partial_counter'[s][s][g] =
                Count({ch \in FromOutside : AsksFor(s, ch, g)})
<1>1. CaTypeOK
  BY DEF CaIInv
<1>2. cycle \in Nat
  BY TurnsAssumption DEF TurnsOK, TurnsAssumption
<1>3. /\ m_contention_counter' = [m_contention_counter EXCEPT
             ![s] = [p \in OutPorts |-> Contended(s, p)]]
      /\ m_partial_counter' = [m_partial_counter EXCEPT
             ![s] = ReadCaFlits(s, [@ EXCEPT ![s] = [g \in OtherGroups |-> Contended(s, g)]])]
  BY Zenon DEF CaAct
<1>4. /\ m_contention_counter \in [Routers -> [OutPorts -> Nat]]
      /\ m_partial_counter \in [Routers -> [Routers -> [OtherGroups -> Nat]]]
      /\ incomingCa[s] \in Seq(CaFlit) /\ FromAt(incomingCa[s], s) = {}
  BY <1>1 DEF CaTypeOK
<1>5. \A p \in OutPorts : m_contention_counter'[s][p] = Contended(s, p)
  BY <1>3, <1>4
<1> DEFINE own == [g \in OtherGroups |-> Contended(s, g)]
           older == [m_partial_counter[s] EXCEPT ![s] = own]
<1>6. m_partial_counter'[s][s] = own
  <2>1. m_partial_counter'[s] = AfterReading(Due(incomingCa[s]), older)
    BY <1>3, <1>4 DEF ReadCaFlits
  <2>2. older[s] = own
    BY <1>4
  <2> HIDE DEF older, own
  <2>3. AfterReading(Due(incomingCa[s]), older)[s] = older[s]
    BY <1>4, ReadingNothing
  <2> QED BY <2>1, <2>2, <2>3
<1>7. ASSUME NEW g \in OtherGroups
      PROVE  {ch \in InChannels : AsksFor(s, ch, g)} = {ch \in FromOutside : AsksFor(s, ch, g)}
  <2>1. FromOutside \subseteq InChannels /\ \A d, e \in Dests : MinPort[d] # DestGroup[e]
    BY ContentionAssumption DEF ContentionAssumption
  <2>2. PICK e \in Dests : g = DestGroup[e]
    BY DEF OtherGroups
  <2>3. \A ch \in InChannels, d \in Dests : CountsFor(d, ch, g) => ch \in FromOutside
    BY <2>1, <2>2 DEF CountsFor
  <2>4. \A ch \in InChannels : HasHead(s, ch) => queue[s][ch][1].dest \in Dests
    <3>1. ASSUME NEW ch \in InChannels, HasHead(s, ch) PROVE queue[s][ch][1].dest \in Dests
      <4>1. queue[s][ch] \in Seq(Flit) /\ queue[s][ch] # <<>>
        BY <1>1, <3>1 DEF CaTypeOK, HasHead
      <4>2. queue[s][ch][1] \in Flit
        BY <4>1
      <4> QED BY <4>2 DEF Flit
    <3> QED BY <3>1
  <2>5. \A ch \in InChannels : sentTo[s][ch] \in Dests
    BY <1>1 DEF CaTypeOK
  <2> QED BY <2>1, <2>3, <2>4, <2>5 DEF AsksFor
<1>8. \A x \in OutPorts \cup OtherGroups :
         Contended(s, x) = Count({ch \in InChannels : AsksFor(s, ch, x)})
  BY <1>1, <1>2, ContendedExact
<1> QED BY <1>5, <1>6, <1>7, <1>8
-----------------------------------------------------------------------------
(* ACOR.                                                                   *)

(* The counters against the histories: the packets counted are those of    *)
(* the cycles since the last reset, and the state has not changed since.   *)
SinceReset == HysteresisCycles - hystCycles + 1

AcorIInv ==
    /\ management \in Managements
    /\ acorSwStatus \in {FirstStatus, CRGLSw, LastStatus}
    /\ management = "SWITCHCGRS" => acorSwStatus # CRGLSw
    /\ hystCycles \in 1..HysteresisCycles
    /\ blockedInLast \in [0..HysteresisCycles -> Nat]
    /\ \A i, j \in 0..HysteresisCycles : i <= j => blockedInLast[i] <= blockedInLast[j]
    /\ \A i \in 0..HysteresisCycles : blockedInLast[i] <= i * MaxBlocked
    /\ blocked = blockedInLast[SinceReset]
    /\ statusAgo \in [1..HysteresisCycles -> {NoStatus} \cup ToSet(StatusesOf(management))]
    /\ acorSwStatus # FirstStatus => \A i \in 1..SinceReset : statusAgo[i] = acorSwStatus

LEMMA StatusesKnown ==
  ASSUME management \in Managements
  PROVE  /\ LastStatus = RRGLSw
         /\ management = "SWITCHCGCSRS" =>
              FirstStatus = CRGLGr /\ ToSet(StatusesOf(management)) = {CRGLGr, CRGLSw, RRGLSw}
         /\ management = "SWITCHCGRS" =>
              FirstStatus = CRGLGr /\ ToSet(StatusesOf(management)) = {CRGLGr, RRGLSw}
         /\ management = "SWITCHCSRS" =>
              FirstStatus = CRGLSw /\ ToSet(StatusesOf(management)) = {CRGLSw, RRGLSw}
<1>1. CASE management = "SWITCHCGCSRS"
  <2>1. StatusesOf(management) = <<CRGLGr, CRGLSw, RRGLSw>>
    BY <1>1 DEF StatusesOf
  <2>2. DOMAIN <<CRGLGr, CRGLSw, RRGLSw>> = {1, 2, 3}
    OBVIOUS
  <2> QED BY <1>1, <2>1, <2>2 DEF LastStatus, FirstStatus, ToSet
<1>2. CASE management = "SWITCHCGRS"
  <2>1. StatusesOf(management) = <<CRGLGr, RRGLSw>>
    BY <1>2 DEF StatusesOf
  <2>2. DOMAIN <<CRGLGr, RRGLSw>> = {1, 2}
    OBVIOUS
  <2> QED BY <1>2, <2>1, <2>2 DEF LastStatus, FirstStatus, ToSet
<1>3. CASE management = "SWITCHCSRS"
  <2>1. StatusesOf(management) = <<CRGLSw, RRGLSw>>
    BY <1>3 DEF StatusesOf
  <2>2. DOMAIN <<CRGLSw, RRGLSw>> = {1, 2}
    OBVIOUS
  <2> QED BY <1>3, <2>1, <2>2 DEF LastStatus, FirstStatus, ToSet
<1> QED BY <1>1, <1>2, <1>3 DEF Managements

LEMMA AcorInitially == AcorInit => AcorIInv
<1> SUFFICES ASSUME AcorInit PROVE AcorIInv
  OBVIOUS
<1>1. SinceReset = 1 /\ 1 \in 0..HysteresisCycles /\ HysteresisCycles \in 1..HysteresisCycles
      /\ 0..HysteresisCycles \subseteq Nat
  BY AcorAssumption DEF AcorInit, AcorAssumption, SinceReset
<1>2. \A i \in 0..HysteresisCycles : 0 <= i * MaxBlocked
  <2>1. \A i, m \in Nat : 0 <= i * m
    OBVIOUS
  <2> QED BY <1>1, <2>1, AcorAssumption DEF AcorAssumption
<1>3. acorSwStatus \in {FirstStatus, CRGLSw, LastStatus}
      /\ (management = "SWITCHCGRS" => acorSwStatus # CRGLSw)
  BY StatusesKnown DEF AcorInit, CRGLSw, CRGLGr
<1> QED BY <1>1, <1>2, <1>3 DEF AcorInit, AcorIInv, NoStatus

LEMMA AcorTyped == AcorIInv => AcorTypeOK
<1> SUFFICES ASSUME AcorIInv PROVE AcorTypeOK
  OBVIOUS
<1>1. acorSwStatus \in ToSet(StatusesOf(management))
  BY StatusesKnown DEF AcorIInv, Managements, CRGLGr, CRGLSw, RRGLSw
<1>2. HysteresisCycles \in Nat \ {0} /\ MaxBlocked \in Nat
  BY AcorAssumption DEF AcorAssumption
<1>3. ASSUME NEW i \in 0..HysteresisCycles
      PROVE  blockedInLast[i] \in 0..(HysteresisCycles * MaxBlocked)
  <2>1. \A x, y, m \in Nat : x <= y => x * m <= y * m /\ x * m \in Nat /\ y * m \in Nat
    OBVIOUS
  <2>2. i * MaxBlocked <= HysteresisCycles * MaxBlocked
        /\ i * MaxBlocked \in Nat /\ HysteresisCycles * MaxBlocked \in Nat
    BY <1>2, <2>1
  <2>3. blockedInLast[i] \in Nat /\ blockedInLast[i] <= i * MaxBlocked
    BY DEF AcorIInv
  <2> QED BY <2>2, <2>3
<1>4. SinceReset \in 0..HysteresisCycles
  BY <1>2 DEF AcorIInv, SinceReset
<1> QED BY <1>1, <1>3, <1>4 DEF AcorIInv, AcorTypeOK

LEMMA AcorActInv == ASSUME AcorIInv, AcorAct PROVE AcorIInv'
<1> DEFINE over == hystCycles = 1
           rises == MustRise(acorSwStatus, blocked)
           falls == over /\ MayFall(acorSwStatus, blocked)
           resets == Resets(over, rises, falls)
<1>1. PICK n \in 0..MaxBlocked :
        /\ acorSwStatus' = acorSwStatus + (IF rises THEN Step ELSE 0)
                                        - (IF falls THEN Step ELSE 0)
        /\ hystCycles' = IF resets THEN HysteresisCycles ELSE hystCycles - 1
        /\ blocked' = (IF resets THEN 0 ELSE blocked) + n
        /\ blockedInLast' = [i \in 0..HysteresisCycles |->
               IF i = 0 THEN 0 ELSE blockedInLast[i - 1] + n]
        /\ statusAgo' = [i \in 1..HysteresisCycles |->
               IF i = 1 THEN acorSwStatus' ELSE statusAgo[i - 1]]
  BY DEF AcorAct
<1>2. management' = management /\ FirstStatus' = FirstStatus /\ LastStatus' = LastStatus
  BY DEF AcorAct, FirstStatus, LastStatus
<1>3. HysteresisCycles \in Nat \ {0} /\ MaxBlocked \in Nat /\ n \in Nat /\ n <= MaxBlocked
  BY AcorAssumption DEF AcorAssumption
<1>4. (rises => resets) /\ (over => resets) /\ (falls => over) /\ (resets => rises \/ over)
  BY DEF Resets
<1>5. (rises => acorSwStatus # LastStatus) /\ (falls => acorSwStatus # FirstStatus)
  BY DEF MustRise, MayFall
<1> HIDE DEF over, rises, falls, resets
<1>6. /\ acorSwStatus' \in {FirstStatus, CRGLSw, LastStatus}
      /\ management = "SWITCHCGRS" => acorSwStatus' # CRGLSw
      /\ acorSwStatus' \in ToSet(StatusesOf(management))
      /\ ~rises /\ ~falls => acorSwStatus' = acorSwStatus
  <2>1. CASE management = "SWITCHCGRS"
    BY <1>1, <1>5, <2>1, StatusesKnown DEF AcorIInv, Step, CRGLGr, CRGLSw, RRGLSw
  <2>2. CASE management # "SWITCHCGRS"
    <3>1. Step = 1
      BY <2>2 DEF Step
    <3>2. /\ LastStatus = 3 /\ FirstStatus \in {1, 2}
          /\ FirstStatus = 1 => ToSet(StatusesOf(management)) = {1, 2, 3}
          /\ FirstStatus = 2 => ToSet(StatusesOf(management)) = {2, 3}
      BY <2>2, StatusesKnown DEF AcorIInv, Managements, CRGLGr, CRGLSw, RRGLSw
    <3> QED BY <1>1, <1>5, <2>2, <3>1, <3>2 DEF AcorIInv, CRGLSw
  <2> QED BY <2>1, <2>2
<1>7. hystCycles' \in 1..HysteresisCycles
  BY <1>1, <1>3, <1>4 DEF AcorIInv, over
<1>8. SinceReset \in 1..HysteresisCycles /\ SinceReset' \in 1..HysteresisCycles
      /\ (resets => SinceReset' = 1)
      /\ (~resets => SinceReset' = SinceReset + 1)
  BY <1>1, <1>3, <1>7 DEF AcorIInv, SinceReset
<1>9. /\ \A i \in 1..HysteresisCycles : i - 1 \in 0..HysteresisCycles /\ i \in 0..HysteresisCycles
      /\ \A i \in 0..HysteresisCycles : i = 0 \/ i \in 1..HysteresisCycles
      /\ 0 \in 0..HysteresisCycles
  BY <1>3
<1>10. /\ blockedInLast'[0] = 0
       /\ \A i \in 1..HysteresisCycles : blockedInLast'[i] = blockedInLast[i - 1] + n
       /\ blockedInLast \in [0..HysteresisCycles -> Nat]
  BY <1>1, <1>9 DEF AcorIInv
<1>11. /\ blockedInLast' \in [0..HysteresisCycles -> Nat]
       /\ \A i \in 0..HysteresisCycles : blockedInLast'[i] \in Nat
  BY SMTT(60), <1>1, <1>3, <1>9, <1>10
<1>12. ASSUME NEW i \in 0..HysteresisCycles, NEW j \in 0..HysteresisCycles, i <= j
       PROVE  blockedInLast'[i] <= blockedInLast'[j]
  <2>1. CASE i = 0
    BY <1>10, <1>11, <2>1
  <2>2. CASE i # 0
    <3>1. i \in 1..HysteresisCycles /\ j \in 1..HysteresisCycles /\ i - 1 <= j - 1
      BY <1>12, <2>2
    <3>2. blockedInLast[i - 1] <= blockedInLast[j - 1]
      BY <1>9, <3>1 DEF AcorIInv
    <3>3. blockedInLast[i - 1] \in Nat /\ blockedInLast[j - 1] \in Nat
      BY <1>9, <1>10, <3>1
    <3> QED BY <1>3, <1>10, <3>1, <3>2, <3>3
  <2> QED BY <2>1, <2>2
<1>13. ASSUME NEW i \in 0..HysteresisCycles PROVE blockedInLast'[i] <= i * MaxBlocked
  <2>1. CASE i = 0
    BY <1>3, <1>10, <2>1
  <2>2. CASE i # 0
    <3>1. i \in 1..HysteresisCycles
      BY <2>2
    <3>2. blockedInLast[i - 1] <= (i - 1) * MaxBlocked /\ blockedInLast[i - 1] \in Nat
      BY <1>9, <1>10, <3>1 DEF AcorIInv
    <3>3. (i - 1) * MaxBlocked + MaxBlocked = i * MaxBlocked /\ (i - 1) * MaxBlocked \in Int
      BY <1>3, <3>1
    <3> DEFINE product == (i - 1) * MaxBlocked
    <3> HIDE DEF product
    <3>4. blockedInLast[i - 1] + n <= product + MaxBlocked
      BY <1>3, <3>2, <3>3 DEF product
    <3> QED BY <1>10, <3>1, <3>3, <3>4 DEF product
  <2> QED BY <2>1, <2>2
<1>14. blocked' = blockedInLast'[SinceReset']
  <2>1. CASE resets
    <3>1. 1 \in 1..HysteresisCycles
      BY <1>3
    <3>2. blockedInLast'[1] = blockedInLast[0] + n /\ blockedInLast[0] \in Nat
      BY <1>9, <1>10, <3>1
    <3>3. blockedInLast[0] = 0
      <4>1. blockedInLast[0] <= 0 * MaxBlocked /\ 0 * MaxBlocked = 0
        BY <1>3, <1>9 DEF AcorIInv
      <4> QED BY <3>2, <4>1
    <3> QED BY <1>1, <1>3, <1>8, <2>1, <3>2, <3>3
  <2>2. CASE ~resets
    <3>1. blocked' = blocked + n /\ blocked = blockedInLast[SinceReset]
      BY <1>1, <2>2 DEF AcorIInv
    <3>2. SinceReset' - 1 = SinceReset
      BY <1>8, <2>2
    <3> QED BY <1>8, <1>10, <3>1, <3>2
  <2> QED BY <2>1, <2>2
<1>15. statusAgo' \in [1..HysteresisCycles -> {NoStatus} \cup ToSet(StatusesOf(management))]
  <2>1. ASSUME NEW i \in 1..HysteresisCycles, i # 1
        PROVE  statusAgo[i - 1] \in {NoStatus} \cup ToSet(StatusesOf(management))
    <3>1. i - 1 \in 1..HysteresisCycles
      BY <1>3, <2>1
    <3> QED BY <3>1 DEF AcorIInv
  <2> QED BY <1>1, <1>6, <2>1
<1>16. ASSUME acorSwStatus' # FirstStatus, NEW i \in 1..SinceReset'
       PROVE  statusAgo'[i] = acorSwStatus'
  <2>1. i \in 1..HysteresisCycles
    BY <1>3, <1>8
  <2>2. CASE i = 1
    BY <1>1, <2>1, <2>2
  <2>3. CASE i # 1
    <3>1. ~resets /\ i - 1 \in 1..SinceReset
      BY <1>8, <2>3
    <3>2. acorSwStatus' = acorSwStatus
      BY <1>4, <1>6, <3>1
    <3>3. statusAgo[i - 1] = acorSwStatus
      BY <1>16, <3>1, <3>2 DEF AcorIInv
    <3> QED BY <1>1, <2>1, <2>3, <3>2, <3>3
  <2> QED BY <2>2, <2>3
<1> QED BY <1>2, <1>6, <1>7, <1>11, <1>12, <1>13, <1>14, <1>15, <1>16 DEF AcorIInv

(* What a change of state goes by.                                         *)
LEMMA AcorChanges ==
  ASSUME AcorIInv, AcorAct
  PROVE  LET seen == blockedInLast[HysteresisCycles]
         IN  /\ acorSwStatus' > acorSwStatus => MustRise(acorSwStatus, seen)
             /\ acorSwStatus' < acorSwStatus =>
                    /\ \A i \in 1..HysteresisCycles : statusAgo[i] = acorSwStatus
                    /\ MayFall(acorSwStatus, seen)
<1> DEFINE seen == blockedInLast[HysteresisCycles]
           rises == MustRise(acorSwStatus, blocked)
           falls == hystCycles = 1 /\ MayFall(acorSwStatus, blocked)
<1>1. HysteresisCycles \in Nat \ {0}
  BY AcorAssumption DEF AcorAssumption
<1>2. SinceReset \in 0..HysteresisCycles /\ HysteresisCycles \in 0..HysteresisCycles
      /\ (hystCycles = 1 => SinceReset = HysteresisCycles)
  BY <1>1 DEF AcorIInv, SinceReset
<1>3. blocked <= seen /\ blocked \in Nat /\ seen \in Nat
  BY <1>2 DEF AcorIInv
<1>4. acorSwStatus' = acorSwStatus + (IF rises THEN Step ELSE 0) - (IF falls THEN Step ELSE 0)
  BY DEF AcorAct
<1>5. acorSwStatus \in {1, 2, 3} /\ Step \in {1, 2}
  BY StatusesKnown DEF AcorIInv, Managements, CRGLGr, CRGLSw, RRGLSw, Step
<1>6. acorSwStatus' > acorSwStatus => MustRise(acorSwStatus, seen)
  <2> HAVE acorSwStatus' > acorSwStatus
  <2>1. rises
    <3> HIDE DEF rises, falls, seen
    <3> QED BY <1>4, <1>5
  <2> HIDE DEF seen
  <2>2. /\ acorSwStatus # LastStatus
        /\ blocked >= IF management = "SWITCHCGCSRS" /\ acorSwStatus = CRGLSw
                      THEN IncSecond ELSE IncFirst
    BY <2>1 DEF MustRise
  <2>3. IncFirst \in Nat /\ IncSecond \in Nat
    BY AcorAssumption DEF AcorAssumption
  <2> QED BY <1>3, <2>2, <2>3 DEF MustRise
<1>7. acorSwStatus' < acorSwStatus =>
        /\ \A i \in 1..HysteresisCycles : statusAgo[i] = acorSwStatus
        /\ MayFall(acorSwStatus, seen)
  <2> HAVE acorSwStatus' < acorSwStatus
  <2>1. falls
    <3> HIDE DEF rises, falls, seen
    <3> QED BY <1>4, <1>5
  <2>2. blocked = seen
    BY <1>2, <2>1 DEF AcorIInv
  <2>3. acorSwStatus # FirstStatus
    BY <2>1 DEF MayFall
  <2> QED BY <1>2, <2>1, <2>2, <2>3 DEF AcorIInv
<1> QED BY <1>6, <1>7
-----------------------------------------------------------------------------
(* QCN.                                                                    *)

(* A cycle that passes for a port that holds flits and is not sampled has  *)
(* been counted: what the port waited and what its counter still asks for  *)
(* are never more than the interval.                                       *)
QcnIInv ==
    /\ qlen \in [QcnPorts -> 0..QueueLength]
    /\ qcnCpSamplingCounter \in [QcnPorts -> 0..SamplingInterval]
    /\ unsampled \in [QcnPorts -> Nat]
    /\ \A p \in QcnPorts : unsampled[p] + qcnCpSamplingCounter[p] <= SamplingInterval
    /\ QcnSampledInTime

LEMMA QcnInitially == QcnInit => QcnIInv
BY QcnAssumption DEF QcnAssumption, QcnInit, QcnIInv, QcnSampledInTime

LEMMA QcnInsertInv ==
  ASSUME QcnIInv, NEW p \in QcnPorts, QcnInsert(p) PROVE QcnIInv'
<1>1. SamplingInterval \in Nat \ {0} /\ QueueLength \in Nat \ {0}
  BY QcnAssumption DEF QcnAssumption
<1>2. /\ qlen[p] \in 0..QueueLength /\ qcnCpSamplingCounter[p] \in 0..SamplingInterval
      /\ qlen[p] < QueueLength
  BY DEF QcnIInv, QcnInsert
<1> DEFINE c == AtLeast(qcnCpSamplingCounter[p] - 1, 0)
<1>3. c \in 0..SamplingInterval /\ c <= qcnCpSamplingCounter[p]
  BY <1>1, <1>2 DEF AtLeast
<1>4. /\ qcnCpSamplingCounter' = [qcnCpSamplingCounter EXCEPT ![p] = c]
      /\ qlen' = [qlen EXCEPT ![p] = qlen[p] + 1] /\ unsampled' = unsampled
  BY DEF QcnInsert
<1> HIDE DEF c
<1>5. qlen' \in [QcnPorts -> 0..QueueLength]
  BY <1>1, <1>2, <1>4 DEF QcnIInv
<1>6. /\ qcnCpSamplingCounter' \in [QcnPorts -> 0..SamplingInterval]
      /\ \A o \in QcnPorts : qcnCpSamplingCounter'[o] <= qcnCpSamplingCounter[o]
  BY <1>1, <1>2, <1>3, <1>4 DEF QcnIInv
<1>7. ASSUME NEW o \in QcnPorts
      PROVE  unsampled'[o] + qcnCpSamplingCounter'[o] <= SamplingInterval
  <2>1. /\ unsampled[o] \in Nat /\ unsampled[o] + qcnCpSamplingCounter[o] <= SamplingInterval
        /\ qcnCpSamplingCounter[o] \in 0..SamplingInterval
        /\ qcnCpSamplingCounter'[o] \in 0..SamplingInterval
        /\ qcnCpSamplingCounter'[o] <= qcnCpSamplingCounter[o]
    BY <1>6 DEF QcnIInv
  <2> QED BY <1>1, <1>4, <2>1
<1> QED BY <1>4, <1>5, <1>6, <1>7 DEF QcnIInv, QcnSampledInTime

LEMMA QcnActInv == ASSUME QcnIInv, QcnAct PROVE QcnIInv'
<1>1. SamplingInterval \in Nat \ {0} /\ QueueLength \in Nat \ {0}
  BY QcnAssumption DEF QcnAssumption
<1>2. \E leaving \in SUBSET {p \in QcnPorts : qlen[p] > 0} :
        qlen' = [p \in QcnPorts |-> IF p \in leaving THEN qlen[p] - 1 ELSE qlen[p]]
  BY ZenonT(60) DEF QcnAct
<1>3. /\ qcnCpSamplingCounter' = [p \in QcnPorts |->
             IF Samples(p) THEN SamplingInterval ELSE CountCycle(qcnCpSamplingCounter[p])]
      /\ unsampled' = [p \in QcnPorts |->
             IF Samples(p) \/ qlen[p] = 0 THEN 0 ELSE unsampled[p] + 1]
  BY ZenonT(60) DEF QcnAct
<1>4. qlen' \in [QcnPorts -> 0..QueueLength]
  <2>1. \A p \in QcnPorts : qlen[p] \in 0..QueueLength
    BY DEF QcnIInv
  <2> QED BY <1>1, <1>2, <2>1
<1>5. ASSUME NEW p \in QcnPorts
      PROVE  /\ qcnCpSamplingCounter'[p] \in 0..SamplingInterval
             /\ unsampled'[p] \in Nat /\ unsampled'[p] < SamplingInterval
             /\ unsampled'[p] + qcnCpSamplingCounter'[p] <= SamplingInterval
  <2>1. /\ qlen[p] \in 0..QueueLength /\ qcnCpSamplingCounter[p] \in 0..SamplingInterval
        /\ unsampled[p] \in Nat /\ unsampled[p] < SamplingInterval
        /\ unsampled[p] + qcnCpSamplingCounter[p] <= SamplingInterval
    BY DEF QcnIInv, QcnSampledInTime
  <2>2. CASE Samples(p)
    BY <1>1, <1>3, <2>2
  <2>3. CASE ~Samples(p) /\ qlen[p] = 0
    BY <1>1, <1>3, <2>1, <2>3 DEF CountCycle, AtLeast
  <2>4. CASE ~Samples(p) /\ qlen[p] # 0
    <3>1. qcnCpSamplingCounter[p] > 1
      BY <2>1, <2>4 DEF Samples, CountCycle, AtLeast
    <3>2. /\ qcnCpSamplingCounter'[p] = qcnCpSamplingCounter[p] - 1
          /\ unsampled'[p] = unsampled[p] + 1
      BY <1>3, <2>1, <2>4, <3>1 DEF CountCycle, AtLeast
    <3> QED BY <1>1, <2>1, <3>1, <3>2
  <2> QED BY <2>2, <2>3, <2>4
<1>6. /\ qcnCpSamplingCounter' \in [QcnPorts -> 0..SamplingInterval]
      /\ unsampled' \in [QcnPorts -> Nat]
  BY <1>3, <1>5
<1> QED BY <1>4, <1>5, <1>6 DEF QcnIInv, QcnSampledInTime

(* Function g folds the sets of elements of S, of which c chooses one.     *)
FoldsBy(g, S, base, op, c) ==
    g = [s \in SUBSET S |-> IF s = {} THEN base ELSE op[<<c[s], g[s \ {c[s]}]>>]]

(* It is there: of the least size of a set it could not be defined for,    *)
(* those one element smaller define it.                                    *)
LEMMA FoldThere ==
  ASSUME NEW S, IsFiniteSet(S), NEW T, NEW base \in T,
         NEW op \in [S \X T -> T], NEW c,
         \A s \in SUBSET S : s # {} => c[s] \in s
  PROVE  \E g \in [SUBSET S -> T] : FoldsBy(g, S, base, op, c)
<1> DEFINE Value(g, s) == IF s = {} THEN base ELSE op[<<c[s], g[s \ {c[s]}]>>]
           Good(n, g) == \A s \in SUBSET S : Cardinality(s) <= n => g[s] = Value(g, s)
           bad == {n \in Nat : ~ \E g \in [SUBSET S -> T] : Good(n, g)}
<1>1. \A s \in SUBSET S : /\ IsFiniteSet(s) /\ Cardinality(s) \in Nat
                          /\ Cardinality(s) <= Cardinality(S)
                          /\ Cardinality(s) = 0 <=> s = {}
                          /\ \A x \in s : Cardinality(s \ {x}) = Cardinality(s) - 1
  BY FS_Subset, FS_CardinalityType, FS_EmptySet, FS_RemoveElement
<1>2. \A g \in [SUBSET S -> T], s \in SUBSET S : Value(g, s) \in T
  OBVIOUS
<1>3. bad = {}
  <2> SUFFICES ASSUME bad # {} PROVE FALSE
    OBVIOUS
  <2>1. PICK n \in bad : \A m \in bad : n <= m
    BY NatMinimum
  <2>2. n # 0
    <3> DEFINE g == [s \in SUBSET S |-> base]
    <3>1. g \in [SUBSET S -> T] /\ Good(0, g)
      BY <1>1
    <3> HIDE DEF g, Good
    <3>2. \E h \in [SUBSET S -> T] : Good(0, h)
      BY <3>1
    <3> QED BY <3>2
  <2>3. n \in Nat /\ n - 1 \in Nat /\ n - 1 \notin bad
    <3>1. n \in Nat
      OBVIOUS
    <3> HIDE DEF bad
    <3>2. n - 1 \in Nat /\ n - 1 < n
      BY <2>2, <3>1
    <3> QED BY <2>1, <3>1, <3>2
  <2>4. PICK g \in [SUBSET S -> T] : Good(n - 1, g)
    BY <2>3
  <2> DEFINE h == [s \in SUBSET S |-> IF Cardinality(s) < n THEN g[s] ELSE Value(g, s)]
  <2>5. h \in [SUBSET S -> T]
    BY <1>2
  <2>6. ASSUME NEW s \in SUBSET S, Cardinality(s) <= n PROVE h[s] = Value(h, s)
    <3>1. h[s] = Value(g, s)
      BY <1>1, <2>3, <2>4, <2>6
    <3>2. CASE s = {}
      BY <3>1, <3>2
    <3>3. CASE s # {}
      <4>1. c[s] \in s /\ s \ {c[s]} \in SUBSET S
        BY <3>3
      <4>2. Cardinality(s \ {c[s]}) < n
        BY <1>1, <2>3, <2>6, <4>1
      <4>3. h[s \ {c[s]}] = g[s \ {c[s]}]
        BY <4>1, <4>2
      <4> QED BY <3>1, <3>3, <4>3
    <3> QED BY <3>2, <3>3
  <2>7. Good(n, h)
    BY <2>6
  <2> HIDE DEF Good, h
  <2> QED BY <2>1, <2>5, <2>7
<1>4. PICK g \in [SUBSET S -> T] : Good(Cardinality(S), g)
  BY <1>1, <1>3
<1>5. \A s \in SUBSET S : g[s] = Value(g, s)
  BY <1>1, <1>4
<1>6. g = [s \in SUBSET S |-> Value(g, s)]
  BY <1>5
<1> QED BY <1>6 DEF FoldsBy

(* Every value of a fold is in the range of the step.                     *)
LEMMA FoldRange ==
  ASSUME NEW S, IsFiniteSet(S), NEW T, NEW g, g[{}] \in T,
         \A s \in SUBSET S : s # {} => \E x \in s : g[s \ {x}] \in T => g[s] \in T
  PROVE  \A s \in SUBSET S : g[s] \in T
<1> DEFINE bad == {n \in Nat : \E s \in SUBSET S : Cardinality(s) = n /\ g[s] \notin T}
<1>1. \A s \in SUBSET S : /\ IsFiniteSet(s) /\ Cardinality(s) \in Nat
                          /\ \A x \in s : Cardinality(s \ {x}) = Cardinality(s) - 1
  BY FS_Subset, FS_CardinalityType, FS_RemoveElement
<1>2. bad = {}
  <2> SUFFICES ASSUME bad # {} PROVE FALSE
    OBVIOUS
  <2>1. PICK n \in bad : \A m \in bad : n <= m
    BY NatMinimum
  <2>2. PICK s \in SUBSET S : Cardinality(s) = n /\ g[s] \notin T
    OBVIOUS
  <2>3. PICK x \in s : g[s \ {x}] \in T => g[s] \in T
    BY <2>2
  <2>4. /\ s \ {x} \in SUBSET S /\ Cardinality(s \ {x}) = n - 1
        /\ Cardinality(s) \in Nat /\ Cardinality(s \ {x}) \in Nat
    BY <1>1, <2>2, Zenon
  <2>5. n - 1 \in bad
    BY <2>2, <2>3, <2>4
  <2>6. n \in Nat
    BY <2>2, <2>4
  <2> HIDE DEF bad
  <2> QED BY <2>1, <2>5, <2>6
<1> QED BY <1>1, <1>2

(* A probability stays in its range however many of the samples of a      *)
(* cycle lower it.                                                         *)
LEMMA ToldRange ==
  ASSUME NEW S, IsFiniteSet(S), NEW T, NEW base \in T,
         \A p \in S, r \in T : Decreased(r, FeedbackOf(p)) \in T
  PROVE  FoldSet(LAMBDA p, r : Decreased(r, FeedbackOf(p)), base, S) \in T
<1> DEFINE One(s) == CHOOSE x \in s : TRUE
           Made(g) == [s \in SUBSET S |-> IF s = {} THEN base
                         ELSE Decreased(g[s \ {One(s)}], FeedbackOf(One(s)))]
           it == CHOOSE g : g = Made(g)
           op == [pair \in S \X T |-> Decreased(pair[2], FeedbackOf(pair[1]))]
           c == [s \in SUBSET S |-> One(s)]
<1>1. FoldSet(LAMBDA p, r : Decreased(r, FeedbackOf(p)), base, S) = it[S]
  BY Zenon DEF FoldSet, MapThenFoldSet
<1>2. \A s \in SUBSET S : s # {} => One(s) \in s /\ c[s] = One(s)
  OBVIOUS
<1>3. /\ op \in [S \X T -> T]
      /\ \A p \in S, r \in T : op[<<p, r>>] = Decreased(r, FeedbackOf(p))
  OBVIOUS
<1> HIDE DEF One, op, c
<1>4. PICK h \in [SUBSET S -> T] : FoldsBy(h, S, base, op, c)
  <2>1. \A s \in SUBSET S : s # {} => c[s] \in s
    BY <1>2
  <2> QED BY <1>3, <2>1, FoldThere
<1>5. h = Made(h)
  <2>1. ASSUME NEW s \in SUBSET S, s # {}
        PROVE  op[<<c[s], h[s \ {c[s]}]>>] = Decreased(h[s \ {One(s)}], FeedbackOf(One(s)))
    BY <1>2, <1>3, <2>1
  <2> QED BY <1>4, <2>1 DEF FoldsBy
<1>6. it = Made(it)
  <2>1. \E g : g = Made(g)
    BY <1>5
  <2> HIDE DEF Made
  <2> QED BY <2>1
<1>7. \A s \in SUBSET S : it[s] = IF s = {} THEN base
                         ELSE Decreased(it[s \ {One(s)}], FeedbackOf(One(s)))
  <2> HIDE DEF it
  <2> QED BY <1>6
<1> HIDE DEF it
<1>8. \A s \in SUBSET S : it[s] \in T
  <2>1. it[{}] \in T
    BY <1>7
  <2>2. ASSUME NEW s \in SUBSET S, s # {}
        PROVE \E x \in s : it[s \ {x}] \in T => it[s] \in T
    <3>1. One(s) \in s
      BY <1>2, <2>2
    <3>2. it[s \ {One(s)}] \in T => it[s] \in T
      BY <1>7, <2>2, <3>1
    <3> QED BY <3>1, <3>2
  <2> QED BY <2>1, <2>2, FoldRange
<1> QED BY <1>1, <1>8

(* The values besides the histories of the sampling.                       *)
QcnTables ==
    /\ <<implementation, policy>> \in QcnConfigs
    /\ qcnRpTxBCount \in [QcnPorts -> (1 - FlitPhits)..BcLimit]
    /\ qcnQlenOld \in [QcnPorts -> 0..(FlitPhits * QueueLength)]
    /\ portEnrouteMinProb \in [QcnPorts -> MinRate..MaxProb]
    /\ qcnPortFb \in [QcnPorts -> 0..FbLevels]

LEMMA QcnRanges ==
  /\ {FlitPhits, QueueLength, SamplingInterval, BcLimit, QEq, FbLevels, RAi} \subseteq Nat \ {0}
  /\ {QW, MaxShort, Th1, Th2, MaxMoves, GdInverse, MaxProb} \subseteq Nat
  /\ MinRate \in 0..MaxProb /\ GdInverse > 0 /\ IsFiniteSet(QcnPorts)
  /\ 0 \in (1 - FlitPhits)..BcLimit /\ BcLimit \in (1 - FlitPhits)..BcLimit
BY QcnAssumption DEF QcnAssumption

LEMMA IncreasedRange ==
  ASSUME NEW r \in MinRate..MaxProb PROVE Increased(r) \in MinRate..MaxProb
<1>1. r * RAi \in Nat /\ r * RAi >= r
  <2>1. \A x \in Nat, k \in Nat \ {0} : x * k \in Nat /\ x * k >= x
    OBVIOUS
  <2>2. r \in Nat /\ RAi \in Nat \ {0}
    BY QcnRanges
  <2> QED BY <2>1, <2>2
<1> DEFINE up == r * RAi
<1> HIDE DEF up
<1>2. up \in Nat /\ up >= r
  BY <1>1 DEF up
<1>3. Increased(r) = AtMost(IF policy \in {"AIMD", "AIAD"} THEN r + RAi ELSE up, MaxProb)
  BY DEF Increased, up
<1> QED BY <1>2, <1>3, QcnRanges DEF AtMost

LEMMA DecreasedRange ==
  ASSUME NEW r \in MinRate..MaxProb, NEW fb \in Nat
  PROVE  Decreased(r, fb) \in MinRate..MaxProb
<1> DEFINE down == (r * (GdInverse - fb)) \div GdInverse
<1>1. down \in Int /\ down <= r
  <2>1. GdInverse \in Nat /\ GdInverse > 0 /\ r \in Nat
    BY QcnRanges
  <2>2. r * (GdInverse - fb) \in Int /\ r * (GdInverse - fb) <= r * GdInverse
    <3>1. r * (GdInverse - fb) = r * GdInverse - r * fb /\ r * fb \in Nat /\ r * GdInverse \in Nat
      BY <2>1
    <3> QED BY <3>1
  <2>3. \A g \in Nat, x \in Int : g > 0 /\ x <= r * g => x \div g \in Int /\ x \div g <= r
    BY <2>1
  <2> QED BY <2>1, <2>2, <2>3
<1> HIDE DEF down
<1>2. Decreased(r, fb) = AtLeast(IF policy \in {"AIMD", "MIMD"} THEN down ELSE r - fb, MinRate)
  BY DEF Decreased, down
<1> QED BY <1>1, <1>2, QcnRanges DEF AtLeast

LEMMA FeedbackNat ==
  ASSUME NEW now \in Nat, NEW old \in Nat PROVE Feedback(now, old) \in Nat
<1> DEFINE most == QEq * (2 * QW + 1)
           fb == ToShort((now - QEq) + QW * (now - old))
           level == AtLeast(IF fb > most THEN ToShort(most) ELSE fb, 0)
<1>1. most \in Nat /\ most > 0
  <2>1. \A x, y \in Nat : x > 0 => x * (2 * y + 1) \in Nat /\ x * (2 * y + 1) > 0
    OBVIOUS
  <2> QED BY <2>1, QcnRanges
<1>2. \A x \in Int : ToShort(x) \in Int
  BY QcnRanges DEF ToShort
<1>3. (now - QEq) + QW * (now - old) \in Int
  BY QcnRanges
<1>4. fb \in Int
  BY <1>2, <1>3
<1>5. Feedback(now, old) = (level * FbLevels) \div most
  BY DEF Feedback
<1> HIDE DEF most, fb
<1>6. level \in Nat
  BY <1>1, <1>2, <1>4 DEF AtLeast
<1> HIDE DEF level
<1>7. level * FbLevels \in Nat
  BY <1>6, QcnRanges
<1>8. \A x, y \in Nat : y > 0 => x \div y \in Nat
  OBVIOUS
<1> QED BY <1>1, <1>5, <1>7, <1>8

LEMMA ComparedRange ==
  ASSUME NEW r \in MinRate..MaxProb, NEW p \in QcnPorts, NEW f \in Nat,
         qcnPortFb \in [QcnPorts -> 0..FbLevels]
  PROVE  Compared(r, p, f) \in MinRate..MaxProb
<1> DEFINE sum == MapThenSumSet(LAMBDA x : IF x = p THEN f ELSE qcnPortFb[x], QcnPorts)
           mean == sum \div Cardinality(QcnPorts)
<1>1. sum \in Int
  <2>0. qcnPortFb \in [QcnPorts -> Int] /\ f \in Int /\ IsFiniteSet(QcnPorts)
    BY QcnRanges
  <2> DEFINE One(s) == CHOOSE x \in s : TRUE
             Of(x) == IF x = p THEN f ELSE qcnPortFb[x]
             Made(g) == [s \in SUBSET QcnPorts |-> IF s = {} THEN 0 ELSE Of(One(s)) + g[s \ {One(s)}]]
             it == CHOOSE g : g = Made(g)
             op == [pair \in QcnPorts \X Int |-> Of(pair[1]) + pair[2]]
             c == [s \in SUBSET QcnPorts |-> One(s)]
  <2>1. MapThenSumSet(LAMBDA x : IF x = p THEN f ELSE qcnPortFb[x], QcnPorts) = it[QcnPorts]
    BY Zenon DEF MapThenSumSet, MapThenFoldSet
  <2>2. \A s \in SUBSET QcnPorts : s # {} => One(s) \in s /\ c[s] = One(s)
    OBVIOUS
  <2>3. \A x \in QcnPorts : Of(x) \in Int
    OBVIOUS
  <2> HIDE DEF One, Of
  <2>4. /\ op \in [QcnPorts \X Int -> Int]
        /\ \A x \in QcnPorts, n \in Int : op[<<x, n>>] = Of(x) + n
    BY <2>3
  <2> HIDE DEF op, c
  <2>5. PICK h \in [SUBSET QcnPorts -> Int] : FoldsBy(h, QcnPorts, 0, op, c)
    <3>1. \A s \in SUBSET QcnPorts : s # {} => c[s] \in s
      BY <2>2
    <3>2. 0 \in Int
      OBVIOUS
    <3> QED BY <2>0, <2>4, <3>1, <3>2, FoldThere
  <2>6. h = Made(h)
    <3>1. ASSUME NEW s \in SUBSET QcnPorts, s # {}
          PROVE  op[<<c[s], h[s \ {c[s]}]>>] = Of(One(s)) + h[s \ {One(s)}]
      BY <2>2, <2>4, <3>1
    <3> QED BY <2>5, <3>1 DEF FoldsBy
  <2>7. it = Made(it)
    <3>1. \E g : g = Made(g)
      BY <2>6
    <3> HIDE DEF Made
    <3> QED BY <3>1
  <2>8. \A s \in SUBSET QcnPorts : it[s] = IF s = {} THEN 0 ELSE Of(One(s)) + it[s \ {One(s)}]
    <3> HIDE DEF it
    <3> QED BY <2>7
  <2> HIDE DEF it
  <2>9. \A s \in SUBSET QcnPorts : it[s] \in Int
    <3>1. it[{}] \in Int
      <4>1. {} \in SUBSET QcnPorts
        OBVIOUS
      <4>2. it[{}] = 0
        BY <2>8, <4>1
      <4> QED BY <4>2
    <3>2. ASSUME NEW s \in SUBSET QcnPorts, s # {}
          PROVE \E x \in s : it[s \ {x}] \in Int => it[s] \in Int
      <4>1. One(s) \in s
        BY <2>2, <3>2
      <4>2. it[s \ {One(s)}] \in Int => it[s] \in Int
        BY <2>3, <2>8, <3>2, <4>1
      <4> QED BY <4>1, <4>2
    <3> QED BY <2>0, <3>1, <3>2, FoldRange
  <2> QED BY <2>1, <2>9
<1>2. Cardinality(QcnPorts) \in Nat /\ Cardinality(QcnPorts) > 0
  <2>1. IsFiniteSet(QcnPorts)
    BY QcnRanges
  <2>2. Cardinality(QcnPorts) \in Nat /\ Cardinality(QcnPorts) # 0
    BY <2>1, FS_CardinalityType, FS_EmptySet
  <2> QED BY <2>2
<1>3. Compared(r, p, f) = CASE f <= mean + Th1 -> Increased(r)
                            [] f > mean + Th1 /\ f > mean + Th2 -> Decreased(r, f - mean)
                            [] OTHER -> r
  BY Zenon DEF Compared
<1> HIDE DEF sum
<1>4. mean \in Int
  BY <1>1, <1>2
<1> HIDE DEF mean
<1>5. CASE f <= mean + Th1
  <2>1. ~(f > mean + Th1)
    BY <1>4, <1>5, QcnRanges
  <2> QED BY <1>3, <1>5, <2>1, IncreasedRange
<1>6. CASE f > mean + Th1 /\ f > mean + Th2
  <2>1. f - mean \in Nat
    BY <1>4, <1>6, QcnRanges
  <2>2. Decreased(r, f - mean) \in MinRate..MaxProb
    BY <2>1, DecreasedRange
  <2>3. ~(f <= mean + Th1)
    BY <1>4, <1>6, QcnRanges
  <2> QED BY <1>3, <1>6, <2>2, <2>3
<1>7. CASE ~(f <= mean + Th1) /\ ~(f > mean + Th1 /\ f > mean + Th2)
  BY <1>3, <1>7
<1> QED BY <1>5, <1>6, <1>7

LEMMA QcnTablesInit == QcnInit => QcnTables
<1> SUFFICES ASSUME QcnInit PROVE QcnTables
  OBVIOUS
<1>1. <<implementation, policy>> \in QcnConfigs
  <2>1. PICK c \in QcnConfigs : implementation = c[1] /\ policy = c[2]
    BY DEF QcnInit
  <2>2. c = <<c[1], c[2]>>
    BY QcnAssumption DEF QcnAssumption
  <2> QED BY <2>1, <2>2
<1>2. 0 \in 0..(FlitPhits * QueueLength)
  <2>1. \A x, y \in Nat : x * y \in Nat
    OBVIOUS
  <2> QED BY <2>1, QcnRanges
<1> QED BY <1>1, <1>2, QcnRanges DEF QcnInit, QcnTables

LEMMA QcnTablesAct == ASSUME QcnIInv, QcnTables, QcnAct PROVE QcnTables'
<1>1. PICK leaving \in SUBSET {p \in QcnPorts : qlen[p] > 0}, sent \in SUBSET QcnPorts,
           cnm \in SUBSET QcnPorts, f \in {1, FbLevels}, culprit \in Culprits :
        LET raised(o) == IF qcnRpTxBCount[o] <= 0 THEN Increased(Told(o, culprit))
                         ELSE Told(o, culprit)
        IN  /\ Cardinality(leaving) <= MaxMoves
            /\ Cardinality(sent \cup cnm) <= MaxMoves
            /\ Cardinality(cnm) <= 1 /\ (cnm = {} => f = 1)
            /\ qcnQlenOld' = [p \in QcnPorts |->
                   IF Samples(p) THEN FlitPhits * qlen[p] ELSE qcnQlenOld[p]]
            /\ qcnCpSamplingCounter' = [p \in QcnPorts |->
                   IF Samples(p) THEN SamplingInterval
                   ELSE CountCycle(qcnCpSamplingCounter[p])]
            /\ unsampled' = [p \in QcnPorts |->
                   IF Samples(p) \/ qlen[p] = 0 THEN 0 ELSE unsampled[p] + 1]
            /\ portEnrouteMinProb' = [o \in QcnPorts |->
                   CASE o \notin cnm -> raised(o)
                     [] o \in cnm /\ implementation \in Compares -> Compared(raised(o), o, f)
                     [] OTHER -> Decreased(raised(o), f)]
            /\ qcnPortFb' = [o \in QcnPorts |->
                   IF o \in cnm /\ implementation \in Compares THEN f ELSE qcnPortFb[o]]
            /\ qcnRpTxBCount' = [o \in QcnPorts |->
                   (IF qcnRpTxBCount[o] <= 0 \/ o \in cnm THEN BcLimit
                    ELSE qcnRpTxBCount[o]) - (IF o \in sent THEN FlitPhits ELSE 0)]
            /\ qlen' = [p \in QcnPorts |-> IF p \in leaving THEN qlen[p] - 1 ELSE qlen[p]]
            /\ UNCHANGED <<implementation, policy>>
  BY Zenon DEF QcnAct
<1> DEFINE raised(o) == IF qcnRpTxBCount[o] <= 0 THEN Increased(Told(o, culprit))
                        ELSE Told(o, culprit)
<1>2. f \in Nat /\ f \in 0..FbLevels
  BY QcnRanges
<1>3. \A p \in QcnPorts : /\ qlen[p] \in 0..QueueLength
                          /\ qcnQlenOld[p] \in 0..(FlitPhits * QueueLength)
                          /\ FlitPhits * qlen[p] \in 0..(FlitPhits * QueueLength)
  <2>1. \A p \in QcnPorts : qlen[p] \in 0..QueueLength
    BY DEF QcnIInv
  <2>2. \A x, y, z \in Nat : y <= z => x * y \in 0..(x * z)
    <3> SUFFICES ASSUME NEW x \in Nat, NEW y \in Nat, NEW z \in Nat, y <= z
                 PROVE  x * y \in 0..(x * z)
      OBVIOUS
    <3>1. x * z = x * y + x * (z - y) /\ x * (z - y) \in Nat /\ x * y \in Nat
      OBVIOUS
    <3> QED BY <3>1
  <2>3. FlitPhits \in Nat /\ QueueLength \in Nat
    BY QcnRanges
  <2> QED BY <2>1, <2>2, <2>3 DEF QcnTables
<1>4. qcnQlenOld' \in [QcnPorts -> 0..(FlitPhits * QueueLength)]
  BY <1>1, <1>3
<1>5. qcnPortFb' \in [QcnPorts -> 0..FbLevels]
  BY <1>1, <1>2 DEF QcnTables
<1>6. qcnRpTxBCount' \in [QcnPorts -> (1 - FlitPhits)..BcLimit]
  BY <1>1, QcnRanges DEF QcnTables
<1>7. \A p \in QcnPorts : FeedbackOf(p) \in Nat
  <2> SUFFICES ASSUME NEW p \in QcnPorts PROVE FeedbackOf(p) \in Nat
    OBVIOUS
  <2>1. qcnQlenOld[p] \in Nat /\ FlitPhits * qlen[p] \in Nat
    <3>1. FlitPhits * QueueLength \in Nat
      <4>1. \A x, y \in Nat : x * y \in Nat
        OBVIOUS
      <4> QED BY <4>1, QcnRanges
    <3> QED BY <1>3, <3>1
  <2> QED BY <2>1, FeedbackNat DEF FeedbackOf
<1>8. \A o \in QcnPorts : Told(o, culprit) \in MinRate..MaxProb
  <2> SUFFICES ASSUME NEW o \in QcnPorts PROVE Told(o, culprit) \in MinRate..MaxProb
    OBVIOUS
  <2> DEFINE S == {p \in DOMAIN culprit : o \in culprit[p]}
             T == MinRate..MaxProb
  <2>1. S \subseteq QcnPorts
    BY DEF Culprits
  <2>2. IsFiniteSet(S)
    BY <2>1, QcnRanges, FS_Subset
  <2>3. portEnrouteMinProb[o] \in T
    BY DEF QcnTables
  <2>4. \A p \in S, r \in T : Decreased(r, FeedbackOf(p)) \in T
    BY <1>7, <2>1, DecreasedRange
  <2> HIDE DEF S, T
  <2>5. FoldSet(LAMBDA p, r : Decreased(r, FeedbackOf(p)), portEnrouteMinProb[o], S) \in T
    BY <2>2, <2>3, <2>4, ToldRange
  <2> QED BY <2>5, Zenon DEF Told, S, T
<1>9. \A o \in QcnPorts : raised(o) \in MinRate..MaxProb
  BY <1>8, IncreasedRange
<1> HIDE DEF raised
<1>10. \A o \in QcnPorts : /\ Compared(raised(o), o, f) \in MinRate..MaxProb
                           /\ Decreased(raised(o), f) \in MinRate..MaxProb
  BY <1>2, <1>9, ComparedRange, DecreasedRange DEF QcnTables
<1>11. portEnrouteMinProb' = [o \in QcnPorts |->
                   CASE o \notin cnm -> raised(o)
                     [] o \in cnm /\ implementation \in Compares -> Compared(raised(o), o, f)
                     [] OTHER -> Decreased(raised(o), f)]
  BY <1>1, Zenon DEF raised
<1>12. portEnrouteMinProb' \in [QcnPorts -> MinRate..MaxProb]
  BY <1>9, <1>10, <1>11
<1>13. <<implementation', policy'>> \in QcnConfigs
  BY <1>1 DEF QcnTables
<1> QED BY <1>4, <1>5, <1>6, <1>12, <1>13 DEF QcnTables

LEMMA QcnTablesStay ==
  ASSUME QcnTables,
         qcnVars' = qcnVars \/ \E p \in QcnPorts : QcnInsert(p)
  PROVE  QcnTables'
<1>1. UNCHANGED <<implementation, policy, qcnRpTxBCount, qcnQlenOld, portEnrouteMinProb, qcnPortFb>>
  BY DEF qcnVars, QcnInsert
<1> QED BY <1>1 DEF QcnTables
-----------------------------------------------------------------------------
(* The mechanisms together.                                                *)

(* The mechanisms that are not chosen stay as they are, but the cycles of  *)
(* the switches are common to two of them.                                 *)
IInv ==
    /\ mechanism \in Mechanisms
    /\ TurnsOK /\ PbIInv /\ AcorIInv /\ CaIInv /\ QcnIInv /\ QcnTables

LEMMA Initially == Init => IInv
<1> SUFFICES ASSUME Init PROVE IInv
  OBVIOUS
<1>1. TurnsOK
  BY TurnsAssumption DEF Init, TurnsInit, TurnsOK, TurnsAssumption, Routers
<1> QED BY <1>1, PbInitially, AcorInitially, CaInitially, QcnInitially, QcnTablesInit DEF Init, IInv

(* A mechanism whose state does not change keeps its invariant.            *)
LEMMA AcorStays == AcorIInv /\ acorVars' = acorVars => AcorIInv'
BY DEF acorVars, AcorIInv, SinceReset, FirstStatus, LastStatus, StatusesOf

LEMMA CaStays == CaIInv /\ caVars' = caVars => CaIInv'
<1> SUFFICES ASSUME CaIInv, caVars' = caVars PROVE CaIInv'
  OBVIOUS
<1>1. UNCHANGED <<atHeader, loopOfTraces, queue, sendingEnd, sentTo, m_contention_counter,
                  m_partial_counter, m_sending_end_cycle_queue, incomingCa, lastShared>>
  BY DEF caVars
<1>2. CaTypeOK'
  BY <1>1 DEF CaIInv, CaTypeOK
<1>3. CaShared'
  BY <1>1 DEF CaIInv, CaShared
<1>4. QueuedCounted'
  BY SMTT(60), <1>1 DEF CaIInv, QueuedCounted, Queued
<1> QED BY <1>2, <1>3, <1>4 DEF CaIInv

LEMMA QcnStays == QcnIInv /\ qcnVars' = qcnVars => QcnIInv'
BY DEF qcnVars, QcnIInv, QcnSampledInTime

LEMMA TurnsStay ==
  TurnsOK /\ turnVars' = turnVars => TurnsOK' /\ cycle \in Nat /\ cycle' \in Nat /\ cycle' >= cycle
BY TurnsAssumption DEF turnVars, TurnsOK, TurnsAssumption

LEMMA PbNextTurns ==
  ASSUME TurnsOK, PbNext
  PROVE  TurnsOK' /\ cycle \in Nat /\ cycle' \in Nat /\ cycle' >= cycle
<1>1. \E s \in Routers : TurnOf(s)
  BY DEF PbNext, PbAct, PbIdle
<1> QED BY <1>1, TurnTaken

LEMMA CaNextTurns ==
  ASSUME TurnsOK, CaNext
  PROVE  TurnsOK' /\ cycle \in Nat /\ cycle' \in Nat /\ cycle' >= cycle
<1>1. (\E s \in Routers : TurnOf(s)) \/ turnVars' = turnVars
  BY DEF CaNext, CaAct, CaIdle, Insert, turnVars
<1> QED BY <1>1, TurnTaken, TurnsStay

(* What a step does to each mechanism.                                     *)
LEMMA StepOf ==
  ASSUME [Next]_vars
  PROVE  /\ (mechanism = "piggyback" /\ PbNext) \/ pbVars' = pbVars
         /\ AcorNext \/ acorVars' = acorVars
         /\ (mechanism = "contention" /\ CaNext) \/ caVars' = caVars
         /\ QcnNext \/ qcnVars' = qcnVars
         /\ PbNext \/ CaNext \/ turnVars' = turnVars
<1>1. CASE Next
  BY <1>1 DEF Next
<1>2. CASE vars' = vars
  <2>1. /\ turnVars' = turnVars /\ pbVars' = pbVars /\ acorVars' = acorVars
        /\ caVars' = caVars /\ qcnVars' = qcnVars
    BY <1>2 DEF vars
  <2> QED BY <2>1
<1> QED BY <1>1, <1>2

LEMMA Stepwise == IInv /\ [Next]_vars => IInv'
<1> SUFFICES ASSUME IInv, [Next]_vars PROVE IInv'
  OBVIOUS
<1>0. TurnsOK /\ PbIInv /\ AcorIInv /\ CaIInv /\ QcnIInv /\ QcnTables
  BY DEF IInv
<1>1. TurnsOK' /\ cycle \in Nat /\ cycle' \in Nat /\ cycle' >= cycle
  BY <1>0, StepOf, PbNextTurns, CaNextTurns, TurnsStay
<1>2. PbIInv'
  <2>1. CASE PbNext
    <3>1. PICK s \in Routers : PbAct(s) \/ PbIdle(s)
      BY <2>1 DEF PbNext
    <3> QED BY <1>0, <3>1, PbActInv, PbIdleInv
  <2>2. CASE pbVars' = pbVars
    BY <1>0, <1>1, <2>2, PbLaterInv
  <2> QED BY <2>1, <2>2, StepOf
<1>3. AcorIInv'
  BY <1>0, StepOf, AcorActInv, AcorStays DEF AcorNext
<1>4. CaIInv'
  BY <1>0, StepOf, CaNextInv, CaStays
<1>5. QcnIInv'
  <2>1. CASE QcnNext
    BY <1>0, <2>1, QcnActInv, QcnInsertInv DEF QcnNext
  <2>2. CASE qcnVars' = qcnVars
    BY <1>0, <2>2, QcnStays
  <2> QED BY <2>1, <2>2, StepOf
<1>6. QcnTables'
  <2>1. CASE QcnNext
    BY <1>0, <2>1, QcnTablesAct, QcnTablesStay DEF QcnNext
  <2>2. CASE qcnVars' = qcnVars
    BY <1>0, <2>2, QcnTablesStay
  <2> QED BY <2>1, <2>2, StepOf
<1>7. mechanism' \in Mechanisms
  <2>1. mechanism' = mechanism
    BY DEF Next, vars
  <2> QED BY <2>1 DEF IInv
<1> QED BY <1>1, <1>2, <1>3, <1>4, <1>5, <1>6, <1>7 DEF IInv

LEMMA Always == Spec => []IInv
BY Initially, Stepwise, PTL DEF Spec

(* The state of every mechanism has its type: above all, the probability   *)
(* of minimal routing stays between the least rate and 100 % whatever the  *)
(* samples of a cycle, the notifications and the flits sent do to it       *)
(* (switchModule.cc:117-212, caHandler.cc:32, pbState.cc:15).              *)
THEOREM TypesCorrect == Spec => []TypeOK
<1>1. IInv => TypeOK
  <2> SUFFICES ASSUME IInv PROVE TypeOK
    OBVIOUS
  <2>1. cycle \in 0..MaxCycle /\ turn \in Routers /\ PbTypeOK /\ AcorTypeOK /\ CaTypeOK
    BY AcorTyped DEF IInv, TurnsOK, PbIInv, CaIInv
  <2>2. QcnTypeOK
    BY DEF IInv, QcnIInv, QcnTables, QcnTypeOK
  <2> QED BY <2>1, <2>2 DEF IInv, TypeOK
<1> QED BY <1>1, Always, PTL

(* Once what is under way to a switch has been read, it holds of every     *)
(* global link of its group what the owner of the link holds, however many *)
(* switches, in any order of the turns (switchModule.cc:934).              *)
THEOREM MarksConsistent == Spec => []PbConsistent
<1>1. IInv => PbConsistent
  BY DEF IInv, PbIInv
<1> QED BY <1>1, Always, PTL

(* When a switch sends its own marks, no notification that is due waits to *)
(* be read: arrivals in a list are in order (switchModule.cc:934, :996).   *)
THEOREM MarksReadWhenDue == Spec => PbReadWhenDue
<1> DEFINE late(s) == \A i \in 1..Len(incomingPb'[s]) : incomingPb'[s][i].arrival > cycle
           sends(s) == turn = s /\ \E t \in Others(s) : Len(incomingPb'[t]) > Len(incomingPb[t])
<1>1. ASSUME IInv, [Next]_vars, NEW s \in Routers, sends(s) PROVE late(s)
  <2>1. PICK t \in Others(s) : Len(incomingPb'[t]) > Len(incomingPb[t])
    BY <1>1
  <2>2. Len(incomingPb[t]) \in Nat
    BY <1>1 DEF IInv, PbIInv, PbTypeOK, Others
  <2>3. incomingPb'[t] # incomingPb[t]
    BY <2>1, <2>2
  <2>4. PbNext
    BY <1>1, <2>3, StepOf DEF pbVars
  <2>5. PbAct(s) \/ PbIdle(s)
    <3>1. PICK r \in Routers : PbAct(r) \/ PbIdle(r)
      BY <2>4 DEF PbNext
    <3>2. turn = r
      BY <3>1 DEF PbAct, PbIdle, TurnOf
    <3> QED BY <1>1, <3>1, <3>2
  <2>6. PbAct(s)
    BY <1>1, <2>3, <2>5, PbIdleSilent DEF IInv
  <2> QED BY <1>1, <2>6, PbActReads DEF IInv
<1>2. IInv /\ [Next]_vars => [\A s \in Routers : sends(s) => late(s)]_<<turnVars, pbVars>>
  BY <1>1
<1> QED BY <1>2, Always, PTL DEF Spec, PbReadWhenDue

(* A switch widens the choice of Valiant nodes only if the threshold was   *)
(* reached within the last hysteresis cycle, and narrows it only after a   *)
(* whole one in that state, for every management and all thresholds        *)
(* (switchModule.cc:659-668).                                              *)
THEOREM HysteresisKept == Spec => AcorHysteresis
<1> DEFINE seen == blockedInLast[HysteresisCycles]
           right == /\ acorSwStatus' > acorSwStatus => MustRise(acorSwStatus, seen)
                    /\ acorSwStatus' < acorSwStatus =>
                           /\ \A i \in 1..HysteresisCycles : statusAgo[i] = acorSwStatus
                           /\ MayFall(acorSwStatus, seen)
<1>1. ASSUME IInv, [Next]_vars PROVE [right]_acorVars
  BY <1>1, StepOf, AcorChanges DEF AcorNext, IInv
<1>2. IInv /\ [Next]_vars => [right]_acorVars
  BY <1>1
<1> QED BY <1>2, Always, PTL DEF Spec, AcorHysteresis

(* Once what is under way to a switch has been read, it holds of every     *)
(* other switch of its group what that one shared last                     *)
(* (caHandler.cc:77, :159, :178).                                          *)
THEOREM SharesKept == Spec => []CaShared
<1>1. IInv => CaShared
  BY DEF IInv, CaIInv
<1> QED BY <1>1, Always, PTL

(* A port that holds flits is sampled within an interval, however its      *)
(* flits come and go (switchModule.cc:496, :691, :1530-1575).              *)
THEOREM SampledInTime == Spec => []QcnSampledInTime
<1>1. IInv => QcnSampledInTime
  BY DEF IInv, QcnIInv
<1> QED BY <1>1, Always, PTL

(* Where all that is queued is counted, all of it is, for each port and at *)
(* all times (switchModule.cc:492, :1257).                                 *)
THEOREM QueuedExact == Spec => []QueuedCounted
<1>1. IInv => QueuedCounted
  BY DEF IInv, CaIInv
<1> QED BY <1>1, Always, PTL

(* The queues of a switch are empty where no contention is counted.        *)
Unused == mechanism # "contention" => \A s \in Routers, ch \in InChannels :
              queue[s][ch] = <<>> /\ sendingEnd[s][ch] = 0

(* A switch routes by what is there: each channel with a flit to go or on  *)
(* its way counts once.  The crossbar must take a flit no less time than a *)
(* link does: the entries of flits that end sooner are only dropped in the *)
(* order they were made (caHandler.cc:88, :112, :195).                     *)
THEOREM CountsExact == ASSUME XbarLength = FlitSize PROVE Spec => CaExact
<1> DEFINE asked(s) ==
      /\ \A p \in OutPorts : m_contention_counter'[s][p] =
             Count({ch \in InChannels : AsksFor(s, ch, p)})
      /\ \A g \in OtherGroups : m_partial_counter'[s][s][g] =
             Count({ch \in FromOutside : AsksFor(s, ch, g)})
           right == /\ atHeader => \A s \in Routers :
                           (turn = s /\ turn' # s /\ Busy(s)) => asked(s)
                    /\ QueuedCounted'
<1>1. Init => SendingCounted
  <2>1. Init => CaInit /\ cycle \in Nat
    BY DEF Init, TurnsInit
  <2> QED BY <2>1, SendingInitially
<1>2. ASSUME IInv, SendingCounted, [Next]_vars PROVE SendingCounted'
  <2>1. TurnsOK /\ CaIInv /\ CaTypeOK
    BY <1>2 DEF IInv, CaIInv
  <2>2. cycle \in Nat /\ cycle' \in Nat /\ cycle' >= cycle
    BY <1>2, <2>1, StepOf, PbNextTurns, CaNextTurns, TurnsStay
  <2>3. CASE CaNext
    BY <1>2, <2>1, <2>3, SendingNextInv
  <2>4. CASE caVars' = caVars
    <3>1. UNCHANGED <<atHeader, sendingEnd, sentTo, m_sending_end_cycle_queue>>
      BY <2>4 DEF caVars
    <3> QED BY <1>2, <2>1, <2>2, <3>1, SendingLater
  <2> QED BY <1>2, <2>3, <2>4, StepOf
<1>3. ASSUME IInv, SendingCounted, Unused, [Next]_vars PROVE [right]_<<turnVars, caVars>>
  <2>1. QueuedCounted'
    BY <1>3, Stepwise DEF IInv, CaIInv
  <2>2. ASSUME atHeader, NEW s \in Routers, turn = s, turn' # s, Busy(s) PROVE asked(s)
    <3>1. mechanism = "contention"
      <4>1. \A ch \in InChannels : mechanism # "contention" =>
               queue[s][ch] = <<>> /\ ~(sendingEnd[s][ch] > cycle)
        <5>1. cycle \in Nat
          BY <1>3, TurnsAssumption DEF IInv, TurnsOK, TurnsAssumption
        <5> QED BY <1>3, <5>1 DEF Unused
      <4> QED BY <2>2, <4>1 DEF Busy
    <3>2. CaNext
      <4>1. turnVars' # turnVars
        BY <2>2 DEF turnVars
      <4> QED BY <1>3, <3>1, <4>1 DEF Next, vars
    <3>3. PICK r \in Routers :
            \/ CaAct(r) \/ CaIdle(r)
            \/ \E ch \in InChannels, d \in Dests :
                   <<r, ch, d>> \in Arrivals /\ Insert(r, ch, d)
      BY <3>2 DEF CaNext
    <3>4. CaAct(r) \/ CaIdle(r)
      BY <2>2, <3>3 DEF Insert, turnVars
    <3>5. r = s
      BY <2>2, <3>4 DEF CaAct, CaIdle, TurnOf
    <3>6. CaAct(s)
      BY <2>2, <3>4, <3>5 DEF CaIdle
    <3> QED BY <1>3, <2>2, <3>6, CaActExact DEF IInv
  <2> HIDE DEF asked
  <2> QED BY <2>1, <2>2
<1>4. IInv /\ SendingCounted /\ Unused /\ [Next]_vars => [right]_<<turnVars, caVars>>
  BY <1>3
<1>5. IInv /\ SendingCounted /\ [Next]_vars => SendingCounted'
  BY <1>2
<1>6. Init => Unused
  BY DEF Init, CaInit, Unused
<1>7. Unused /\ [Next]_vars => Unused'
  <2> SUFFICES ASSUME Unused, [Next]_vars PROVE Unused'
    OBVIOUS
  <2>1. mechanism' = mechanism
    BY DEF Next, vars
  <2> QED BY <2>1, StepOf DEF Unused, caVars
<1> QED BY <1>1, <1>4, <1>5, <1>6, <1>7, Always, PTL DEF Spec, CaExact
=============================================================================
