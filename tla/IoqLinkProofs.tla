--------------------------- MODULE IoqLinkProofs ---------------------------
(***************************************************************************)
(* Proofs about IoqLink, for every number of flits and channels, every     *)
(* capacity of the two buffers, every delay and flit length, and every     *)
(* division of the input buffers into reserved places and a pool.          *)
(*                                                                         *)
(* Every step of the port is one of the link or leaves the link alone, so  *)
(* that what is proved of CreditLink holds here.  The counters of the      *)
(* output buffer are the flits in it (OutCountersExact).  The flits of a   *)
(* channel on both sides of the link take no more of the pool than it has  *)
(* (LoadBound): a flit crosses only if they leave a place, and departing   *)
(* moves it from one counter to the other.  What is left of the pool is    *)
(* what the flits in the queues leave (PoolExact); they are no more than   *)
(* the credits taken, by what is proved of CreditLink, so the pool never   *)
(* runs out although the switch that draws on it does not look at it.      *)
(***************************************************************************)
EXTENDS IoqLink, FiniteSetTheorems, SequenceTheorems, TLAPS

CL == INSTANCE CreditLinkProofs

(* The flits of each channel on both sides of the link, and in its queue.  *)
Load == [v \in VCs |-> Committed(v)]
Queued == [v \in VCs |-> Len(queue[v])]

OutRecord == [flit : Flits, vc : VCs, kind : Kinds, due : 0..XbarDelay]

(* TypeOK without the link and the pool.                                   *)
OutTypes ==
    /\ outQueue \in Seq(OutRecord)
    /\ Len(outQueue) <= OutCapacity
    /\ outCredits \in [VCs -> 0..OutCapacity]
    /\ outMinCredits \in [VCs -> 0..OutCapacity]
    /\ outLeaving \in BOOLEAN
    /\ outSending \in 0..FlitSize
    /\ outReceiving \in 0..FlitSize
    /\ feeding \in 0..FlitSize
    /\ bufferType \in BufferTypes

(* A flit in the output buffer is on no link, and in the buffer once.      *)
OutFlits ==
    /\ \A i \in 1..Len(outQueue) : where[outQueue[i].flit] = "out"
    /\ \A i, j \in 1..Len(outQueue) : outQueue[i].flit = outQueue[j].flit => i = j

LoadBound == Cardinality(InPool(Load)) <= bufferType.pool

PoolExact ==
    aggregatedBufferCapacity = bufferType.pool - Cardinality(InPool(Queued))

IInv ==
    /\ CL!IInv
    /\ OutTypes
    /\ OutFlits
    /\ OutCountersExact
    /\ LoadBound
    /\ PoolExact

-----------------------------------------------------------------------------
(* The names of the modules that are instantiated.                         *)
LEMMA SameFinite ==
  ASSUME NEW S
  PROVE  /\ CL!IsFiniteSet(S) <=> IsFiniteSet(S)
         /\ CL!Cardinality(S) = Cardinality(S)
         /\ Link!Cardinality(S) = Cardinality(S)
<1>1. CL!IsFiniteSet(S) <=> IsFiniteSet(S)
  BY DEF CL!IsFiniteSet, IsFiniteSet
<1>2. CL!Cardinality(S) = Cardinality(S)
  BY Zenon DEF CL!Cardinality, Cardinality
<1>3. Link!Cardinality(S) = Cardinality(S)
  BY Zenon DEF Link!Cardinality, Cardinality
<1> QED BY <1>1, <1>2, <1>3

LEMMA LinkAssumptions ==
  /\ CL!FlitsAssumption /\ CL!VCsAssumption
  /\ CL!CapacityAssumption /\ CL!TimeAssumption
  BY LinkAssumption, SameFinite DEF LinkAssumption, CL!FlitsAssumption, CL!VCsAssumption,
       CL!CapacityAssumption, CL!TimeAssumption

LEMMA SameInit == Link!Init <=> CL!Init
  BY Zenon DEF Link!Init, CL!Init, Link!AnyVC, CL!AnyVC

LEMMA SameNext == [Link!Next]_(Link!vars) <=> [CL!Next]_(CL!vars)
<1>1. Link!vars = CL!vars /\ Link!vars' = CL!vars'
  BY DEF Link!vars, Link!turnVars, Link!upVars, Link!flitVars, Link!downVars,
         CL!vars, CL!turnVars, CL!upVars, CL!flitVars, CL!downVars
<1>2. Link!UpdateCredits <=> CL!UpdateCredits
  <2>1. \A v \in VCs : /\ Link!Arrived(v) = CL!Arrived(v)
                       /\ Link!ArrivedMin(v) = CL!ArrivedMin(v)
    BY DEF Link!Arrived, CL!Arrived, Link!ArrivedMin, CL!ArrivedMin
  <2> QED BY <2>1, SameFinite DEF Link!UpdateCredits, CL!UpdateCredits, Link!UpTurn,
         CL!UpTurn, Link!AnyVC, CL!AnyVC, Link!downVars, CL!downVars
<1>3. \A f \in Flits, v \in VCs, m \in BOOLEAN :
        Link!Send(f, v, m) <=> CL!Send(f, v, m)
  BY DEF Link!Send, CL!Send, Link!UpTurn, CL!UpTurn, Link!LinkIdle, CL!LinkIdle,
         Link!Credits, CL!Credits, Link!turnVars, CL!turnVars
<1>4. \A v \in VCs : Link!Extract(v) <=> CL!Extract(v)
  BY DEF Link!Extract, CL!Extract, Link!DownTurn, CL!DownTurn, Link!turnVars,
         CL!turnVars, Link!upVars, CL!upVars
<1>5. /\ Link!UpEnd <=> CL!UpEnd
      /\ Link!UpIdle <=> CL!UpIdle
      /\ Link!DownEnd <=> CL!DownEnd
  BY DEF Link!UpEnd, CL!UpEnd, Link!UpIdle, CL!UpIdle, Link!DownEnd, CL!DownEnd,
         Link!UpTurn, CL!UpTurn, Link!DownTurn, CL!DownTurn, Link!EndTurn,
         CL!EndTurn, Link!upVars, CL!upVars, Link!flitVars, CL!flitVars,
         Link!downVars, CL!downVars
<1>6. Link!Tick <=> CL!Tick
  BY DEF Link!Tick, CL!Tick, Link!Later, CL!Later
<1>7. Link!Turn <=> CL!Turn
  BY <1>2, <1>5, <1>6, Zenon DEF Link!Turn, CL!Turn
<1>8. Link!Next <=> CL!Next
  BY <1>3, <1>4, <1>7, Zenon DEF Link!Next, CL!Next
<1> QED BY <1>1, <1>8

LEMMA SameInvariants ==
  /\ CL!TypeOK <=> Link!TypeOK
  /\ CL!CreditsConserved <=> Link!CreditsConserved
  /\ CL!NoOverflow <=> Link!NoOverflow
<1>1. CL!TypeOK <=> Link!TypeOK
  BY DEF CL!TypeOK, Link!TypeOK
<1>2. CL!CreditsConserved <=> Link!CreditsConserved
  <2>1. \A v \in VCs : /\ CL!Holders(v) = Link!Holders(v)
                       /\ CL!MinHolders(v) = Link!MinHolders(v)
    BY DEF CL!Holders, Link!Holders, CL!MinHolders, Link!MinHolders
  <2> QED BY <2>1, SameFinite DEF CL!CreditsConserved, Link!CreditsConserved
<1>3. CL!NoOverflow <=> Link!NoOverflow
  BY DEF CL!NoOverflow, Link!NoOverflow, CL!Taken, Link!Taken
<1> QED BY <1>1, <1>2, <1>3

-----------------------------------------------------------------------------
(* The places of the pool.                                                 *)
LEMMA TypeOfBuffer ==
  ASSUME bufferType \in BufferTypes
  PROVE  /\ bufferType.reserved \in Nat /\ bufferType.pool \in Nat
         /\ bufferType.reserved + bufferType.pool \in 1..Capacity
  BY OutAssumption DEF OutAssumption

LEMMA InPoolElements ==
  ASSUME NEW W, NEW n, DOMAIN n = W
  PROVE  \A q : q \in InPool(n) <=>
                 \E c \in W : \E k \in (bufferType.reserved + 1)..n[c] : q = <<c, k>>
<1>1. ASSUME NEW q, q \in InPool(n)
      PROVE  \E c \in W : \E k \in (bufferType.reserved + 1)..n[c] : q = <<c, k>>
  <2>1. PICK c \in W : q \in {c} \X ((bufferType.reserved + 1)..n[c])
    BY <1>1 DEF InPool
  <2> QED BY <2>1
<1>2. ASSUME NEW c \in W, NEW k \in (bufferType.reserved + 1)..n[c]
      PROVE  <<c, k>> \in InPool(n)
  <2>1. <<c, k>> \in {c} \X ((bufferType.reserved + 1)..n[c])
    OBVIOUS
  <2> QED BY <2>1 DEF InPool
<1> QED BY <1>1, <1>2

(* InPool(n) is finite when the channels and what they have are bounded.   *)
LEMMA PoolFinite ==
  ASSUME bufferType \in BufferTypes, NEW W \in SUBSET VCs, NEW most \in Nat,
         NEW n \in [W -> 0..most]
  PROVE  IsFiniteSet(InPool(n)) /\ Cardinality(InPool(n)) \in Nat
<1>0. IsFiniteSet(VCs) /\ IsFiniteSet(1..most)
  BY LinkAssumption, FS_Interval DEF LinkAssumption
<1>1. IsFiniteSet(VCs \X (1..most))
  BY <1>0, FS_Product
<1>2. InPool(n) \in SUBSET (VCs \X (1..most))
  <2> SUFFICES ASSUME NEW q \in InPool(n) PROVE q \in VCs \X (1..most)
    OBVIOUS
  <2>1. PICK c \in W, k \in Int : k \in (bufferType.reserved + 1)..n[c] /\ q = <<c, k>>
    BY InPoolElements
  <2>2. k \in 1..most
    BY <2>1, TypeOfBuffer
  <2> QED BY <2>1, <2>2
<1> QED BY <1>1, <1>2, FS_Subset, FS_CardinalityType

(* More flits take no less of the pool.                                    *)
LEMMA PoolMonotonic ==
  ASSUME bufferType \in BufferTypes, NEW most \in Nat,
         NEW n \in [VCs -> 0..most], NEW m \in [VCs -> 0..most],
         \A c \in VCs : n[c] <= m[c]
  PROVE  Cardinality(InPool(n)) <= Cardinality(InPool(m))
<1>1. InPool(n) \in SUBSET InPool(m)
  <2> SUFFICES ASSUME NEW q \in InPool(n) PROVE q \in InPool(m)
    OBVIOUS
  <2>1. PICK c \in VCs, k \in Int : k \in (bufferType.reserved + 1)..n[c] /\ q = <<c, k>>
    BY InPoolElements
  <2>2. k \in (bufferType.reserved + 1)..m[c]
    BY <2>1, TypeOfBuffer
  <2> QED BY <2>1, <2>2, InPoolElements
<1> QED BY <1>1, PoolFinite, FS_Subset

(* One more flit of channel v takes a place of the pool when the reserved  *)
(* ones are taken.                                                         *)
LEMMA PoolGrows ==
  ASSUME bufferType \in BufferTypes, NEW most \in Nat,
         NEW n \in [VCs -> 0..most], NEW m \in [VCs -> 0..most], NEW v \in VCs,
         \A c \in VCs : m[c] = IF c = v THEN n[c] + 1 ELSE n[c]
  PROVE  Cardinality(InPool(m)) = Cardinality(InPool(n))
           + (IF n[v] + 1 > bufferType.reserved THEN 1 ELSE 0)
<1> DEFINE r == bufferType.reserved
<1>0. r \in Nat
  BY TypeOfBuffer
<1>1. CASE n[v] + 1 > r
  <2>1. InPool(m) = InPool(n) \cup {<<v, n[v] + 1>>}
    <3>1. ASSUME NEW q \in InPool(m) PROVE q \in InPool(n) \cup {<<v, n[v] + 1>>}
      <4>1. PICK c \in VCs, k \in Int : k \in (r + 1)..m[c] /\ q = <<c, k>>
        BY InPoolElements
      <4>2. CASE c = v /\ k = n[v] + 1
        BY <4>1, <4>2
      <4>3. CASE ~(c = v /\ k = n[v] + 1)
        <5>1. k \in (r + 1)..n[c]
          BY <1>0, <4>1, <4>3
        <5> QED BY <4>1, <5>1, InPoolElements
      <4> QED BY <4>2, <4>3
    <3>2. ASSUME NEW q \in InPool(n) PROVE q \in InPool(m)
      <4>1. PICK c \in VCs, k \in Int : k \in (r + 1)..n[c] /\ q = <<c, k>>
        BY InPoolElements
      <4>2. k \in (r + 1)..m[c]
        BY <1>0, <4>1
      <4> QED BY <4>1, <4>2, InPoolElements
    <3>3. <<v, n[v] + 1>> \in InPool(m)
      <4>1. n[v] + 1 \in (r + 1)..m[v]
        BY <1>0, <1>1
      <4> QED BY <4>1, InPoolElements
    <3> QED BY <3>1, <3>2, <3>3
  <2>2. <<v, n[v] + 1>> \notin InPool(n)
    <3> SUFFICES ASSUME NEW c \in VCs, NEW k \in (r + 1)..n[c],
                        <<v, n[v] + 1>> = <<c, k>>
                 PROVE  FALSE
      BY InPoolElements
    <3>1. c = v /\ k = n[v] + 1
      OBVIOUS
    <3> QED BY <1>0, <3>1
  <2> QED BY <1>1, <2>1, <2>2, PoolFinite, FS_AddElement
<1>2. CASE ~(n[v] + 1 > r)
  <2>1. \A c \in VCs : (r + 1)..m[c] = (r + 1)..n[c]
    BY <1>0, <1>2
  <2>2. InPool(m) = InPool(n)
    BY <2>1 DEF InPool
  <2> QED BY <1>2, <2>2, PoolFinite
<1> QED BY <1>1, <1>2

(* The places of the pool that channel v takes, and those of the others.   *)
LEMMA PoolSplit ==
  ASSUME bufferType \in BufferTypes, NEW most \in Nat,
         NEW n \in [VCs -> 0..most], NEW v \in VCs
  PROVE  Cardinality(InPool(n)) = Cardinality(InPool([w \in VCs \ {v} |-> n[w]]))
           + (IF n[v] > bufferType.reserved THEN n[v] - bufferType.reserved ELSE 0)
<1> DEFINE r == bufferType.reserved
           others == [w \in VCs \ {v} |-> n[w]]
           own == {v} \X ((r + 1)..n[v])
<1>0. r \in Nat
  BY TypeOfBuffer
<1>1. others \in [VCs \ {v} -> 0..most] /\ VCs \ {v} \in SUBSET VCs
  OBVIOUS
<1>2. IsFiniteSet(InPool(others)) /\ Cardinality(InPool(others)) \in Nat
  BY <1>1, PoolFinite
<1>3. InPool(n) = InPool(others) \cup own
  <2>1. ASSUME NEW q \in InPool(n) PROVE q \in InPool(others) \cup own
    <3>1. PICK c \in VCs, k \in Int : k \in (r + 1)..n[c] /\ q = <<c, k>>
      BY InPoolElements
    <3>2. CASE c = v
      BY <3>1, <3>2
    <3>3. CASE c # v
      <4>1. c \in VCs \ {v} /\ others[c] = n[c]
        BY <3>3
      <4>2. DOMAIN others = VCs \ {v}
        OBVIOUS
      <4> HIDE DEF others
      <4>3. q \in InPool(others)
        BY <3>1, <4>1, <4>2, InPoolElements
      <4> QED BY <4>3
    <3> QED BY <3>2, <3>3
  <2>2. ASSUME NEW q \in InPool(others) PROVE q \in InPool(n)
    <3>1. DOMAIN others = VCs \ {v} /\ \A c \in VCs \ {v} : others[c] = n[c]
      OBVIOUS
    <3> HIDE DEF others
    <3>2. PICK c \in VCs \ {v}, k \in Int : k \in (r + 1)..n[c] /\ q = <<c, k>>
      BY <3>1, InPoolElements
    <3> QED BY <3>2, InPoolElements
  <2>3. ASSUME NEW q \in own PROVE q \in InPool(n)
    <3>1. PICK k \in (r + 1)..n[v] : q = <<v, k>>
      BY <2>3
    <3> QED BY <3>1, InPoolElements
  <2> QED BY <2>1, <2>2, <2>3
<1>4. InPool(others) \cap own = {}
  <2> SUFFICES ASSUME NEW q \in InPool(others), q \in own PROVE FALSE
    OBVIOUS
  <2>1. DOMAIN others = VCs \ {v}
    OBVIOUS
  <2> HIDE DEF others
  <2>2. PICK c \in VCs \ {v} : \E k \in (r + 1)..others[c] : q = <<c, k>>
    BY <2>1, InPoolElements
  <2> QED BY <2>2
<1>5. /\ IsFiniteSet(own)
      /\ Cardinality(own) = IF n[v] > r THEN n[v] - r ELSE 0
  <2>0. r + 1 \in Int /\ n[v] \in Int
    BY <1>0
  <2>3. IsFiniteSet({v}) /\ Cardinality({v}) = 1
    BY FS_Singleton
  <2>1. /\ IsFiniteSet((r + 1)..n[v])
        /\ Cardinality((r + 1)..n[v]) = IF r + 1 > n[v] THEN 0 ELSE n[v] - (r + 1) + 1
    BY <2>0, FS_Interval
  <2>2. /\ IsFiniteSet(own)
        /\ Cardinality(own) = Cardinality({v}) * Cardinality((r + 1)..n[v])
    BY <2>1, <2>3, FS_Product
  <2> QED BY <1>0, <2>1, <2>2, <2>3
<1> HIDE DEF others, own
<1>6. Cardinality(InPool(others) \cup own)
        = Cardinality(InPool(others)) + Cardinality(own) - Cardinality(InPool(others) \cap own)
  BY <1>2, <1>5, FS_Union
<1>7. Cardinality(InPool(n)) = Cardinality(InPool(others)) + Cardinality(own)
  BY <1>0, <1>2, <1>3, <1>4, <1>5, <1>6, FS_EmptySet
<1> QED BY <1>5, <1>7 DEF others

-----------------------------------------------------------------------------
(* What the conjuncts of IInv say of the values.                           *)
LEMMA Types ==
  ASSUME IInv
  PROVE  /\ occupancyCredits \in [VCs -> 0..Capacity]
         /\ outCredits \in [VCs -> 0..OutCapacity]
         /\ queue \in [VCs -> Seq(Flits)]
         /\ \A v \in VCs : /\ Len(queue[v]) \in 0..Capacity
                           /\ Len(queue[v]) <= occupancyCredits[v]
         /\ Load \in [VCs -> 0..(Capacity + OutCapacity)]
         /\ Queued \in [VCs -> 0..(Capacity + OutCapacity)]
         /\ Capacity \in Nat /\ OutCapacity \in Nat
<1>0. Capacity \in Nat /\ OutCapacity \in Nat
  BY LinkAssumption, OutAssumption DEF LinkAssumption, OutAssumption
<1>1. /\ occupancyCredits \in [VCs -> 0..Capacity]
      /\ queue \in [VCs -> Seq(Flits)] /\ leaving \in [VCs -> BOOLEAN]
  BY DEF IInv, CL!IInv, CL!TypeOK
<1>2. outCredits \in [VCs -> 0..OutCapacity]
  BY DEF IInv, OutTypes
<1>3. ASSUME NEW v \in VCs
      PROVE  /\ Len(queue[v]) \in 0..Capacity
             /\ Len(queue[v]) <= occupancyCredits[v]
  <2>1. /\ Len(queue[v]) \in Nat
        /\ CL!Taken(v) <= occupancyCredits[v]
    BY CL!TakenBound, LinkAssumptions DEF IInv
  <2>2. CL!Taken(v) = Len(queue[v]) \/ CL!Taken(v) = Len(queue[v]) + 1
    <3>1. CASE leaving[v]
      BY <3>1 DEF CL!Taken
    <3>2. CASE ~leaving[v]
      BY <2>1, <3>2 DEF CL!Taken
    <3> QED BY <3>1, <3>2
  <2> QED BY <1>0, <1>1, <2>1, <2>2
<1>4. Load \in [VCs -> 0..(Capacity + OutCapacity)]
  BY <1>0, <1>1, <1>2 DEF Load, Committed
<1>5. Queued \in [VCs -> 0..(Capacity + OutCapacity)]
  BY <1>0, <1>3 DEF Queued
<1> QED BY <1>0, <1>1, <1>2, <1>3, <1>4, <1>5

(* The output buffer's flits in a set of positions.                        *)
LEMMA FiniteWaiting ==
  ASSUME IInv, NEW v \in VCs
  PROVE  /\ Len(outQueue) \in Nat
         /\ IsFiniteSet(Waiting(v)) /\ IsFiniteSet(WaitingMin(v))
         /\ Cardinality(Waiting(v)) \in 0..Len(outQueue)
         /\ Cardinality(WaitingMin(v)) \in 0..Len(outQueue)
<1>0. Len(outQueue) \in Nat
  BY LenProperties DEF IInv, OutTypes
<1>1. IsFiniteSet(1..Len(outQueue)) /\ Cardinality(1..Len(outQueue)) = Len(outQueue)
  <2>1. \A n \in Nat : IsFiniteSet(1..n) /\ Cardinality(1..n) = n
    BY FS_Interval
  <2> QED BY <1>0, <2>1
<1>2. /\ Waiting(v) \in SUBSET (1..Len(outQueue))
      /\ WaitingMin(v) \in SUBSET (1..Len(outQueue))
  BY DEF Waiting, WaitingMin
<1> QED BY <1>0, <1>1, <1>2, FS_Subset, FS_CardinalityType

(* A flit in the output buffer has its credit, and the pool is within      *)
(* bounds: the rest of the type invariant, and NeverOvercommitted.         *)
LEMMA Consequences == IInv => TypeOK /\ NeverOvercommitted
<1> SUFFICES ASSUME IInv PROVE TypeOK /\ NeverOvercommitted
  OBVIOUS
<1> DEFINE most == Capacity + OutCapacity
<1>0. bufferType \in BufferTypes /\ most \in Nat
  BY Types DEF IInv, OutTypes
<1>1. \A i \in 1..Len(outQueue) : Link!Credits(outQueue[i].vc) >= 1
  <2> SUFFICES ASSUME NEW i \in 1..Len(outQueue)
               PROVE  Link!Credits(outQueue[i].vc) >= 1
    OBVIOUS
  <2> DEFINE v == outQueue[i].vc
  <2>1. v \in VCs
    <3>1. outQueue[i] \in OutRecord
      BY ElementOfSeq DEF IInv, OutTypes
    <3> QED BY <3>1 DEF OutRecord
  <2>2. outCredits[v] >= 1
    <3>1. i \in Waiting(v)
      BY DEF Waiting
    <3>2. Cardinality(Waiting(v)) # 0
      BY <2>1, <3>1, FiniteWaiting, FS_EmptySet
    <3> QED BY <2>1, <3>2, FiniteWaiting DEF IInv, OutCountersExact
  <2>3. Committed(v) <= bufferType.reserved + bufferType.pool
    <3> DEFINE others == [w \in VCs \ {v} |-> Load[w]]
    <3>1. Cardinality(InPool(Load)) = Cardinality(InPool(others))
            + (IF Load[v] > bufferType.reserved THEN Load[v] - bufferType.reserved ELSE 0)
      BY <1>0, <2>1, Types, PoolSplit
    <3>2. Cardinality(InPool(others)) \in Nat
      <4>1. others \in [VCs \ {v} -> 0..most] /\ VCs \ {v} \in SUBSET VCs
        BY Types
      <4> HIDE DEF others
      <4> QED BY <1>0, <4>1, PoolFinite
    <3>3. Load[v] = Committed(v) /\ Load[v] \in Nat
      BY <2>1, Types DEF Load
    <3>4. Cardinality(InPool(Load)) <= bufferType.pool
      BY DEF IInv, LoadBound
    <3> HIDE DEF others, v
    <3> QED BY <1>0, <3>1, <3>2, <3>3, <3>4, TypeOfBuffer
  <2>4. /\ occupancyCredits[v] \in Nat /\ outCredits[v] \in Nat
        /\ occupancyCredits[v] + outCredits[v] = Committed(v)
    BY <2>1, Types DEF Committed
  <2>5. bufferType.reserved + bufferType.pool <= Capacity
    BY <1>0, TypeOfBuffer
  <2> HIDE DEF v
  <2>6. occupancyCredits[v] + 1 <= Capacity
    BY SMTT(60), <1>0, <2>2, <2>3, <2>4, <2>5, TypeOfBuffer, Types
  <2> QED BY <2>4, <2>6, Types DEF Link!Credits, v
<1>2. /\ Cardinality(InPool(Queued)) \in Nat
      /\ Cardinality(InPool(Queued)) <= Cardinality(InPool(Load))
      /\ Cardinality(InPool(Load)) \in Nat
  <2>1. \A c \in VCs : Queued[c] <= Load[c]
    <3> SUFFICES ASSUME NEW c \in VCs PROVE Len(queue[c]) <= Committed(c)
      BY DEF Queued, Load
    <3> QED BY Types DEF Committed
  <2> QED BY <1>0, <2>1, Types, PoolFinite, PoolMonotonic
<1>3. aggregatedBufferCapacity \in 0..bufferType.pool
  BY <1>0, <1>2, TypeOfBuffer DEF IInv, LoadBound, PoolExact
<1>4. TypeOK
  BY <1>3, SameInvariants DEF TypeOK, IInv, CL!IInv, OutTypes, OutRecord
<1>5. NeverOvercommitted
  BY <1>1 DEF NeverOvercommitted, IInv, LoadBound, PoolExact, Load, Queued
<1> QED BY <1>4, <1>5

-----------------------------------------------------------------------------
(* Steps that leave the output buffer's flits and counters alone, and      *)
(* neither add to the flits on the link nor change the queues.             *)
LEMMA QuietStep ==
  ASSUME IInv, [Link!Next]_(Link!vars), OutTypes',
         outQueue' = outQueue \/
           /\ Len(outQueue') = Len(outQueue)
           /\ \A i \in 1..Len(outQueue) :
                /\ outQueue'[i].flit = outQueue[i].flit
                /\ outQueue'[i].vc = outQueue[i].vc
                /\ outQueue'[i].kind = outQueue[i].kind,
         \A f \in Flits : where[f] = "out" => where'[f] = "out",
         UNCHANGED <<outCredits, outMinCredits, poolVars>>,
         \A v \in VCs : occupancyCredits'[v] <= occupancyCredits[v],
         queue' = queue
  PROVE  IInv'
<1> DEFINE most == Capacity + OutCapacity
<1>0. bufferType \in BufferTypes /\ most \in Nat /\ UNCHANGED bufferType
  BY Types DEF IInv, OutTypes, poolVars
<1>1. CL!IInv'
  BY SameNext, CL!InvStep, LinkAssumptions DEF IInv
<1>2. /\ Len(outQueue') = Len(outQueue)
      /\ \A i \in 1..Len(outQueue) :
           /\ outQueue[i].flit \in Flits
           /\ outQueue'[i].flit = outQueue[i].flit
           /\ outQueue'[i].vc = outQueue[i].vc
           /\ outQueue'[i].kind = outQueue[i].kind
  <2>1. \A i \in 1..Len(outQueue) : outQueue[i] \in OutRecord
    BY ElementOfSeq DEF IInv, OutTypes
  <2> QED BY <2>1 DEF OutRecord
<1>3. OutFlits'
  BY <1>2 DEF IInv, OutFlits
<1>4. OutCountersExact'
  <2>1. \A v \in VCs : Waiting(v)' = Waiting(v) /\ WaitingMin(v)' = WaitingMin(v)
    BY <1>2 DEF Waiting, WaitingMin
  <2> QED BY <2>1 DEF IInv, OutCountersExact
<1>5. Load' \in [VCs -> 0..most] /\ \A v \in VCs : Load'[v] <= Load[v]
  <2>1. /\ occupancyCredits \in [VCs -> 0..Capacity]
        /\ occupancyCredits' \in [VCs -> 0..Capacity]
        /\ outCredits \in [VCs -> 0..OutCapacity]
    BY <1>1, Types DEF CL!IInv, CL!TypeOK
  <2>2. Capacity \in Nat /\ OutCapacity \in Nat
    BY Types
  <2> QED BY <2>1, <2>2 DEF Load, Committed
<1>6. LoadBound'
  <2>1. Cardinality(InPool(Load')) <= Cardinality(InPool(Load))
    BY <1>0, <1>5, Types, PoolMonotonic
  <2>2. Cardinality(InPool(Load')) \in Nat /\ Cardinality(InPool(Load)) \in Nat
    BY <1>0, <1>5, Types, PoolFinite
  <2>3. InPool(Load)' = InPool(Load')
    BY <1>0 DEF InPool
  <2> QED BY <1>0, <2>1, <2>2, <2>3, TypeOfBuffer DEF IInv, LoadBound
<1>7. PoolExact'
  <2>1. InPool(Queued)' = InPool(Queued)
    BY <1>0 DEF InPool, Queued
  <2> QED BY <1>0, <2>1 DEF IInv, PoolExact, poolVars
<1> QED BY <1>1, <1>3, <1>4, <1>6, <1>7 DEF IInv

LEMMA InvInit == Init => IInv
<1> SUFFICES ASSUME Init PROVE IInv
  OBVIOUS
<1>1. CL!IInv
  BY SameInit, CL!InvInit, LinkAssumptions DEF Init
<1>2. OutTypes
  <2>1. 0 \in 0..OutCapacity /\ 0 \in 0..FlitSize /\ 0 <= OutCapacity
    BY LinkAssumption, OutAssumption DEF LinkAssumption, OutAssumption
  <2> QED BY <2>1, EmptySeq DEF Init, OutTypes
<1>3. OutFlits
  BY EmptySeq DEF Init, OutFlits
<1>4. OutCountersExact
  <2> SUFFICES ASSUME NEW v \in VCs
               PROVE  outCredits[v] = Cardinality(Waiting(v))
                      /\ outMinCredits[v] = Cardinality(WaitingMin(v))
    BY DEF OutCountersExact
  <2>1. Waiting(v) = {} /\ WaitingMin(v) = {}
    BY DEF Init, Waiting, WaitingMin
  <2> QED BY <2>1, FS_EmptySet DEF Init
<1>5. LoadBound /\ PoolExact
  <2>1. bufferType \in BufferTypes
    BY DEF Init
  <2>2. \A v \in VCs : Load[v] = 0 /\ Queued[v] = 0
    BY EmptySeq DEF Init, Link!Init, Load, Queued, Committed
  <2>3. \A v \in VCs : /\ (bufferType.reserved + 1)..Load[v] = {}
                      /\ (bufferType.reserved + 1)..Queued[v] = {}
    BY <2>1, <2>2, TypeOfBuffer
  <2>4. InPool(Load) = {} /\ InPool(Queued) = {}
    BY <2>3 DEF InPool, Load, Queued
  <2> QED BY <2>1, <2>4, FS_EmptySet, TypeOfBuffer DEF Init, LoadBound, PoolExact
<1> QED BY <1>1, <1>2, <1>3, <1>4, <1>5 DEF IInv

-----------------------------------------------------------------------------
(* The crossbar brings flit f for channel v to the output buffer.          *)
LEMMA XbarStep ==
  ASSUME IInv, NEW f \in Flits, NEW v \in VCs, NEW kind \in Kinds, Xbar(f, v, kind)
  PROVE  IInv'
<1> DEFINE most == Capacity + OutCapacity
           n == Len(outQueue)
           new == [flit |-> f, vc |-> v, kind |-> kind, due |-> XbarDelay]
<1>0. /\ bufferType \in BufferTypes /\ most \in Nat /\ n \in Nat
      /\ Capacity \in Nat /\ OutCapacity \in Nat
      /\ XbarDelay \in Nat /\ XbarLength \in 0..FlitSize /\ FeedTimes \subseteq 0..FlitSize
      /\ outQueue \in Seq(OutRecord)
  BY LenProperties, Types, LinkAssumption, OutAssumption
     DEF IInv, OutTypes, LinkAssumption, OutAssumption
<1>1. CL!IInv'
  <2>1. [Link!Next]_(Link!vars)
    BY DEF Xbar, linkVars, Link!vars, Link!turnVars, Link!upVars, Link!flitVars,
           Link!downVars
  <2> QED BY <2>1, SameNext, CL!InvStep, LinkAssumptions DEF IInv
<1>2. new \in OutRecord
  BY <1>0 DEF OutRecord
<1>3. /\ outQueue' \in Seq(OutRecord)
      /\ Len(outQueue') = n + 1
      /\ \A i \in 1..(n + 1) : outQueue'[i] = IF i = n + 1 THEN new ELSE outQueue[i]
  <2>1. outQueue' = Append(outQueue, new)
    BY DEF Xbar
  <2> HIDE DEF new
  <2> QED BY <1>0, <1>2, <2>1, AppendProperties
<1>4. OutFlits'
  <2>1. /\ new.flit = f /\ where' = where /\ where[f] = "out"
        /\ \A i \in 1..n : outQueue[i].flit # f
    BY DEF Xbar, linkVars
  <2> HIDE DEF new
  <2>2. \A i \in 1..(n + 1) : where'[outQueue'[i].flit] = "out"
    BY <1>0, <1>3, <2>1 DEF IInv, OutFlits
  <2>3. ASSUME NEW i \in 1..(n + 1), NEW j \in 1..(n + 1),
               outQueue'[i].flit = outQueue'[j].flit
        PROVE  i = j
    <3>1. CASE i \in 1..n /\ j \in 1..n
      <4>1. outQueue'[i] = outQueue[i] /\ outQueue'[j] = outQueue[j]
        BY <1>0, <1>3, <3>1
      <4>2. outQueue[i].flit = outQueue[j].flit => i = j
        BY <3>1 DEF IInv, OutFlits
      <4> QED BY <2>3, <4>1, <4>2
    <3>2. CASE i = n + 1 \/ j = n + 1
      BY <1>0, <1>3, <2>1, <2>3, <3>2
    <3> QED BY <1>0, <3>1, <3>2
  <2> QED BY <1>3, <2>2, <2>3 DEF OutFlits
<1>5. \A w \in VCs :
        /\ outCredits'[w] = outCredits[w] + (IF w = v THEN 1 ELSE 0)
        /\ outMinCredits'[w] = outMinCredits[w]
                                 + (IF w = v /\ kind = "minimal" THEN 1 ELSE 0)
        /\ outCredits'[w] = Cardinality(Waiting(w)')
        /\ outMinCredits'[w] = Cardinality(WaitingMin(w)')
  <2> SUFFICES ASSUME NEW w \in VCs
               PROVE  /\ outCredits'[w] = outCredits[w] + (IF w = v THEN 1 ELSE 0)
                      /\ outMinCredits'[w] = outMinCredits[w]
                            + (IF w = v /\ kind = "minimal" THEN 1 ELSE 0)
                      /\ outCredits'[w] = Cardinality(Waiting(w)')
                      /\ outMinCredits'[w] = Cardinality(WaitingMin(w)')
    OBVIOUS
  <2>1. /\ outCredits'[w] = outCredits[w] + (IF w = v THEN 1 ELSE 0)
        /\ outMinCredits'[w] = outMinCredits[w]
                                 + (IF w = v /\ kind = "minimal" THEN 1 ELSE 0)
    BY DEF Xbar, IInv, OutTypes
  <2>2. new.vc = v /\ new.kind = kind
    OBVIOUS
  <2> HIDE DEF new
  <2>3. /\ Waiting(w)' = IF w = v THEN Waiting(w) \cup {n + 1} ELSE Waiting(w)
        /\ WaitingMin(w)' = IF w = v /\ kind = "minimal" THEN WaitingMin(w) \cup {n + 1}
                            ELSE WaitingMin(w)
        /\ n + 1 \notin Waiting(w) /\ n + 1 \notin WaitingMin(w)
    <3>1. \A i \in 1..(n + 1) :
            /\ outQueue'[i].vc = IF i = n + 1 THEN v ELSE outQueue[i].vc
            /\ outQueue'[i].kind = IF i = n + 1 THEN kind ELSE outQueue[i].kind
      BY <1>3, <2>2
    <3>2. Waiting(w)' = {i \in 1..(n + 1) : outQueue'[i].vc = w}
      BY <1>3 DEF Waiting
    <3>3. WaitingMin(w)' = {i \in Waiting(w)' : outQueue'[i].kind = "minimal"}
      BY DEF WaitingMin
    <3>4. n + 1 \notin 1..n /\ 1..(n + 1) = 1..n \cup {n + 1}
      BY <1>0
    <3>5. Waiting(w)' = IF w = v THEN Waiting(w) \cup {n + 1} ELSE Waiting(w)
      BY <3>1, <3>2, <3>4 DEF Waiting
    <3>6. n + 1 \notin Waiting(w) /\ n + 1 \notin WaitingMin(w)
      BY <3>4 DEF Waiting, WaitingMin
    <3>7. \A i \in Waiting(w) : i \in 1..n
      BY DEF Waiting
    <3>8. WaitingMin(w)' = IF w = v /\ kind = "minimal" THEN WaitingMin(w) \cup {n + 1}
                           ELSE WaitingMin(w)
      BY <3>1, <3>3, <3>4, <3>5, <3>6, <3>7 DEF WaitingMin
    <3> QED BY <3>5, <3>6, <3>8
  <2>4. /\ IsFiniteSet(Waiting(w)) /\ IsFiniteSet(WaitingMin(w))
        /\ outCredits[w] = Cardinality(Waiting(w))
        /\ outMinCredits[w] = Cardinality(WaitingMin(w))
        /\ Cardinality(Waiting(w)) \in Nat /\ Cardinality(WaitingMin(w)) \in Nat
    BY FiniteWaiting DEF IInv, OutCountersExact
  <2>5. /\ Cardinality(Waiting(w) \cup {n + 1}) = Cardinality(Waiting(w)) + 1
        /\ Cardinality(WaitingMin(w) \cup {n + 1}) = Cardinality(WaitingMin(w)) + 1
    BY <2>3, <2>4, FS_AddElement
  <2> QED BY <2>1, <2>3, <2>4, <2>5
<1>6. OutCountersExact'
  BY <1>5 DEF OutCountersExact
<1>7. HasCredits(v)
  BY DEF Xbar
<1>8. OutTypes'
  <2>1. n + 1 <= OutCapacity
    BY <1>0, <1>7 DEF HasCredits, OutSpace, Xbar
  <2>2. \A w \in VCs : /\ outCredits[w] \in 0..n /\ outMinCredits[w] \in 0..n
    BY FiniteWaiting DEF IInv, OutCountersExact
  <2>3. \A w \in VCs : /\ outCredits'[w] \in 0..OutCapacity
                      /\ outMinCredits'[w] \in 0..OutCapacity
    BY <1>0, <1>5, <2>1, <2>2
  <2>4. /\ outCredits' \in [VCs -> 0..OutCapacity]
        /\ outMinCredits' \in [VCs -> 0..OutCapacity]
    BY <2>3 DEF Xbar, IInv, OutTypes
  <2>5. outReceiving' \in 0..FlitSize /\ feeding' \in 0..FlitSize
    BY <1>0 DEF Xbar
  <2>6. UNCHANGED <<outLeaving, outSending, bufferType>>
    BY DEF Xbar, poolVars
  <2> QED BY <1>3, <2>1, <2>4, <2>5, <2>6 DEF IInv, OutTypes
<1>9. /\ Load' \in [VCs -> 0..most]
      /\ \A c \in VCs : Load'[c] = IF c = v THEN Load[c] + 1 ELSE Load[c]
      /\ UNCHANGED bufferType
  <2>1. occupancyCredits' = occupancyCredits /\ UNCHANGED bufferType
    BY DEF Xbar, linkVars, poolVars
  <2>2. outCredits' \in [VCs -> 0..OutCapacity]
    BY <1>8 DEF OutTypes
  <2>3. \A c \in VCs : outCredits'[c] = outCredits[c] + (IF c = v THEN 1 ELSE 0)
    BY <1>5
  <2>4. \A c \in VCs : /\ Load[c] = occupancyCredits[c] + outCredits[c]
                      /\ Load'[c] = occupancyCredits[c] + outCredits'[c]
                      /\ occupancyCredits[c] \in 0..Capacity
                      /\ outCredits[c] \in 0..OutCapacity
                      /\ outCredits'[c] \in 0..OutCapacity
    BY <2>1, <2>2, Types DEF Load, Committed
  <2>5. Load' \in [VCs -> 0..most]
    BY <1>0, <2>4 DEF Load
  <2>6. ASSUME NEW c \in VCs
        PROVE  Load'[c] = IF c = v THEN Load[c] + 1 ELSE Load[c]
    <3>1. /\ Load[c] = occupancyCredits[c] + outCredits[c]
          /\ Load'[c] = occupancyCredits[c] + outCredits'[c]
          /\ occupancyCredits[c] \in Int /\ outCredits[c] \in Int
          /\ outCredits'[c] = outCredits[c] + (IF c = v THEN 1 ELSE 0)
      BY <2>3, <2>4
    <3> QED BY <3>1
  <2> QED BY <2>1, <2>5, <2>6
<1>10. LoadBound'
  <2> DEFINE others == [w \in VCs \ {v} |-> Load[w]]
             r == bufferType.reserved
             pool == bufferType.pool
  <2>0. r \in Nat /\ pool \in Nat
    BY <1>0, TypeOfBuffer
  <2>1. Cardinality(InPool(Load)) = Cardinality(InPool(others))
          + (IF Load[v] > r THEN Load[v] - r ELSE 0)
    BY <1>0, Types, PoolSplit
  <2>2. Cardinality(InPool(Load')) = Cardinality(InPool(Load))
          + (IF Load[v] + 1 > r THEN 1 ELSE 0)
    BY <1>0, <1>9, Types, PoolGrows
  <2>3. (r + pool) - (Load[v] + Cardinality(InPool(others))) >= 1
    <3>1. others = [w \in VCs \ {v} |-> Committed(w)] /\ Load[v] = Committed(v)
      BY DEF Load
    <3> HIDE DEF others
    <3> QED BY <1>7, <3>1 DEF HasCredits, MaxOccupancy, TotalOccupancy
  <2>4. Cardinality(InPool(others)) \in Nat
    <3>1. others \in [VCs \ {v} -> 0..most] /\ VCs \ {v} \in SUBSET VCs
      BY Types
    <3> HIDE DEF others
    <3> QED BY <1>0, <3>1, PoolFinite
  <2>5. Load[v] \in Nat /\ Cardinality(InPool(Load)) <= pool
    BY Types DEF IInv, LoadBound
  <2>6. InPool(Load)' = InPool(Load') /\ bufferType.pool' = pool
    BY <1>9 DEF InPool
  <2> HIDE DEF others, r, pool
  <2>7. Cardinality(InPool(Load')) <= pool
    BY <2>0, <2>1, <2>2, <2>3, <2>4, <2>5
  <2> QED BY <2>6, <2>7 DEF LoadBound
<1>11. PoolExact'
  <2>1. InPool(Queued)' = InPool(Queued)
    BY DEF InPool, Queued, Xbar, linkVars, poolVars
  <2> QED BY <2>1 DEF IInv, PoolExact, Xbar, poolVars
<1> QED BY <1>1, <1>4, <1>6, <1>8, <1>10, <1>11 DEF IInv

-----------------------------------------------------------------------------
(* Positions moved up by one are as many as before.                        *)
LEMMA Shifted ==
  ASSUME NEW S \in SUBSET Int, NEW T \in SUBSET Int, IsFiniteSet(S),
         \A i \in Int : i \in T <=> i + 1 \in S
  PROVE  IsFiniteSet(T) /\ Cardinality(T) = Cardinality(S)
<1> DEFINE up == [i \in S |-> i - 1]
<1>1. up \in [S -> T]
  BY SMT
<1>2. \A i, j \in S : up[i] = up[j] => i = j
  OBVIOUS
<1>3. \A t \in T : \E i \in S : up[i] = t
  <2> SUFFICES ASSUME NEW t \in T PROVE \E i \in S : up[i] = t
    OBVIOUS
  <2>1. t + 1 \in S /\ up[t + 1] = t
    OBVIOUS
  <2> QED BY <2>1
<1>4. ExistsBijection(S, T)
  <2> HIDE DEF up
  <2>1. up \in Bijection(S, T)
    BY <1>1, <1>2, <1>3 DEF Bijection, Injection, Surjection, IsInjective
  <2> QED BY <2>1 DEF ExistsBijection
<1> QED BY <1>4, FS_Bijection

(* The head of the output buffer leaves for the link.                      *)
LEMMA DepartStep == ASSUME IInv, Depart PROVE IInv'
<1> DEFINE most == Capacity + OutCapacity
           n == Len(outQueue)
           head == Head(outQueue)
           v == head.vc
           misrouted == Misrouted(head.kind)
<1>0. /\ bufferType \in BufferTypes /\ most \in Nat
      /\ Capacity \in Nat /\ OutCapacity \in Nat
      /\ outQueue \in Seq(OutRecord) /\ outQueue # <<>>
      /\ UNCHANGED bufferType
  BY Types DEF IInv, OutTypes, Depart, CanDepart
<1>1. /\ n \in Nat \ {0} /\ head = outQueue[1]
      /\ head \in OutRecord /\ head.flit \in Flits /\ v \in VCs
      /\ misrouted \in BOOLEAN
  <2>1. n \in Nat \ {0} /\ head = outQueue[1] /\ head \in OutRecord
    BY <1>0, EmptySeq, HeadTailProperties
  <2>2. head.flit \in Flits /\ v \in VCs
    BY <2>1 DEF OutRecord
  <2> QED BY <2>1, <2>2 DEF Misrouted
<1>2. /\ outQueue' \in Seq(OutRecord) /\ Len(outQueue') = n - 1
      /\ \A i \in 1..(n - 1) : outQueue'[i] = outQueue[i + 1]
  BY <1>0, HeadTailProperties DEF Depart
<1>3. Link!Send(head.flit, v, misrouted)
  BY DEF Depart
<1>4. CL!IInv'
  <2>1. Link!Next
    BY <1>1, <1>3 DEF Link!Next
  <2> QED BY <2>1, SameNext, CL!InvStep, LinkAssumptions DEF IInv
<1>5. /\ outCredits' = [outCredits EXCEPT ![v] = @ - 1]
      /\ outMinCredits' = IF misrouted THEN outMinCredits
                          ELSE [outMinCredits EXCEPT ![v] = @ - 1]
      /\ aggregatedBufferCapacity' = PoolAfterInsert(v)
  BY DEF Depart
<1>6. /\ where[head.flit] = "out"
      /\ where' = [where EXCEPT ![head.flit] = "buffer"]
      /\ where \in [Flits -> {"out", "buffer", "credit"}]
      /\ occupancyCredits' = [occupancyCredits EXCEPT ![v] = @ + 1]
      /\ queue' = [queue EXCEPT ![v] = Append(@, head.flit)]
      /\ Link!UpTurn
  BY <1>3 DEF Link!Send, IInv, CL!IInv, CL!TypeOK
<1> HIDE DEF head, v, misrouted, n
<1>7. OutFlits'
  <2>1. \A i \in 1..(n - 1) : /\ i + 1 \in 1..n /\ i + 1 # 1
                              /\ outQueue[i + 1].flit \in Flits
    <3>1. \A i \in 1..(n - 1) : i + 1 \in 1..n /\ i + 1 # 1
      BY <1>1
    <3>2. \A i \in 1..n : outQueue[i] \in OutRecord
      BY <1>0, ElementOfSeq DEF n
    <3> QED BY <3>1, <3>2 DEF OutRecord
  <2>2. \A i \in 1..(n - 1) : outQueue[i + 1].flit # head.flit
    BY <1>1, <2>1 DEF IInv, OutFlits, n
  <2>3. \A i \in 1..(n - 1) : where'[outQueue'[i].flit] = "out"
    BY <1>2, <1>6, <2>1, <2>2 DEF IInv, OutFlits, n
  <2>4. \A i, j \in 1..(n - 1) : outQueue'[i].flit = outQueue'[j].flit => i = j
    <3> SUFFICES ASSUME NEW i \in 1..(n - 1), NEW j \in 1..(n - 1),
                        outQueue'[i].flit = outQueue'[j].flit
                 PROVE  i = j
      OBVIOUS
    <3>1. i + 1 = j + 1
      BY <1>2, <2>1 DEF IInv, OutFlits, n
    <3> QED BY <3>1
  <2> QED BY <1>2, <2>3, <2>4 DEF OutFlits
<1>8. ASSUME NEW w \in VCs
      PROVE  /\ outCredits'[w] = outCredits[w] - (IF w = v THEN 1 ELSE 0)
             /\ outCredits'[w] = Cardinality(Waiting(w)')
             /\ outMinCredits'[w] = Cardinality(WaitingMin(w)')
             /\ outCredits'[w] \in 0..OutCapacity
             /\ outMinCredits'[w] \in 0..OutCapacity
  <2>1. /\ outCredits'[w] = outCredits[w] - (IF w = v THEN 1 ELSE 0)
        /\ outMinCredits'[w] = outMinCredits[w]
                                 - (IF w = v /\ ~misrouted THEN 1 ELSE 0)
        /\ outCredits[w] \in 0..OutCapacity /\ outMinCredits[w] \in 0..OutCapacity
    BY <1>1, <1>5 DEF IInv, OutTypes
  <2>2. /\ IsFiniteSet(Waiting(w)) /\ IsFiniteSet(WaitingMin(w))
        /\ outCredits[w] = Cardinality(Waiting(w))
        /\ outMinCredits[w] = Cardinality(WaitingMin(w))
    BY FiniteWaiting DEF IInv, OutCountersExact
  <2>3. /\ 1 \in Waiting(w) <=> w = v
        /\ 1 \in WaitingMin(w) <=> w = v /\ ~misrouted
    BY <1>1 DEF Waiting, WaitingMin, v, misrouted, Misrouted, n
  <2>4. /\ IsFiniteSet(Waiting(w) \ {1}) /\ IsFiniteSet(WaitingMin(w) \ {1})
        /\ outCredits'[w] = Cardinality(Waiting(w) \ {1})
        /\ outMinCredits'[w] = Cardinality(WaitingMin(w) \ {1})
    BY <2>1, <2>2, <2>3, FS_RemoveElement
  <2>5. \A i \in Int : /\ i \in Waiting(w)' <=> i + 1 \in Waiting(w) \ {1}
                       /\ i \in WaitingMin(w)' <=> i + 1 \in WaitingMin(w) \ {1}
    <3> SUFFICES ASSUME NEW i \in Int
                 PROVE  /\ i \in Waiting(w)' <=> i + 1 \in Waiting(w) \ {1}
                        /\ i \in WaitingMin(w)' <=> i + 1 \in WaitingMin(w) \ {1}
      OBVIOUS
    <3>1. i \in 1..(n - 1) <=> i + 1 \in 1..n /\ i + 1 # 1
      BY <1>1
    <3>2. i \in 1..(n - 1) => outQueue'[i] = outQueue[i + 1]
      BY <1>2
    <3>3. i \in Waiting(w)' <=> i + 1 \in Waiting(w) \ {1}
      BY <1>2, <3>1, <3>2 DEF Waiting, n
    <3>4. i \in Waiting(w)' => outQueue'[i] = outQueue[i + 1]
      BY <1>2, <3>2 DEF Waiting
    <3> QED BY <3>3, <3>4 DEF WaitingMin
  <2>6. /\ Waiting(w) \ {1} \in SUBSET Int /\ WaitingMin(w) \ {1} \in SUBSET Int
        /\ Waiting(w)' \in SUBSET Int /\ WaitingMin(w)' \in SUBSET Int
    BY DEF Waiting, WaitingMin
  <2>7. /\ Cardinality(Waiting(w)') = Cardinality(Waiting(w) \ {1})
        /\ Cardinality(WaitingMin(w)') = Cardinality(WaitingMin(w) \ {1})
    BY <2>4, <2>5, <2>6, Shifted
  <2>8. outCredits'[w] \in Nat /\ outMinCredits'[w] \in Nat
    BY <2>4, FS_CardinalityType
  <2>9. outCredits'[w] \in 0..OutCapacity /\ outMinCredits'[w] \in 0..OutCapacity
    BY <1>0, <2>1, <2>8
  <2> QED BY <2>1, <2>4, <2>7, <2>9
<1>9. OutCountersExact'
  BY <1>8 DEF OutCountersExact
<1>10. OutTypes'
  <2>1. /\ outCredits' \in [VCs -> 0..OutCapacity]
        /\ outMinCredits' \in [VCs -> 0..OutCapacity]
    BY <1>5, <1>8 DEF IInv, OutTypes
  <2>2. /\ outLeaving' \in BOOLEAN /\ outSending' \in 0..FlitSize
        /\ UNCHANGED <<outReceiving, feeding>>
    BY LinkAssumption DEF Depart, LinkAssumption
  <2>3. Len(outQueue') <= OutCapacity
    BY <1>0, <1>1, <1>2 DEF IInv, OutTypes, n
  <2> QED BY <1>0, <1>2, <2>1, <2>2, <2>3 DEF IInv, OutTypes
<1>11. LoadBound'
  <2>1. \A c \in VCs : /\ occupancyCredits'[c] = occupancyCredits[c]
                                                  + (IF c = v THEN 1 ELSE 0)
                      /\ occupancyCredits[c] \in Int /\ outCredits[c] \in Int
    BY SMTT(60), <1>0, <1>1, <1>6, Types
  <2>2. \A c \in VCs : occupancyCredits'[c] + outCredits'[c]
                        = occupancyCredits[c] + outCredits[c]
    BY <1>8, <2>1
  <2>3. Load' = Load
    BY <2>2 DEF Load, Committed
  <2>4. bufferType' = bufferType
    BY <1>0
  <2>5. InPool(Load)' = InPool(Load)
    BY <2>3, <2>4 DEF InPool
  <2> QED BY <1>0, <2>4, <2>5 DEF IInv, LoadBound
<1>12. PoolExact'
  <2>1. ~leaving[v]
    <3>1. CL!LeavingCredit /\ stage \in 1..3 /\ leaving \in [VCs -> BOOLEAN]
      BY DEF IInv, CL!IInv, CL!TypeOK
    <3> QED BY <1>1, <1>6, <3>1 DEF CL!LeavingCredit, CL!DownTurn, Link!UpTurn
  <2>2. Link!Taken(v) = Len(queue[v])
    <3>1. Len(queue[v]) \in Nat
      BY <1>0, <1>1, Types
    <3> QED BY <2>1, <3>1 DEF Link!Taken
  <2>3. /\ Queued' \in [VCs -> 0..most]
        /\ \A c \in VCs : Queued'[c] = IF c = v THEN Queued[c] + 1 ELSE Queued[c]
    <3>1. \A c \in VCs : Len(queue'[c]) = Len(queue[c]) + (IF c = v THEN 1 ELSE 0)
      <4>1. Len(Append(queue[v], head.flit)) = Len(queue[v]) + 1
        BY <1>1, Types, AppendProperties
      <4> QED BY <1>1, <1>6, <4>1, Types
    <3>2. \A c \in VCs : Len(queue[c]) \in 0..Capacity
      BY Types
    <3>3. OutCapacity >= 1
      BY OutAssumption DEF OutAssumption
    <3>4. ASSUME NEW c \in VCs
          PROVE  /\ Len(queue'[c]) \in 0..most
                 /\ Queued'[c] = IF c = v THEN Queued[c] + 1 ELSE Queued[c]
      <4>1. /\ Len(queue'[c]) = Len(queue[c]) + (IF c = v THEN 1 ELSE 0)
            /\ Len(queue[c]) \in 0..Capacity
            /\ Queued[c] = Len(queue[c]) /\ Queued'[c] = Len(queue'[c])
        BY <3>1, <3>2 DEF Queued
      <4>2. CASE c = v
        BY <1>0, <3>3, <4>1, <4>2
      <4>3. CASE c # v
        BY <1>0, <3>3, <4>1, <4>3
      <4> QED BY <4>2, <4>3
    <3> QED BY <3>4 DEF Queued
  <2>4. Cardinality(InPool(Queued')) = Cardinality(InPool(Queued))
          + (IF Len(queue[v]) + 1 > bufferType.reserved THEN 1 ELSE 0)
    <3>1. Queued[v] = Len(queue[v])
      BY <1>1 DEF Queued
    <3>2. Queued \in [VCs -> 0..most]
      BY Types
    <3> HIDE DEF most
    <3> QED BY ZenonT(60), <1>0, <1>1, <2>3, <3>1, <3>2, PoolGrows
  <2>5. InPool(Queued)' = InPool(Queued')
    BY <1>0 DEF InPool
  <2>6. Cardinality(InPool(Queued)) \in Nat /\ bufferType.pool \in Nat
    BY <1>0, Types, PoolFinite, TypeOfBuffer
  <2> QED BY <1>0, <1>5, <2>2, <2>4, <2>5, <2>6 DEF IInv, PoolExact, PoolAfterInsert
<1> QED BY <1>4, <1>7, <1>9, <1>10, <1>11, <1>12 DEF IInv

(* The downstream switch takes the head of the queue of channel v.         *)
LEMMA ExtractStep == ASSUME IInv, NEW v \in VCs, Extract(v) PROVE IInv'
<1> DEFINE most == Capacity + OutCapacity
<1>0. /\ bufferType \in BufferTypes /\ most \in Nat
      /\ Capacity \in Nat /\ OutCapacity \in Nat
      /\ UNCHANGED <<outVars, bufferType>>
  BY Types DEF IInv, OutTypes, Extract
<1>1. /\ queue[v] # <<>> /\ ~leaving[v]
      /\ where' = [where EXCEPT ![Head(queue[v])] = "credit"]
      /\ queue' = [queue EXCEPT ![v] = Tail(@)]
      /\ UNCHANGED <<occupancyCredits, minOccupancyCredits>>
      /\ aggregatedBufferCapacity' = PoolAfterExtract(v)
  BY DEF Extract, Link!Extract, Link!upVars
<1>2. CL!IInv'
  <2>1. Link!Next
    BY DEF Extract, Link!Next
  <2> QED BY <2>1, SameNext, CL!InvStep, LinkAssumptions DEF IInv
<1>3. /\ queue[v] \in Seq(Flits) /\ Head(queue[v]) \in Flits
      /\ Head(queue[v]) = queue[v][1] /\ Len(queue[v]) \in Nat \ {0}
      /\ Len(Tail(queue[v])) = Len(queue[v]) - 1
  BY <1>1, Types, EmptySeq, HeadTailProperties
<1>4. OutTypes' /\ OutCountersExact'
  BY ZenonT(60), <1>0 DEF IInv, OutTypes, outVars, OutCountersExact, Waiting, WaitingMin
<1>5. OutFlits'
  <2>1. \A i \in 1..Len(outQueue) : outQueue[i].flit \in Flits
    <3>1. \A i \in 1..Len(outQueue) : outQueue[i] \in OutRecord
      BY ElementOfSeq DEF IInv, OutTypes
    <3> QED BY <3>1 DEF OutRecord
  <2>2. where \in [Flits -> {"out", "buffer", "credit"}]
    BY DEF IInv, CL!IInv, CL!TypeOK
  <2>3. where[Head(queue[v])] = "buffer"
    BY <1>3 DEF IInv, CL!IInv, CL!QueueExact
  <2>4. \A f \in Flits : where[f] = "out" => where'[f] = "out"
    BY <1>1, <2>2, <2>3
  <2> QED BY <1>0, <2>1, <2>4 DEF IInv, OutFlits, outVars
<1>6. LoadBound'
  <2>1. InPool(Load)' = InPool(Load)
    BY <1>0, <1>1 DEF InPool, Load, Committed, outVars
  <2> QED BY <1>0, <2>1 DEF IInv, LoadBound
<1>7. PoolExact'
  <2>1. Link!Taken(v) = Len(queue[v])
    BY <1>1, <1>3 DEF Link!Taken
  <2>2. \A c \in VCs : Len(queue[c]) \in 0..Capacity
    BY Types
  <2>3. ASSUME NEW c \in VCs
        PROVE  /\ Len(queue'[c]) \in 0..most
               /\ Queued[c] = IF c = v THEN Queued'[c] + 1 ELSE Queued'[c]
    <3>1. Queued[c] = Len(queue[c]) /\ Queued'[c] = Len(queue'[c])
      BY DEF Queued
    <3>2. CASE c = v
      <4>1. Len(queue'[c]) = Len(queue[c]) - 1
        BY <1>1, <1>3, <3>2, Types
      <4> QED BY <1>0, <1>3, <2>2, <3>1, <3>2, <4>1
    <3>3. CASE c # v
      <4>1. queue'[c] = queue[c]
        BY <1>1, <3>3, Types
      <4> QED BY <1>0, <2>2, <3>1, <3>3, <4>1
    <3> QED BY <3>2, <3>3
  <2>4. Queued' \in [VCs -> 0..most] /\ Queued \in [VCs -> 0..most]
    BY <2>3, Types DEF Queued
  <2>5. Queued'[v] + 1 = Len(queue[v])
    BY <2>3 DEF Queued
  <2> HIDE DEF most
  <2>6. Cardinality(InPool(Queued)) = Cardinality(InPool(Queued'))
          + (IF Queued'[v] + 1 > bufferType.reserved THEN 1 ELSE 0)
    BY <1>0, <2>3, <2>4, PoolGrows
  <2>7. InPool(Queued)' = InPool(Queued')
    BY <1>0 DEF InPool
  <2>8. /\ Cardinality(InPool(Queued)) \in Nat /\ Cardinality(InPool(Queued')) \in Nat
        /\ bufferType.pool \in Nat
    BY <1>0, <2>4, PoolFinite, TypeOfBuffer
  <2> QED BY <1>0, <1>1, <2>1, <2>5, <2>6, <2>7, <2>8
          DEF IInv, PoolExact, PoolAfterExtract
<1> QED BY <1>2, <1>4, <1>5, <1>6, <1>7 DEF IInv

(* The other steps of the switches, and of the clock.                      *)
LEMMA TurnStep ==
  ASSUME IInv, UpdateCredits \/ UpEnd \/ UpIdle \/ DownEnd \/ Tick \/ UNCHANGED vars
  PROVE  IInv'
<1>1. CASE UpdateCredits
  <2>1. Link!UpdateCredits /\ UNCHANGED <<outVars, poolVars>>
    BY <1>1 DEF UpdateCredits
  <2>2. [Link!Next]_(Link!vars)
    BY <2>1 DEF Link!Next, Link!Turn
  <2>3. OutTypes'
    BY <2>1 DEF IInv, OutTypes, outVars, poolVars
  <2>4. /\ \A f \in Flits : where[f] = "out" => where'[f] = "out"
        /\ queue' = queue
    BY <2>1 DEF Link!UpdateCredits, Link!downVars
  <2>5. \A v \in VCs : occupancyCredits'[v] <= occupancyCredits[v]
    <3> SUFFICES ASSUME NEW v \in VCs
                 PROVE  occupancyCredits'[v] <= occupancyCredits[v]
      OBVIOUS
    <3>1. IsFiniteSet(Link!Arrived(v))
      <4>1. Link!Arrived(v) \in SUBSET Flits
        BY DEF Link!Arrived
      <4> QED BY <4>1, LinkAssumption, FS_Subset DEF LinkAssumption
    <3>2. Link!Cardinality(Link!Arrived(v)) \in Nat
      BY <3>1, SameFinite, FS_CardinalityType
    <3> QED BY <2>1, <3>2, Types DEF Link!UpdateCredits
  <2> QED BY <2>1, <2>2, <2>3, <2>4, <2>5, QuietStep DEF outVars, poolVars
<1>2. CASE UpEnd \/ UpIdle \/ DownEnd
  <2>1. Link!UpEnd \/ Link!UpIdle \/ Link!DownEnd
    BY <1>2 DEF UpEnd, UpIdle, DownEnd
  <2>2. /\ UNCHANGED <<outQueue, outCredits, outMinCredits, outSending,
                        outReceiving, feeding, poolVars>>
        /\ outLeaving' = outLeaving \/ outLeaving' = FALSE
    BY <1>2 DEF UpEnd, UpIdle, DownEnd, outVars
  <2>3. [Link!Next]_(Link!vars)
    BY <2>1 DEF Link!Next, Link!Turn
  <2>4. OutTypes'
    <3>1. outLeaving' \in BOOLEAN
      BY <2>2 DEF IInv, OutTypes
    <3> QED BY <2>2, <3>1 DEF IInv, OutTypes, poolVars
  <2>5. UNCHANGED <<occupancyCredits, where, queue>>
    BY <2>1 DEF Link!UpEnd, Link!UpIdle, Link!DownEnd, Link!upVars, Link!flitVars,
                Link!downVars
  <2>6. \A v \in VCs : occupancyCredits'[v] <= occupancyCredits[v]
    BY <2>5, Types
  <2> QED BY <2>2, <2>3, <2>4, <2>5, <2>6, QuietStep DEF poolVars
<1>3. CASE Tick
  <2>1. /\ Link!Tick
        /\ outQueue' = [i \in 1..Len(outQueue) |->
                           [outQueue[i] EXCEPT !.due = Link!Later(@)]]
        /\ outSending' = Link!Later(outSending)
        /\ outReceiving' = Link!Later(outReceiving)
        /\ feeding' = Link!Later(feeding)
        /\ UNCHANGED <<outCredits, outMinCredits, outLeaving, poolVars>>
    BY <1>3 DEF Tick
  <2>2. [Link!Next]_(Link!vars)
    BY <2>1 DEF Link!Next, Link!Turn
  <2>3. UNCHANGED <<occupancyCredits, where, queue>>
    BY <2>1 DEF Link!Tick
  <2>4. \A i \in 1..Len(outQueue) :
          /\ outQueue'[i] \in OutRecord
          /\ outQueue'[i].flit = outQueue[i].flit
          /\ outQueue'[i].vc = outQueue[i].vc
          /\ outQueue'[i].kind = outQueue[i].kind
    <3> SUFFICES ASSUME NEW i \in 1..Len(outQueue)
                 PROVE  /\ outQueue'[i] \in OutRecord
                        /\ outQueue'[i].flit = outQueue[i].flit
                        /\ outQueue'[i].vc = outQueue[i].vc
                        /\ outQueue'[i].kind = outQueue[i].kind
      OBVIOUS
    <3>1. outQueue[i] \in OutRecord
      BY ElementOfSeq DEF IInv, OutTypes
    <3>2. outQueue'[i] = [outQueue[i] EXCEPT !.due = Link!Later(outQueue[i].due)]
      BY <2>1
    <3>3. outQueue[i].due \in 0..XbarDelay => Link!Later(outQueue[i].due) \in 0..XbarDelay
      BY OutAssumption DEF OutAssumption, Link!Later
    <3> QED BY <3>1, <3>2, <3>3 DEF OutRecord
  <2>5. Len(outQueue) \in Nat
    BY LenProperties DEF IInv, OutTypes
  <2>6. outQueue' \in Seq(OutRecord) /\ Len(outQueue') = Len(outQueue)
    <3>1. outQueue' \in [1..Len(outQueue) -> OutRecord]
      BY <2>1, <2>4
    <3>2. outQueue' \in Seq(OutRecord)
      BY <2>5, <3>1, SeqDef
    <3>3. 1..Len(outQueue') = 1..Len(outQueue) /\ Len(outQueue') \in Nat
      BY <3>1, <3>2, LenProperties
    <3> QED BY <2>5, <3>2, <3>3
  <2>7. OutTypes'
    <3>1. /\ outSending' \in 0..FlitSize /\ outReceiving' \in 0..FlitSize
          /\ feeding' \in 0..FlitSize
      BY SMTT(60), <2>1, LinkAssumption DEF IInv, OutTypes, Link!Later, LinkAssumption
    <3> QED BY <2>1, <2>6, <3>1 DEF IInv, OutTypes, poolVars
  <2>8. \A v \in VCs : occupancyCredits'[v] <= occupancyCredits[v]
    BY <2>3, Types
  <2> QED BY <2>1, <2>2, <2>3, <2>4, <2>6, <2>7, <2>8, QuietStep DEF poolVars
<1>4. CASE UNCHANGED vars
  <2>1. /\ UNCHANGED <<linkVars, outVars, poolVars>>
    BY <1>4 DEF vars
  <2>2. [Link!Next]_(Link!vars)
    BY <2>1 DEF linkVars, Link!vars, Link!turnVars, Link!upVars, Link!flitVars,
                Link!downVars
  <2>3. OutTypes'
    BY <2>1 DEF IInv, OutTypes, outVars, poolVars
  <2>4. UNCHANGED <<occupancyCredits, where, queue>>
    BY <2>1 DEF linkVars
  <2>5. \A v \in VCs : occupancyCredits'[v] <= occupancyCredits[v]
    BY <2>4, Types
  <2> QED BY <2>1, <2>2, <2>3, <2>4, <2>5, QuietStep DEF outVars, poolVars
<1> QED BY <1>1, <1>2, <1>3, <1>4

LEMMA InvStep == IInv /\ [Next]_vars => IInv'
<1> SUFFICES ASSUME IInv, [Next]_vars PROVE IInv'
  OBVIOUS
<1>1. CASE UpdateCredits \/ UpEnd \/ UpIdle \/ DownEnd \/ Tick \/ UNCHANGED vars
  BY <1>1, TurnStep
<1>2. CASE Depart
  BY <1>2, DepartStep
<1>3. ASSUME NEW f \in Flits, NEW v \in VCs, NEW kind \in Kinds, Xbar(f, v, kind)
      PROVE  IInv'
  BY <1>3, XbarStep
<1>4. ASSUME NEW v \in VCs, Extract(v) PROVE IInv'
  BY <1>4, ExtractStep
<1> QED BY <1>1, <1>2, <1>3, <1>4 DEF Next, Turn

LEMMA InvCorrect == Spec => []IInv
  BY InvInit, InvStep, PTL DEF Spec

(* The variables keep their types: among them the pool, which the assertions *)
(* of dynBufInPort.cc:53 and 73 keep within its bounds, and the output       *)
(* buffer, which never holds more than its places.                           *)
THEOREM TypeCorrect == Spec => []TypeOK
  BY InvCorrect, Consequences, PTL

(* The counters of the output buffer are exactly the flits in it.          *)
THEOREM OutCountersCorrect == Spec => []OutCountersExact
<1>1. IInv => OutCountersExact
  BY DEF IInv
<1> QED BY <1>1, InvCorrect, PTL

(* A flit that has crossed has its credit until it departs, also when the  *)
(* channels share a pool, and what is left of the pool is what the flits   *)
(* in the queues leave.                                                    *)
THEOREM CreditsSuffice == Spec => []NeverOvercommitted
  BY InvCorrect, Consequences, PTL

-----------------------------------------------------------------------------
(* Every step of the port is one of the link, or leaves it alone.          *)
LEMMA LinkStep == ASSUME IInv, [Next]_vars PROVE [Link!Next]_(Link!vars)
<1>1. CASE Depart
  <2>1. Head(outQueue) \in OutRecord
    BY <1>1, HeadTailProperties DEF Depart, CanDepart, IInv, OutTypes
  <2>2. Head(outQueue).flit \in Flits /\ Head(outQueue).vc \in VCs
    BY <2>1 DEF OutRecord
  <2>3. Misrouted(Head(outQueue).kind) \in BOOLEAN
    BY DEF Misrouted
  <2>4. Link!Send(Head(outQueue).flit, Head(outQueue).vc, Misrouted(Head(outQueue).kind))
    BY <1>1 DEF Depart
  <2> QED BY <2>2, <2>3, <2>4 DEF Link!Next
<1>2. CASE UpdateCredits \/ UpEnd \/ UpIdle \/ DownEnd \/ Tick
  BY <1>2 DEF UpdateCredits, UpEnd, UpIdle, DownEnd, Tick, Link!Next, Link!Turn
<1>3. CASE UNCHANGED linkVars
  BY <1>3 DEF linkVars, Link!vars, Link!turnVars, Link!upVars, Link!flitVars,
              Link!downVars
<1>4. CASE \E v \in VCs : Extract(v)
  BY <1>4 DEF Extract, Link!Next
<1>5. ASSUME NEW f \in Flits, NEW v \in VCs, NEW kind \in Kinds, Xbar(f, v, kind)
      PROVE  UNCHANGED linkVars
  BY <1>5 DEF Xbar
<1> QED BY <1>1, <1>2, <1>3, <1>4, <1>5 DEF Next, Turn, vars

(* A switch with output buffers drives the link as one without.            *)
THEOREM ImplementsLink == Spec => LinkSpec
<1>1. Init => Link!Init
  BY DEF Init
<1>2. IInv /\ [Next]_vars => [Link!Next]_(Link!vars)
  BY LinkStep
<1> QED BY <1>1, <1>2, InvCorrect, PTL DEF Spec, LinkSpec, Link!Spec

(* What is proved of the link therefore holds behind an output buffer: the *)
(* counters of the sender are the flits that hold a credit, and no input   *)
(* buffer overflows.                                                       *)
THEOREM LinkCorrect == Spec => [](Link!CreditsConserved /\ Link!NoOverflow)
<1>1. Spec => CL!Spec
  <2>1. Init => CL!Init
    BY SameInit DEF Init
  <2>2. IInv /\ [Next]_vars => [CL!Next]_(CL!vars)
    BY LinkStep, SameNext
  <2> QED BY <2>1, <2>2, InvCorrect, PTL DEF Spec, CL!Spec
<1>2. CL!Spec => []CL!CreditsConserved
  BY CL!CreditsCorrect, LinkAssumptions
<1>3. CL!Spec => []CL!NoOverflow
  BY CL!OverflowFree, LinkAssumptions
<1> QED BY <1>1, <1>2, <1>3, SameInvariants, PTL
=============================================================================
