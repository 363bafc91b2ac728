-------------------------- MODULE CreditLinkProofs --------------------------
(***************************************************************************)
(* Proofs about CreditLink, for every number of flits and channels, every  *)
(* capacity, delay and flit length.                                        *)
(*                                                                         *)
(* The counters of the upstream switch are related to the flits that hold  *)
(* a credit (CreditsConserved); the downstream queues consist of some of   *)
(* these flits, each once (QueueExact); and while a place waits for its    *)
(* queue to be reordered, the credit of the flit that left it is still     *)
(* under way (LeavingCredit).  So a queue and that place together are no   *)
(* more than the credits taken, which is why no buffer overflows.          *)
(***************************************************************************)
EXTENDS CreditLink, FiniteSetTheorems, SequenceTheorems, TLAPS

USE FlitsAssumption, VCsAssumption, CapacityAssumption, TimeAssumption

QueueExact ==
  \A v \in VCs :
    /\ \A i \in 1..Len(queue[v]) :
         where[queue[v][i]] = "buffer" /\ vc[queue[v][i]] = v
    /\ \A i, j \in 1..Len(queue[v]) : queue[v][i] = queue[v][j] => i = j

LeavingCredit ==
  \A v \in VCs :
    leaving[v] => /\ DownTurn
                  /\ \E f \in Flits : where[f] = "credit" /\ vc[f] = v

IInv == TypeOK /\ CreditsConserved /\ QueueExact /\ LeavingCredit

-----------------------------------------------------------------------------
(* Facts about sequences and about the sets of flits.                      *)
LEMMA AppendedElements ==
  ASSUME NEW S, NEW s \in Seq(S), NEW e \in S
  PROVE  /\ Len(Append(s, e)) = Len(s) + 1
         /\ \A i \in 1..(Len(s) + 1) :
              Append(s, e)[i] = IF i = Len(s) + 1 THEN e ELSE s[i]
  BY AppendProperties

LEMMA AnyVCType == AnyVC \in VCs
  BY DEF AnyVC

LEMMA FiniteHolders ==
  \A v \in VCs : /\ IsFiniteSet(Holders(v)) /\ IsFiniteSet(MinHolders(v))
                 /\ Cardinality(Holders(v)) \in Nat
                 /\ Cardinality(MinHolders(v)) \in Nat
                 /\ Cardinality(MinHolders(v)) <= Cardinality(Holders(v))
<1> SUFFICES ASSUME NEW v \in VCs
             PROVE  /\ IsFiniteSet(Holders(v)) /\ IsFiniteSet(MinHolders(v))
                    /\ Cardinality(Holders(v)) \in Nat
                    /\ Cardinality(MinHolders(v)) \in Nat
                    /\ Cardinality(MinHolders(v)) <= Cardinality(Holders(v))
  OBVIOUS
<1>1. Holders(v) \in SUBSET Flits /\ MinHolders(v) \in SUBSET Holders(v)
  BY DEF Holders, MinHolders
<1>2. IsFiniteSet(Holders(v))
  BY <1>1, FS_Subset
<1>3. IsFiniteSet(MinHolders(v))
      /\ Cardinality(MinHolders(v)) <= Cardinality(Holders(v))
  BY <1>1, <1>2, FS_Subset
<1> QED BY <1>2, <1>3, FS_CardinalityType

(* A part of a finite set taken away.                                      *)
LEMMA TakeAway ==
  ASSUME NEW S, IsFiniteSet(S), NEW T \in SUBSET S
  PROVE  /\ IsFiniteSet(T) /\ Cardinality(T) \in Nat
         /\ Cardinality(S) \in Nat
         /\ Cardinality(T) <= Cardinality(S)
         /\ Cardinality(S \ T) = Cardinality(S) - Cardinality(T)
<1>1. S \cap T = T
  OBVIOUS
<1> QED BY <1>1, FS_Subset, FS_Difference, FS_CardinalityType

LEMMA ArrivedHold ==
  \A v \in VCs : /\ Arrived(v) \in SUBSET Holders(v)
                 /\ ArrivedMin(v) \in SUBSET MinHolders(v)
  BY DEF Arrived, ArrivedMin, Holders, MinHolders

(* What UpdateCredits does to the flits that hold a credit.                *)
LEMMA HoldersAfterUpdate ==
  ASSUME TypeOK, UpdateCredits, NEW v \in VCs
  PROVE  /\ Holders(v)' = Holders(v) \ Arrived(v)
         /\ MinHolders(v)' = MinHolders(v) \ ArrivedMin(v)
<1> DEFINE read == UNION {Arrived(w) : w \in VCs}
<1>1. \A f \in Flits : /\ where'[f] = IF f \in read THEN "out" ELSE where[f]
                       /\ vc'[f] = IF f \in read THEN AnyVC ELSE vc[f]
                       /\ prevMisrouted'[f] = (f \notin read /\ prevMisrouted[f])
  BY DEF UpdateCredits
<1>2. \A f \in Flits : f \in read => f \in Arrived(vc[f])
  BY DEF Arrived
<1>3. \A f \in Flits : f \in Arrived(v) => f \in read /\ vc[f] = v
  BY DEF Arrived
<1>4. \A f \in Flits : f \in Holders(v)' <=> f \in Holders(v) /\ f \notin Arrived(v)
  BY <1>1, <1>2, <1>3 DEF Holders
<1>5. \A f \in Flits :
        f \in MinHolders(v)' <=> f \in MinHolders(v) /\ f \notin ArrivedMin(v)
  BY <1>1, <1>2, <1>3, <1>4 DEF MinHolders, ArrivedMin, Holders
<1>6. /\ Holders(v)' \subseteq Flits /\ Holders(v) \subseteq Flits
      /\ MinHolders(v)' \subseteq Flits /\ MinHolders(v) \subseteq Flits
  BY DEF Holders, MinHolders
<1> QED BY <1>4, <1>5, <1>6

-----------------------------------------------------------------------------
LEMMA InvInit == Init => IInv
<1> SUFFICES ASSUME Init PROVE IInv
  OBVIOUS
<1>1. TypeOK
  <2>1. /\ occupancyCredits \in [VCs -> 0..Capacity]
        /\ minOccupancyCredits \in [VCs -> 0..Capacity]
        /\ due \in [Flits -> 0..Delay] /\ sending \in [VCs -> 0..FlitSize]
        /\ receiving \in 0..FlitSize /\ stage \in 1..3
    BY DEF Init
  <2>2. /\ where \in [Flits -> {"out", "buffer", "credit"}]
        /\ vc \in [Flits -> VCs] /\ prevMisrouted \in [Flits -> BOOLEAN]
        /\ queue \in [VCs -> Seq(Flits)] /\ leaving \in [VCs -> BOOLEAN]
    BY AnyVCType, EmptySeq DEF Init
  <2> QED BY <2>1, <2>2 DEF Init, TypeOK
<1>2. CreditsConserved
  <2> SUFFICES ASSUME NEW v \in VCs
               PROVE  /\ occupancyCredits[v] = Cardinality(Holders(v))
                      /\ minOccupancyCredits[v] = Cardinality(MinHolders(v))
    BY DEF CreditsConserved
  <2>1. Holders(v) = {} /\ MinHolders(v) = {}
    BY DEF Init, Holders, MinHolders
  <2> QED BY <2>1, FS_EmptySet DEF Init
<1>3. QueueExact
  BY EmptySeq DEF Init, QueueExact
<1>4. LeavingCredit
  BY DEF Init, LeavingCredit
<1> QED BY <1>1, <1>2, <1>3, <1>4 DEF IInv

(* The flit that is sent holds no credit yet.                              *)
LEMMA HoldersAfterSend ==
  ASSUME TypeOK, NEW f \in Flits, NEW v \in VCs, NEW misrouted \in BOOLEAN,
         Send(f, v, misrouted), NEW w \in VCs
  PROVE  /\ Holders(w)' = IF w = v THEN Holders(w) \cup {f} ELSE Holders(w)
         /\ MinHolders(w)' = IF w = v /\ ~misrouted THEN MinHolders(w) \cup {f}
                                                    ELSE MinHolders(w)
         /\ f \notin Holders(w) /\ f \notin MinHolders(w)
<1>1. where[f] = "out"
  BY DEF Send
<1>2. f \notin Holders(w) /\ f \notin MinHolders(w)
  BY <1>1 DEF Holders, MinHolders
<1>3. \A g \in Flits : /\ where'[g] = IF g = f THEN "buffer" ELSE where[g]
                       /\ vc'[g] = IF g = f THEN v ELSE vc[g]
                       /\ prevMisrouted'[g] = IF g = f THEN misrouted
                                              ELSE prevMisrouted[g]
  BY DEF Send, TypeOK
<1>4. \A g \in Flits : g \in Holders(w)' <=> g \in Holders(w) \/ (g = f /\ w = v)
  BY <1>1, <1>3 DEF Holders
<1>5. \A g \in Flits : g \in MinHolders(w)' <=>
                         g \in MinHolders(w) \/ (g = f /\ w = v /\ ~misrouted)
  BY <1>1, <1>3, <1>4 DEF MinHolders, Holders
<1>6. /\ Holders(w)' \subseteq Flits /\ Holders(w) \subseteq Flits
      /\ MinHolders(w)' \subseteq Flits /\ MinHolders(w) \subseteq Flits
  BY DEF Holders, MinHolders
<1> QED BY <1>2, <1>4, <1>5, <1>6

LEMMA UpdateCreditsStep == IInv /\ UpdateCredits => IInv'
<1> SUFFICES ASSUME IInv, UpdateCredits PROVE IInv'
  OBVIOUS
<1> USE DEF IInv
<1>1. \A v \in VCs :
        /\ occupancyCredits'[v] = Cardinality(Holders(v)')
        /\ minOccupancyCredits'[v] = Cardinality(MinHolders(v)')
        /\ occupancyCredits'[v] \in 0..Capacity
        /\ minOccupancyCredits'[v] \in 0..Capacity
  <2> SUFFICES ASSUME NEW v \in VCs
               PROVE  /\ occupancyCredits'[v] = Cardinality(Holders(v)')
                      /\ minOccupancyCredits'[v] = Cardinality(MinHolders(v)')
                      /\ occupancyCredits'[v] \in 0..Capacity
                      /\ minOccupancyCredits'[v] \in 0..Capacity
    OBVIOUS
  <2>1. /\ Cardinality(Arrived(v)) \in Nat
        /\ Cardinality(Arrived(v)) <= Cardinality(Holders(v))
        /\ Cardinality(Holders(v) \ Arrived(v))
             = Cardinality(Holders(v)) - Cardinality(Arrived(v))
    BY FiniteHolders, ArrivedHold, TakeAway
  <2>2. /\ Cardinality(ArrivedMin(v)) \in Nat
        /\ Cardinality(ArrivedMin(v)) <= Cardinality(MinHolders(v))
        /\ Cardinality(MinHolders(v) \ ArrivedMin(v))
             = Cardinality(MinHolders(v)) - Cardinality(ArrivedMin(v))
    BY FiniteHolders, ArrivedHold, TakeAway
  <2>3. /\ occupancyCredits'[v] = occupancyCredits[v] - Cardinality(Arrived(v))
        /\ minOccupancyCredits'[v]
             = minOccupancyCredits[v] - Cardinality(ArrivedMin(v))
    BY DEF UpdateCredits
  <2>4. /\ occupancyCredits[v] = Cardinality(Holders(v))
        /\ minOccupancyCredits[v] = Cardinality(MinHolders(v))
        /\ occupancyCredits[v] \in 0..Capacity
        /\ minOccupancyCredits[v] \in 0..Capacity
    BY DEF CreditsConserved, TypeOK
  <2>5. /\ Holders(v)' = Holders(v) \ Arrived(v)
        /\ MinHolders(v)' = MinHolders(v) \ ArrivedMin(v)
    BY HoldersAfterUpdate
  <2>6. /\ occupancyCredits'[v] = Cardinality(Holders(v)')
        /\ occupancyCredits'[v] \in 0..Capacity
    BY <2>1, <2>3, <2>4, <2>5
  <2>7. /\ minOccupancyCredits'[v] = Cardinality(MinHolders(v)')
        /\ minOccupancyCredits'[v] \in 0..Capacity
    BY <2>2, <2>3, <2>4, <2>5
  <2> QED BY <2>6, <2>7
<1>2. TypeOK'
  <2>1. /\ occupancyCredits' \in [VCs -> 0..Capacity]
        /\ minOccupancyCredits' \in [VCs -> 0..Capacity]
    BY <1>1 DEF UpdateCredits
  <2>2. /\ where' \in [Flits -> {"out", "buffer", "credit"}]
        /\ vc' \in [Flits -> VCs] /\ prevMisrouted' \in [Flits -> BOOLEAN]
    BY AnyVCType DEF UpdateCredits, TypeOK
  <2> QED BY <2>1, <2>2 DEF UpdateCredits, TypeOK, downVars
<1>3. CreditsConserved'
  BY <1>1 DEF CreditsConserved
<1>4. QueueExact'
  <2>1. queue' = queue /\ \A v \in VCs : queue[v] \in Seq(Flits)
    BY DEF UpdateCredits, downVars, TypeOK
  <2>2. \A f \in Flits : where[f] = "buffer" =>
                           where'[f] = "buffer" /\ vc'[f] = vc[f]
    BY DEF UpdateCredits, Arrived
  <2> QED BY <2>1, <2>2, ElementOfSeq DEF QueueExact
<1>5. LeavingCredit'
  BY DEF LeavingCredit, UpdateCredits, UpTurn, DownTurn, downVars, TypeOK
<1> QED BY <1>2, <1>3, <1>4, <1>5

LEMMA SendStep ==
  ASSUME IInv, NEW f \in Flits, NEW v \in VCs, NEW misrouted \in BOOLEAN,
         Send(f, v, misrouted)
  PROVE  IInv'
<1> USE DEF IInv
<1>1. \A w \in VCs :
        /\ occupancyCredits'[w] = Cardinality(Holders(w)')
        /\ minOccupancyCredits'[w] = Cardinality(MinHolders(w)')
        /\ occupancyCredits'[w] \in 0..Capacity
        /\ minOccupancyCredits'[w] \in 0..Capacity
  <2> SUFFICES ASSUME NEW w \in VCs
               PROVE  /\ occupancyCredits'[w] = Cardinality(Holders(w)')
                      /\ minOccupancyCredits'[w] = Cardinality(MinHolders(w)')
                      /\ occupancyCredits'[w] \in 0..Capacity
                      /\ minOccupancyCredits'[w] \in 0..Capacity
    OBVIOUS
  <2>1. /\ occupancyCredits[w] = Cardinality(Holders(w))
        /\ minOccupancyCredits[w] = Cardinality(MinHolders(w))
        /\ occupancyCredits[w] \in 0..Capacity
        /\ minOccupancyCredits[w] \in 0..Capacity
        /\ minOccupancyCredits[w] <= occupancyCredits[w]
    BY FiniteHolders DEF CreditsConserved, TypeOK
  <2>2. /\ occupancyCredits'[w]
             = IF w = v THEN occupancyCredits[w] + 1 ELSE occupancyCredits[w]
        /\ minOccupancyCredits'[w]
             = IF w = v /\ ~misrouted THEN minOccupancyCredits[w] + 1
                                      ELSE minOccupancyCredits[w]
    BY DEF Send, TypeOK
  <2>3. w = v => occupancyCredits[w] < Capacity
    BY <2>1 DEF Send, Credits
  <2>4. /\ Cardinality(Holders(w)')
             = IF w = v THEN Cardinality(Holders(w)) + 1 ELSE Cardinality(Holders(w))
        /\ Cardinality(MinHolders(w)')
             = IF w = v /\ ~misrouted THEN Cardinality(MinHolders(w)) + 1
                                      ELSE Cardinality(MinHolders(w))
    <3>1. IsFiniteSet(Holders(w)) /\ IsFiniteSet(MinHolders(w))
      BY FiniteHolders
    <3>2. /\ Holders(w)' = IF w = v THEN Holders(w) \cup {f} ELSE Holders(w)
          /\ MinHolders(w)' = IF w = v /\ ~misrouted THEN MinHolders(w) \cup {f}
                                                     ELSE MinHolders(w)
          /\ f \notin Holders(w) /\ f \notin MinHolders(w)
      BY HoldersAfterSend
    <3>3. /\ Cardinality(Holders(w) \cup {f}) = Cardinality(Holders(w)) + 1
          /\ Cardinality(MinHolders(w) \cup {f}) = Cardinality(MinHolders(w)) + 1
      BY <3>1, <3>2, FS_AddElement
    <3> QED BY <3>2, <3>3
  <2> QED BY <2>1, <2>2, <2>3, <2>4
<1>2. TypeOK'
  <2>1. /\ occupancyCredits' \in [VCs -> 0..Capacity]
        /\ minOccupancyCredits' \in [VCs -> 0..Capacity]
    BY <1>1 DEF Send, TypeOK
  <2>2. /\ where' \in [Flits -> {"out", "buffer", "credit"}]
        /\ vc' \in [Flits -> VCs]
    BY DEF Send, TypeOK
  <2>4. prevMisrouted' \in [Flits -> BOOLEAN]
    BY DEF Send, TypeOK
  <2>5. due' \in [Flits -> 0..Delay] /\ receiving' \in 0..FlitSize
    BY DEF Send, TypeOK
  <2>3. queue' \in [VCs -> Seq(Flits)]
    BY DEF Send, TypeOK
  <2>6. UNCHANGED <<upFirst, stage, updated, waiting, leaving, sending>>
    BY DEF Send, turnVars
  <2> QED BY <2>1, <2>2, <2>3, <2>4, <2>5, <2>6 DEF TypeOK
<1>3. CreditsConserved'
  BY <1>1 DEF CreditsConserved
<1>4. QueueExact'
  <2> SUFFICES ASSUME NEW w \in VCs
               PROVE  /\ \A i \in 1..Len(queue'[w]) :
                           where'[queue'[w][i]] = "buffer" /\ vc'[queue'[w][i]] = w
                      /\ \A i, j \in 1..Len(queue'[w]) :
                           queue'[w][i] = queue'[w][j] => i = j
    BY DEF QueueExact
  <2>1. queue[w] \in Seq(Flits) /\ Len(queue[w]) \in Nat
    BY LenProperties DEF TypeOK
  <2>2. \A i \in 1..Len(queue[w]) :
          /\ queue[w][i] \in Flits /\ queue[w][i] # f
          /\ where'[queue[w][i]] = "buffer" /\ vc'[queue[w][i]] = w
    BY <2>1, ElementOfSeq DEF QueueExact, Send, TypeOK
  <2>3. CASE w # v
    <3>1. queue'[w] = queue[w]
      BY <2>3 DEF Send, TypeOK
    <3> QED BY <2>2, <3>1 DEF QueueExact
  <2>4. CASE w = v
    <3>0. queue'[w] = Append(queue[w], f)
      BY <2>4 DEF Send, TypeOK
    <3>1. /\ Len(queue'[w]) = Len(queue[w]) + 1
          /\ \A i \in 1..(Len(queue[w]) + 1) :
               queue'[w][i] = IF i = Len(queue[w]) + 1 THEN f ELSE queue[w][i]
      BY <2>1, <3>0, AppendedElements
    <3>2. where'[f] = "buffer" /\ vc'[f] = w
      BY <2>4 DEF Send, TypeOK
    <3>3. \A i \in 1..Len(queue'[w]) :
            where'[queue'[w][i]] = "buffer" /\ vc'[queue'[w][i]] = w
      BY <2>1, <2>2, <3>1, <3>2
    <3>4. \A i, j \in 1..Len(queue[w]) : queue[w][i] = queue[w][j] => i = j
      BY DEF QueueExact
    <3>5. ASSUME NEW i \in 1..(Len(queue[w]) + 1),
                 NEW j \in 1..(Len(queue[w]) + 1), queue'[w][i] = queue'[w][j]
          PROVE  i = j
      <4>1. CASE i \in 1..Len(queue[w]) /\ j \in 1..Len(queue[w])
        <5>1. queue'[w][i] = queue[w][i] /\ queue'[w][j] = queue[w][j]
          BY <2>1, <3>1, <4>1
        <5> QED BY <3>4, <3>5, <4>1, <5>1
      <4>2. CASE i \in 1..Len(queue[w]) /\ j = Len(queue[w]) + 1
        BY <2>1, <2>2, <3>1, <3>5, <4>2
      <4>3. CASE j \in 1..Len(queue[w]) /\ i = Len(queue[w]) + 1
        BY <2>1, <2>2, <3>1, <3>5, <4>3
      <4> QED BY <2>1, <4>1, <4>2, <4>3
    <3> QED BY <3>1, <3>3, <3>5
  <2> QED BY <2>3, <2>4
<1>5. LeavingCredit'
  BY DEF LeavingCredit, Send, turnVars, UpTurn, DownTurn, TypeOK
<1> QED BY <1>2, <1>3, <1>4, <1>5

LEMMA ExtractStep == ASSUME IInv, NEW v \in VCs, Extract(v) PROVE IInv'
<1> USE DEF IInv
<1> DEFINE f == Head(queue[v])
<1>1. /\ queue[v] \in Seq(Flits) /\ queue[v] # <<>>
      /\ f \in Flits /\ f = queue[v][1] /\ Len(queue[v]) \in Nat \ {0}
  BY HeadTailProperties, EmptySeq DEF Extract, TypeOK
<1>2. where[f] = "buffer" /\ vc[f] = v
  BY <1>1 DEF QueueExact
<1>3. \A g \in Flits : where'[g] = IF g = f THEN "credit" ELSE where[g]
  BY <1>1 DEF Extract, TypeOK
<1>4. TypeOK'
  <2>1. where' \in [Flits -> {"out", "buffer", "credit"}]
    BY <1>1 DEF Extract, TypeOK
  <2>4. due' \in [Flits -> 0..Delay]
    BY <1>1 DEF Extract, TypeOK
  <2>2. queue' \in [VCs -> Seq(Flits)]
    BY <1>1, HeadTailProperties DEF Extract, TypeOK
  <2>3. leaving' \in [VCs -> BOOLEAN]
    BY DEF Extract, TypeOK
  <2>5. sending' \in [VCs -> 0..FlitSize]
    BY DEF Extract, TypeOK
  <2>6. UNCHANGED <<upFirst, stage, updated, waiting, occupancyCredits,
                    minOccupancyCredits, vc, prevMisrouted, receiving>>
    BY DEF Extract, turnVars, upVars
  <2> QED BY <2>1, <2>2, <2>3, <2>4, <2>5, <2>6 DEF TypeOK
<1>5. CreditsConserved'
  <2>1. \A w \in VCs : Holders(w)' = Holders(w) /\ MinHolders(w)' = MinHolders(w)
    BY <1>1, <1>2, <1>3 DEF Holders, MinHolders, Extract
  <2> QED BY <2>1 DEF CreditsConserved, Extract, upVars
<1>6. QueueExact'
  <2> SUFFICES ASSUME NEW w \in VCs
               PROVE  /\ \A i \in 1..Len(queue'[w]) :
                           where'[queue'[w][i]] = "buffer" /\ vc'[queue'[w][i]] = w
                      /\ \A i, j \in 1..Len(queue'[w]) :
                           queue'[w][i] = queue'[w][j] => i = j
    BY DEF QueueExact
  <2>0. vc' = vc
    BY DEF Extract
  <2>1. queue[w] \in Seq(Flits) /\ Len(queue[w]) \in Nat
    BY LenProperties DEF TypeOK
  <2>2. CASE w # v
    <3>1. queue'[w] = queue[w]
      BY <2>2 DEF Extract, TypeOK
    <3>2. \A i \in 1..Len(queue[w]) : queue[w][i] \in Flits /\ queue[w][i] # f
      BY <1>2, <2>1, <2>2, ElementOfSeq DEF QueueExact
    <3> QED BY <1>3, <2>0, <3>1, <3>2 DEF QueueExact
  <2>3. CASE w = v
    <3>1. /\ Len(queue'[w]) = Len(queue[w]) - 1
          /\ \A i \in 1..(Len(queue[w]) - 1) : queue'[w][i] = queue[w][i + 1]
      BY <1>1, <2>3, HeadTailProperties DEF Extract, TypeOK
    <3>2. \A i \in 1..(Len(queue[w]) - 1) :
            queue[w][i + 1] \in Flits /\ queue[w][i + 1] # f
      BY <1>1, <2>1, <2>3, ElementOfSeq DEF QueueExact
    <3> QED BY SMTT(60), <1>3, <2>0, <2>1, <3>1, <3>2 DEF QueueExact
  <2> QED BY <2>2, <2>3
<1>7. LeavingCredit'
  <2>1. /\ DownTurn' /\ vc' = vc /\ where'[f] = "credit"
        /\ \A w \in VCs : w # v => leaving'[w] = leaving[w]
    BY <1>1, <1>3 DEF Extract, DownTurn, turnVars, TypeOK
  <2> QED BY <1>1, <1>2, <1>3, <2>1 DEF LeavingCredit
<1> QED BY <1>4, <1>5, <1>6, <1>7

(* Steps that touch neither the counters nor the flits nor the queues.     *)
LEMMA QuietStep ==
  ASSUME IInv, TypeOK', LeavingCredit',
         UNCHANGED <<occupancyCredits, minOccupancyCredits, where, vc,
                     prevMisrouted, queue>>
  PROVE  IInv'
<1> USE DEF IInv
<1>1. CreditsConserved'
  BY DEF CreditsConserved, Holders, MinHolders
<1>2. QueueExact'
  BY DEF QueueExact
<1> QED BY <1>1, <1>2

LEMMA EndTurnType ==
  ASSUME TypeOK, UpTurn \/ DownTurn, EndTurn
  PROVE  stage' \in 1..3 /\ updated' \in BOOLEAN /\ upFirst' = upFirst
<1>1. stage \in 1..2
  BY DEF UpTurn, DownTurn
<1>2. stage' \in 1..3
  BY <1>1 DEF EndTurn
<1>3. updated' \in BOOLEAN
  BY Zenon DEF EndTurn
<1> QED BY <1>2, <1>3 DEF EndTurn

LEMMA TurnStep ==
  ASSUME IInv, UpEnd \/ UpIdle \/ DownEnd \/ Tick PROVE IInv'
<1> USE DEF IInv
<1>1. CASE UpEnd
  <2>1. TypeOK'
    <3>1. stage' \in 1..3 /\ updated' \in BOOLEAN /\ upFirst' = upFirst
      BY <1>1, EndTurnType DEF UpEnd
    <3> QED BY <1>1, <3>1 DEF UpEnd, TypeOK, flitVars, downVars
  <2>2. LeavingCredit'
    BY <1>1 DEF UpEnd, UpTurn, DownTurn, EndTurn, LeavingCredit, flitVars,
                downVars, TypeOK
  <2> QED BY <1>1, <2>1, <2>2, QuietStep DEF UpEnd, flitVars, downVars
<1>2. CASE UpIdle
  <2>1. TypeOK'
    <3>1. stage' \in 1..3 /\ updated' \in BOOLEAN /\ upFirst' = upFirst
      BY <1>2, EndTurnType DEF UpIdle
    <3> QED BY <1>2, <3>1 DEF UpIdle, TypeOK, upVars, flitVars, downVars
  <2>2. LeavingCredit'
    BY <1>2 DEF UpIdle, UpTurn, DownTurn, EndTurn, LeavingCredit, flitVars,
                downVars, TypeOK
  <2> QED BY <1>2, <2>1, <2>2, QuietStep DEF UpIdle, upVars, flitVars, downVars
<1>3. CASE DownEnd
  <2>1. TypeOK'
    <3>1. stage' \in 1..3 /\ updated' \in BOOLEAN /\ upFirst' = upFirst
      BY <1>3, EndTurnType DEF DownEnd
    <3>2. leaving' \in [VCs -> BOOLEAN]
      BY <1>3 DEF DownEnd
    <3> QED BY <1>3, <3>1, <3>2 DEF DownEnd, TypeOK, upVars, flitVars
  <2>2. LeavingCredit'
    BY <1>3 DEF DownEnd, LeavingCredit
  <2> QED BY <1>3, <2>1, <2>2, QuietStep DEF DownEnd, upVars, flitVars
<1>4. CASE Tick
  <2>1. TypeOK'
    <3>1. due' \in [Flits -> 0..Delay] /\ sending' \in [VCs -> 0..FlitSize]
          /\ receiving' \in 0..FlitSize
      BY SMTT(60), <1>4 DEF Tick, TypeOK, Later
    <3>2. stage' \in 1..3
      BY <1>4 DEF Tick
    <3>3. waiting' \in BOOLEAN
      BY <1>4, Zenon DEF Tick, TypeOK
    <3> QED BY <1>4, <3>1, <3>2, <3>3 DEF Tick, TypeOK
  <2>2. LeavingCredit'
    BY <1>4 DEF Tick, LeavingCredit, DownTurn, TypeOK
  <2> QED BY <1>4, <2>1, <2>2, QuietStep DEF Tick
<1> QED BY <1>1, <1>2, <1>3, <1>4

LEMMA InvStep == IInv /\ [Next]_vars => IInv'
<1> SUFFICES ASSUME IInv, [Next]_vars PROVE IInv'
  OBVIOUS
<1>1. CASE UpdateCredits
  BY <1>1, UpdateCreditsStep
<1>2. CASE UpEnd \/ UpIdle \/ DownEnd \/ Tick
  BY <1>2, TurnStep
<1>3. ASSUME NEW f \in Flits, NEW v \in VCs, NEW misrouted \in BOOLEAN,
             Send(f, v, misrouted)
      PROVE  IInv'
  BY <1>3, SendStep
<1>4. ASSUME NEW v \in VCs, Extract(v) PROVE IInv'
  BY <1>4, ExtractStep
<1>5. CASE UNCHANGED vars
  <2>1. TypeOK'
    BY <1>5 DEF vars, turnVars, upVars, flitVars, downVars, TypeOK, IInv
  <2>2. LeavingCredit'
    BY <1>5 DEF vars, turnVars, flitVars, downVars, LeavingCredit, DownTurn, IInv
  <2> QED BY <1>5, <2>1, <2>2, QuietStep DEF vars, upVars, flitVars, downVars
<1> QED BY <1>1, <1>2, <1>3, <1>4, <1>5 DEF Next, Turn

LEMMA InvCorrect == Spec => []IInv
  BY InvInit, InvStep, PTL DEF Spec

(* The variables of a link keep their types.                               *)
THEOREM TypeCorrect == Spec => []TypeOK
<1>1. IInv => TypeOK
  BY DEF IInv
<1> QED BY <1>1, InvCorrect, PTL

(* The counters of the upstream switch are the flits that hold a credit.   *)
THEOREM CreditsCorrect == Spec => []CreditsConserved
<1>1. IInv => CreditsConserved
  BY DEF IInv
<1> QED BY <1>1, InvCorrect, PTL

-----------------------------------------------------------------------------
(* A queue, and the place of a flit that left it, within the credits taken. *)
LEMMA TakenBound ==
  ASSUME IInv, NEW v \in VCs
  PROVE  /\ Len(queue[v]) \in Nat
         /\ Taken(v) <= occupancyCredits[v]
         /\ occupancyCredits[v] <= Capacity
<1> USE DEF IInv
<1> DEFINE n == Len(queue[v])
           enter == [i \in 1..n |-> queue[v][i]]
<1>1. queue[v] \in Seq(Flits) /\ n \in Nat
  BY LenProperties DEF TypeOK
<1>2. /\ IsFiniteSet(Holders(v))
      /\ Cardinality(Holders(v)) = occupancyCredits[v]
      /\ occupancyCredits[v] \in 0..Capacity
  BY FiniteHolders DEF CreditsConserved, TypeOK
<1>3. \A i \in 1..n : /\ queue[v][i] \in Flits
                      /\ where[queue[v][i]] = "buffer" /\ vc[queue[v][i]] = v
  BY <1>1, ElementOfSeq DEF QueueExact
<1>4. \A i, j \in 1..n : queue[v][i] = queue[v][j] => i = j
  BY DEF QueueExact
<1>5. IsFiniteSet(1..n) /\ Cardinality(1..n) = n
  BY <1>1, FS_Interval
<1>6. CASE ~leaving[v]
  <2>1. enter \in Injection(1..n, Holders(v))
    BY <1>3, <1>4 DEF Holders, Injection, IsInjective
  <2>2. Cardinality(1..n) <= Cardinality(Holders(v))
    BY <1>2, <2>1, FS_Injection
  <2> QED BY <1>1, <1>2, <1>5, <1>6, <2>2 DEF Taken
<1>7. CASE leaving[v]
  <2>1. PICK f \in Flits : where[f] = "credit" /\ vc[f] = v
    BY <1>7 DEF LeavingCredit
  <2>2. f \in Holders(v) /\ \A i \in 1..n : queue[v][i] # f
    BY <1>3, <2>1 DEF Holders
  <2>3. enter \in Injection(1..n, Holders(v) \ {f})
    BY <1>3, <1>4, <2>2 DEF Holders, Injection, IsInjective
  <2>4. /\ IsFiniteSet(Holders(v) \ {f})
        /\ Cardinality(Holders(v) \ {f}) = Cardinality(Holders(v)) - 1
    BY <1>2, <2>2, FS_RemoveElement
  <2>5. Cardinality(1..n) <= Cardinality(Holders(v) \ {f})
    BY <2>3, <2>4, FS_Injection
  <2> QED BY <1>1, <1>2, <1>5, <1>7, <2>4, <2>5 DEF Taken
<1> QED BY <1>1, <1>2, <1>6, <1>7

(* No input buffer overflows although the sender never looks at it: a      *)
(* credit is proof of a free place (assert at buffer.cc:122).              *)
THEOREM OverflowFree == Spec => []NoOverflow
<1>1. IInv => NoOverflow
  <2> SUFFICES ASSUME IInv, NEW v \in VCs
               PROVE  Taken(v) <= Capacity /\ Taken(v) <= occupancyCredits[v]
    BY DEF NoOverflow
  <2>1. Taken(v) \in Nat /\ occupancyCredits[v] \in Nat
    BY SMTT(60), TakenBound DEF IInv, TypeOK, Taken
  <2> QED BY <2>1, TakenBound
<1> QED BY <1>1, InvCorrect, PTL

-----------------------------------------------------------------------------
LEMMA ChannelInit == Init => \A v \in VCs : Channel(v)!Init
  BY DEF Init, Channel!Init

(* Every step of the link is one of its channels, or leaves it alone.      *)
LEMMA ChannelStep ==
  ASSUME IInv, [Next]_vars, NEW v \in VCs
  PROVE  [Channel(v)!Next]_(Channel(v)!vars)
<1> USE DEF IInv
<1>0. /\ queue \in [VCs -> Seq(Flits)] /\ leaving \in [VCs -> BOOLEAN]
      /\ queue[v] \in Seq(Flits)
  BY DEF TypeOK
<1>1. CASE UpdateCredits \/ UpEnd \/ UpIdle \/ Tick \/ UNCHANGED vars
  BY <1>1 DEF UpdateCredits, UpEnd, UpIdle, Tick, vars, downVars, Channel!vars
<1>2. CASE DownEnd
  <2>1. queue' = queue /\ leaving'[v] = FALSE
    BY <1>2 DEF DownEnd
  <2>2. CASE leaving[v]
    BY <2>1, <2>2 DEF Channel!Next, Channel!Release
  <2>3. CASE ~leaving[v]
    BY <1>0, <2>1, <2>3 DEF Channel!vars
  <2> QED BY <2>2, <2>3
<1>3. ASSUME NEW f \in Flits, NEW w \in VCs, NEW misrouted \in BOOLEAN,
             Send(f, w, misrouted)
      PROVE  [Channel(v)!Next]_(Channel(v)!vars)
  <2>1. leaving' = leaving
        /\ queue' = [queue EXCEPT ![w] = Append(@, f)]
    BY <1>3 DEF Send
  <2>2. CASE v # w
    BY <1>0, <2>1, <2>2 DEF Channel!vars
  <2>3. CASE v = w
    <3>1. f \notin Channel(v)!Inside
      BY <1>3 DEF Channel!Inside, QueueExact, Send
    <3>2. Channel(v)!Taken < Capacity
      <4>1. occupancyCredits[v] < Capacity /\ occupancyCredits[v] \in Nat
        BY SMTT(60), <1>3, <2>3 DEF Send, Credits, TypeOK
      <4>2. Len(queue[v]) \in Nat /\ Taken(v) <= occupancyCredits[v]
        BY TakenBound
      <4>3. Channel(v)!Taken = Taken(v)
        BY DEF Channel!Taken, Taken
      <4>4. Taken(v) \in Nat
        BY <1>0, <4>2 DEF Taken
      <4> QED BY <4>1, <4>2, <4>3, <4>4
    <3>3. Channel(v)!Put(f)
      BY <1>0, <2>1, <2>3, <3>1, <3>2 DEF Channel!Put
    <3> QED BY <3>3 DEF Channel!Next
  <2> QED BY <2>2, <2>3
<1>4. ASSUME NEW w \in VCs, Extract(w)
      PROVE  [Channel(v)!Next]_(Channel(v)!vars)
  <2>1. /\ queue[w] # <<>> /\ ~leaving[w]
        /\ queue' = [queue EXCEPT ![w] = Tail(@)]
        /\ leaving' = [leaving EXCEPT ![w] = TRUE]
    BY <1>4 DEF Extract
  <2>2. CASE v # w
    BY <1>0, <2>1, <2>2 DEF Channel!vars
  <2>3. CASE v = w
    BY <1>0, <2>1, <2>3 DEF Channel!Next, Channel!Take
  <2> QED BY <2>2, <2>3
<1> QED BY <1>1, <1>2, <1>3, <1>4 DEF Next, Turn

(* Each channel is a bounded FIFO queue in which the sender finds room.    *)
THEOREM ImplementsChannels == Spec => ChannelSpec
<1>1. IInv /\ [Next]_vars
        => [\A v \in VCs : [Channel(v)!Next]_(Channel(v)!vars)]_vars
  BY ChannelStep
<1> QED BY <1>1, ChannelInit, InvCorrect, PTL DEF Spec, ChannelSpec

-----------------------------------------------------------------------------
(* A flit on its way was sent at least FlitSize - receiving cycles ago.    *)
OnLink ==
  \A f \in Flits : where[f] = "buffer" /\ due[f] > 0
                     => due[f] + FlitSize <= Delay + receiving

LinkInv == TypeOK /\ OnLink /\ LinkSerial

LEMMA LinkStep == TypeOK' /\ LinkInv /\ [Next]_vars => LinkInv'
<1> SUFFICES ASSUME TypeOK', LinkInv, [Next]_vars
             PROVE  OnLink' /\ LinkSerial'
  BY DEF LinkInv
<1>0. /\ Delay \in Nat /\ FlitSize \in Nat \ {0}
      /\ receiving \in Nat /\ due \in [Flits -> 0..Delay]
      /\ \A f \in Flits : due[f] \in 0..Delay
  BY DEF LinkInv, TypeOK
<1> USE DEF LinkInv
<1>1. CASE UpdateCredits \/ UpEnd \/ UpIdle \/ DownEnd \/ UNCHANGED vars
  <2>1. /\ due' = due /\ receiving' = receiving
        /\ \A f \in Flits : where'[f] = "buffer" => where[f] = "buffer"
    BY <1>1 DEF UpdateCredits, UpEnd, UpIdle, DownEnd, vars, flitVars, downVars
  <2> QED BY <2>1 DEF OnLink, LinkSerial
<1>2. CASE Tick
  <2>1. where' = where /\ receiving' = Later(receiving)
        /\ \A f \in Flits : due'[f] = Later(due[f])
    BY <1>2 DEF Tick
  <2>2. OnLink'
    BY <1>0, <2>1 DEF OnLink, Later
  <2>3. LinkSerial'
    BY <1>0, <2>1 DEF LinkSerial, Later
  <2> QED BY <2>2, <2>3
<1>3. ASSUME NEW f \in Flits, NEW v \in VCs, NEW misrouted \in BOOLEAN,
             Send(f, v, misrouted)
      PROVE  OnLink' /\ LinkSerial'
  <2>1. /\ receiving = 0 /\ receiving' = FlitSize
        /\ \A g \in Flits : /\ due'[g] = IF g = f THEN Delay ELSE due[g]
                            /\ g # f => where'[g] = where[g]
    BY <1>0, <1>3 DEF Send, LinkIdle, TypeOK
  <2>2. OnLink'
    BY <1>0, <2>1 DEF OnLink
  <2>3. \A g \in Flits : where[g] = "buffer" /\ due[g] > 0
                           => due[g] + FlitSize <= Delay
    BY <1>0, <2>1 DEF OnLink
  <2>4. LinkSerial'
    BY <1>0, <2>1, <2>3 DEF LinkSerial
  <2> QED BY <2>2, <2>4
<1>4. ASSUME NEW v \in VCs, Extract(v) PROVE OnLink' /\ LinkSerial'
  <2>1. /\ receiving' = receiving
        /\ \A g \in Flits : where'[g] = "buffer" =>
                               where[g] = "buffer" /\ due'[g] = due[g]
    BY <1>4 DEF Extract, TypeOK
  <2> QED BY <2>1 DEF OnLink, LinkSerial
<1> QED BY <1>1, <1>2, <1>3, <1>4 DEF Next, Turn

(* One flit at a time on the link: arrivals are a flit length apart.       *)
THEOREM LinkCorrect == Spec => []LinkSerial
<1>1. Init => OnLink /\ LinkSerial
  BY DEF Init, OnLink, LinkSerial
<1>2. LinkInv => LinkSerial
  BY DEF LinkInv
<1>3. TypeOK /\ OnLink /\ LinkSerial => LinkInv
  BY DEF LinkInv
<1> QED BY <1>1, <1>2, <1>3, TypeCorrect, LinkStep, PTL DEF Spec
=============================================================================
