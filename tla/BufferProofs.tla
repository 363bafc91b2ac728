---------------------------- MODULE BufferProofs ----------------------------
(***************************************************************************)
(* Proofs about Buffer, for every capacity, delay and flit length.         *)
(*                                                                         *)
(* TypeOK and RingOK are inductive together.  Arrival needs to know how    *)
(* much of the newest flit is still to come when the next one is allowed   *)
(* in: LastArrival relates its arrival cycle to receiving.                 *)
(***************************************************************************)
EXTENDS Buffer, Sequences, SequenceTheorems, TLAPS

USE CapacityAssumption, TimeAssumption, NullAssumption

(* The next slot of the ring is a slot, and different slots have different *)
(* next ones.                                                              *)
LEMMA NextSlotType == \A i \in Slots : NextSlot(i) \in Slots
  BY DEF Slots, NextSlot

LEMMA NextSlotInjective ==
  \A i, j \in Slots : NextSlot(i) = NextSlot(j) => i = j
  BY DEF Slots, NextSlot

-----------------------------------------------------------------------------
LEMMA TypeInit == Init => TypeOK
<1> SUFFICES ASSUME Init PROVE TypeOK
  OBVIOUS
<1>1. /\ bufferContent \in [Slots -> Flits \cup {NULL}]
      /\ bufferEntryCycle \in [Slots -> {Empty} \cup (-FlitSize)..Delay]
  BY DEF Init
<1>2. /\ head \in Slots /\ tail \in Slots
      /\ sending \in 0..FlitSize /\ receiving \in 0..FlitSize
  BY DEF Init, Slots
<1> QED BY <1>1, <1>2 DEF Init, TypeOK

LEMMA TypeStep == TypeOK /\ [Next]_vars => TypeOK'
<1> SUFFICES ASSUME TypeOK, [Next]_vars PROVE TypeOK'
  OBVIOUS
<1>1. ASSUME NEW f \in Flits, Insert(f) PROVE TypeOK'
  <2>1. bufferContent' \in [Slots -> Flits \cup {NULL}]
    BY <1>1 DEF Insert, TypeOK
  <2>2. bufferEntryCycle' \in [Slots -> {Empty} \cup (-FlitSize)..Delay]
    <3>1. Delay \in (-FlitSize)..Delay
      OBVIOUS
    <3> QED BY <1>1, <3>1 DEF Insert, TypeOK
  <2>3. tail' \in Slots /\ receiving' \in 0..FlitSize
    BY <1>1, NextSlotType DEF Insert, TypeOK
  <2> QED BY <1>1, <2>1, <2>2, <2>3 DEF Insert, TypeOK
<1>2. ASSUME Extract PROVE TypeOK'
  <2>1. bufferContent' \in [Slots -> Flits \cup {NULL}]
    BY <1>2 DEF Extract, TypeOK
  <2>2. bufferEntryCycle' \in [Slots -> {Empty} \cup (-FlitSize)..Delay]
    BY <1>2 DEF Extract, TypeOK
  <2>3. sending' \in 0..FlitSize
    <3>1. bufferEntryCycle[head] \in (-FlitSize)..Delay
      BY <1>2 DEF Extract, EmptyBuffer, TypeOK
    <3>2. bufferEntryCycle[head] <= 0
      BY <1>2 DEF Extract, CanSendFlit
    <3> QED BY <1>2, <3>1, <3>2 DEF Extract, TxLength
  <2> QED BY <1>2, <2>1, <2>2, <2>3 DEF Extract, TypeOK
<1>3. ASSUME ReorderBuffer PROVE TypeOK'
  BY <1>3, NextSlotType DEF ReorderBuffer, TypeOK
<1>4. ASSUME Tick PROVE TypeOK'
  <2>1. bufferEntryCycle' \in [Slots -> {Empty} \cup (-FlitSize)..Delay]
    <3>1. \A c \in (-FlitSize)..Delay : EntryLater(c) \in (-FlitSize)..Delay
      BY DEF EntryLater
    <3> QED BY <1>4, <3>1 DEF Tick, TypeOK
  <2>2. sending' \in 0..FlitSize /\ receiving' \in 0..FlitSize
    BY <1>4 DEF Tick, TypeOK, Later
  <2> QED BY <1>4, <2>1, <2>2 DEF Tick, TypeOK
<1>5. CASE UNCHANGED vars
  BY <1>5 DEF vars, TypeOK
<1> QED BY <1>1, <1>2, <1>3, <1>4, <1>5 DEF Next

(* The variables of a buffer keep their types.                             *)
THEOREM TypeCorrect == Spec => []TypeOK
  BY TypeInit, TypeStep, PTL DEF Spec

-----------------------------------------------------------------------------
LEMMA RingInit == Init => RingOK
  BY DEF Init, RingOK, Holds, InRing, Leaving, Slots

LEMMA RingStep == TypeOK /\ RingOK /\ [Next]_vars => RingOK'
<1> SUFFICES ASSUME TypeOK, RingOK, [Next]_vars PROVE RingOK'
  OBVIOUS
<1>1. ASSUME NEW f \in Flits, Insert(f) PROVE RingOK'
  <2>1. /\ tail' = NextSlot(tail) /\ NextSlot(tail) # head
        /\ head' = head /\ Leaving' = Leaving
    BY <1>1 DEF Insert, TypeOK, Slots, NextSlot, Space, BufferOccupancy, Leaving
  <2>2. \A i \in Slots : Holds(i)' <=> Holds(i) \/ i = tail
    <3>1. \A i \in Slots : InRing(i)' <=> InRing(i) \/ i = tail
      BY <2>1 DEF InRing, NextSlot, TypeOK, Slots
    <3>2. Leaving => head # tail
      BY DEF RingOK
    <3> QED BY <2>1, <3>1, <3>2 DEF Holds
  <2>3. \A i \in Slots : (bufferContent'[i] # NULL) <=> Holds(i)'
    BY <1>1, <2>2 DEF Insert, TypeOK, RingOK
  <2>4. \A i \in Slots : (bufferEntryCycle'[i] # Empty) <=> Holds(i)'
    BY <1>1, <2>2 DEF Insert, TypeOK, RingOK, Empty
  <2>5. Leaving' => head' # tail'
    BY <2>1
  <2> QED BY <2>3, <2>4, <2>5 DEF RingOK
<1>2. ASSUME Extract PROVE RingOK'
  <2>1. Holds(head)
    BY <1>2 DEF Extract, EmptyBuffer, RingOK, TypeOK
  <2>2. head # tail /\ ~Leaving
    BY <2>1 DEF Holds, InRing, TypeOK, Slots
  <2>3. Leaving' /\ head' = head /\ tail' = tail
    BY <1>2 DEF Extract, Leaving
  <2>4. \A i \in Slots : Holds(i)' <=> Holds(i) /\ i # head
    BY <2>2, <2>3 DEF Holds, InRing
  <2>5. \A i \in Slots : (bufferContent'[i] # NULL) <=> Holds(i)'
    BY <1>2, <2>4 DEF Extract, TypeOK, RingOK
  <2>6. \A i \in Slots : (bufferEntryCycle'[i] # Empty) <=> Holds(i)'
    BY <1>2, <2>4 DEF Extract, TypeOK, RingOK
  <2> QED BY <2>2, <2>3, <2>5, <2>6 DEF RingOK
<1>3. ASSUME ReorderBuffer PROVE RingOK'
  <2>1. ~Leaving' /\ tail' = tail
    BY <1>3 DEF ReorderBuffer, Leaving
  <2>2. \A i \in Slots : Holds(i)' <=> Holds(i)
    <3>1. CASE extracted
      <4>1. Leaving /\ head # tail /\ head' = NextSlot(head)
        BY <1>3, <3>1 DEF ReorderBuffer, Leaving, RingOK
      <4>2. \A i \in Slots : InRing(i)' <=> InRing(i) /\ i # head
        BY <2>1, <4>1 DEF InRing, NextSlot, TypeOK, Slots
      <4> QED BY <2>1, <4>1, <4>2 DEF Holds
    <3>2. CASE ~extracted
      BY <1>3, <2>1, <3>2 DEF ReorderBuffer, Leaving, Holds, InRing
    <3> QED BY <3>1, <3>2
  <2> QED BY <1>3, <2>1, <2>2 DEF ReorderBuffer, RingOK
<1>4. ASSUME Tick PROVE RingOK'
  <2>1. ~Leaving /\ ~Leaving' /\ UNCHANGED <<head, tail, bufferContent>>
    BY <1>4 DEF Tick, Leaving
  <2>2. \A i \in Slots : Holds(i)' <=> Holds(i)
    BY <2>1 DEF Holds, InRing
  <2>3. \A i \in Slots : bufferEntryCycle'[i] = Empty <=> bufferEntryCycle[i] = Empty
    <3>1. \A c \in (-FlitSize)..Delay : EntryLater(c) # Empty
      BY DEF EntryLater, Empty
    <3> QED BY <1>4, <3>1 DEF Tick, TypeOK
  <2> QED BY <2>1, <2>2, <2>3 DEF RingOK
<1>5. CASE UNCHANGED vars
  BY <1>5 DEF vars, RingOK, Holds, InRing, Leaving
<1> QED BY <1>1, <1>2, <1>3, <1>4, <1>5 DEF Next

(* The slots from head to tail hold the flits, and no other slot does: a   *)
(* flit is never overwritten, and reorderBuffer never leaves head on a     *)
(* free slot while flits follow.                                           *)
THEOREM RingCorrect == Spec => []RingOK
<1>1. Init => TypeOK /\ RingOK
  BY TypeInit, RingInit
<1>2. TypeOK /\ RingOK /\ [Next]_vars => (TypeOK /\ RingOK)'
  BY TypeStep, RingStep
<1> QED BY <1>1, <1>2, PTL DEF Spec

-----------------------------------------------------------------------------
(* The newest flit in the ring: what is left of its reception is what      *)
(* receiving counts, and the next one arrives Delay cycles from when it    *)
(* comes.                                                                  *)
LastArrival ==
  \A i \in Slots :
    Holds(i) /\ NextSlot(i) = tail =>
      /\ bufferEntryCycle[i] <= Delay
      /\ serialised => bufferEntryCycle[i] + FlitSize - receiving <= Delay

(* Arrival for two given slots.                                            *)
InOrder(i, j) ==
  /\ bufferEntryCycle[i] <= bufferEntryCycle[j]
  /\ serialised /\ bufferEntryCycle[i] > -FlitSize =>
       bufferEntryCycle[i] + FlitSize <= bufferEntryCycle[j]

LEMMA ArrivalInOrder ==
  Arrival <=> \A i \in Slots : Holds(i) /\ Holds(NextSlot(i))
                                 /\ NextSlot(i) # head => InOrder(i, NextSlot(i))
  BY DEF Arrival, InOrder

ArrivalInv == TypeOK /\ RingOK /\ LastArrival /\ Arrival

LEMMA HeldEntry ==
  ASSUME TypeOK, RingOK, NEW i \in Slots, Holds(i)
  PROVE  bufferEntryCycle[i] \in (-FlitSize)..Delay
  BY DEF TypeOK, RingOK

LEMMA ArrivalInit == Init => LastArrival /\ Arrival
  BY DEF Init, LastArrival, Arrival, Holds, InRing, Slots

LEMMA ArrivalStep == ArrivalInv /\ [Next]_vars => (LastArrival /\ Arrival)'
<1> SUFFICES ASSUME ArrivalInv, [Next]_vars PROVE LastArrival' /\ Arrival'
  OBVIOUS
<1> USE DEF ArrivalInv
<1>1. ASSUME NEW f \in Flits, Insert(f) PROVE LastArrival' /\ Arrival'
  <2>1. /\ tail' = NextSlot(tail) /\ NextSlot(tail) # head
        /\ head' = head /\ Leaving' = Leaving /\ serialised' = serialised
    BY <1>1 DEF Insert, TypeOK, Slots, NextSlot, Space, BufferOccupancy, Leaving
  <2>2. \A i \in Slots : Holds(i)' <=> Holds(i) \/ i = tail
    <3>1. \A i \in Slots : InRing(i)' <=> InRing(i) \/ i = tail
      BY <2>1 DEF InRing, NextSlot, TypeOK, Slots
    <3>2. Leaving => head # tail
      BY DEF RingOK
    <3> QED BY <2>1, <3>1, <3>2 DEF Holds
  <2>3. ~Holds(tail)
    BY DEF Holds, InRing, TypeOK, Slots
  <2>4. /\ bufferEntryCycle'[tail] = Delay
        /\ \A i \in Slots : i # tail => bufferEntryCycle'[i] = bufferEntryCycle[i]
        /\ receiving' = FlitSize
        /\ serialised => receiving = 0
    BY <1>1 DEF Insert, TypeOK, CanReceiveFlit
  <2>5. tail \in Slots
    BY DEF TypeOK
  <2>6. LastArrival'
    <3> SUFFICES ASSUME NEW i \in Slots, NextSlot(i) = NextSlot(tail)
                 PROVE  bufferEntryCycle'[i] = Delay
      BY <2>1, <2>4 DEF LastArrival
    <3> QED BY <2>4, <2>5, NextSlotInjective
  <2>7. Arrival'
    <3> SUFFICES ASSUME NEW i \in Slots, Holds(i)', Holds(NextSlot(i))',
                        NextSlot(i) # head
                 PROVE  InOrder(i, NextSlot(i))'
      BY <2>1 DEF Arrival, InOrder
    <3>1. NextSlot(i) \in Slots
      BY NextSlotType
    <3>2. i # tail
      BY <2>1, <2>2, <2>3, <3>1 DEF Holds, InRing, NextSlot, Slots, TypeOK
    <3>3. Holds(i) /\ bufferEntryCycle'[i] = bufferEntryCycle[i]
      BY <2>2, <2>4, <3>2
    <3>4. CASE NextSlot(i) = tail
      <4>1. bufferEntryCycle[i] \in (-FlitSize)..Delay
        BY <3>3, HeldEntry
      <4>2. serialised => bufferEntryCycle[i] + FlitSize <= Delay
        BY <2>4, <3>3, <3>4, <4>1 DEF LastArrival
      <4> QED BY <2>1, <2>4, <3>3, <3>4, <4>1, <4>2 DEF InOrder
    <3>5. CASE NextSlot(i) # tail
      <4>1. Holds(NextSlot(i))
        BY <2>2, <3>1, <3>5
      <4>2. InOrder(i, NextSlot(i))
        BY <3>3, <4>1, ArrivalInOrder
      <4> QED BY <2>1, <2>4, <3>1, <3>3, <3>5, <4>2 DEF InOrder
    <3> QED BY <3>4, <3>5
  <2> QED BY <2>6, <2>7
<1>2. ASSUME Extract PROVE LastArrival' /\ Arrival'
  <2>1. Holds(head)
    BY <1>2 DEF Extract, EmptyBuffer, RingOK, TypeOK
  <2>2. ~Leaving /\ Leaving' /\ UNCHANGED <<head, tail, receiving, serialised>>
    BY <1>2, <2>1 DEF Extract, Leaving, Holds
  <2>3. \A i \in Slots : Holds(i)' => Holds(i) /\ i # head
    BY <2>2 DEF Holds, InRing
  <2>4. \A i \in Slots : i # head => bufferEntryCycle'[i] = bufferEntryCycle[i]
    BY <1>2 DEF Extract, TypeOK
  <2>5. LastArrival'
    BY <2>2, <2>3, <2>4 DEF LastArrival
  <2>6. Arrival'
    BY <2>2, <2>3, <2>4, NextSlotType DEF Arrival
  <2> QED BY <2>5, <2>6
<1>3. ASSUME ReorderBuffer PROVE LastArrival' /\ Arrival'
  <2>1. /\ ~Leaving' /\ UNCHANGED <<tail, receiving, serialised, bufferEntryCycle>>
        /\ head' = IF extracted THEN NextSlot(head) ELSE head
    BY <1>3 DEF ReorderBuffer, Leaving
  <2>2. \A i \in Slots : Holds(i)' <=> Holds(i)
    <3>1. CASE extracted
      <4>1. Leaving /\ head # tail /\ head' = NextSlot(head)
        BY <1>3, <3>1 DEF ReorderBuffer, Leaving, RingOK
      <4>2. \A i \in Slots : InRing(i)' <=> InRing(i) /\ i # head
        BY <2>1, <4>1 DEF InRing, NextSlot, TypeOK, Slots
      <4> QED BY <2>1, <4>1, <4>2 DEF Holds
    <3>2. CASE ~extracted
      BY <1>3, <2>1, <3>2 DEF ReorderBuffer, Leaving, Holds, InRing
    <3> QED BY <3>1, <3>2
  <2>3. LastArrival'
    BY <2>1, <2>2 DEF LastArrival
  <2>4. \A i \in Slots : Holds(i) /\ Holds(NextSlot(i)) /\ NextSlot(i) # head'
                             => NextSlot(i) # head
    BY <2>1, <1>3 DEF ReorderBuffer, Leaving, Holds
  <2>5. Arrival'
    BY <2>1, <2>2, <2>4, NextSlotType DEF Arrival
  <2> QED BY <2>3, <2>5
<1>4. ASSUME Tick PROVE LastArrival' /\ Arrival'
  <2>1. /\ ~Leaving /\ ~Leaving' /\ UNCHANGED <<head, tail, serialised>>
        /\ receiving' = Later(receiving)
    BY <1>4 DEF Tick, Leaving
  <2>2. \A i \in Slots : Holds(i)' <=> Holds(i)
    BY <2>1 DEF Holds, InRing
  <2>3. \A i \in Slots : Holds(i) =>
           /\ bufferEntryCycle[i] \in (-FlitSize)..Delay
           /\ bufferEntryCycle'[i] = EntryLater(bufferEntryCycle[i])
    BY <1>4, HeldEntry DEF Tick, TypeOK, Empty
  <2>4. LastArrival'
    <3> SUFFICES ASSUME NEW i \in Slots, Holds(i), NextSlot(i) = tail
                 PROVE  /\ bufferEntryCycle'[i] <= Delay
                        /\ serialised => bufferEntryCycle'[i] + FlitSize
                                           - receiving' <= Delay
      BY <2>1, <2>2 DEF LastArrival
    <3>1. serialised => bufferEntryCycle[i] + FlitSize - receiving <= Delay
      BY DEF LastArrival
    <3>2. receiving \in 0..FlitSize
      BY DEF TypeOK
    <3> QED BY <2>1, <2>3, <3>1, <3>2 DEF EntryLater, Later
  <2>5. Arrival'
    <3> SUFFICES ASSUME NEW i \in Slots, Holds(i), Holds(NextSlot(i)),
                        NextSlot(i) # head
                 PROVE  InOrder(i, NextSlot(i))'
      BY <2>1, <2>2, NextSlotType DEF Arrival, InOrder
    <3>1. NextSlot(i) \in Slots
      BY NextSlotType
    <3>2. InOrder(i, NextSlot(i))
      BY ArrivalInOrder
    <3> QED BY <2>1, <2>3, <3>1, <3>2 DEF InOrder, EntryLater
  <2> QED BY <2>4, <2>5
<1>5. CASE UNCHANGED vars
  BY <1>5 DEF vars, LastArrival, Arrival, Holds, InRing, Leaving
<1> QED BY <1>1, <1>2, <1>3, <1>4, <1>5 DEF Next

(* Flits arrive in the order they are queued, and those of one link at     *)
(* least a flit length apart.                                              *)
THEOREM ArrivalCorrect == Spec => []Arrival
<1>1. Init => ArrivalInv
  BY TypeInit, RingInit, ArrivalInit DEF ArrivalInv
<1>2. ArrivalInv /\ [Next]_vars => ArrivalInv'
  BY TypeStep, RingStep, ArrivalStep DEF ArrivalInv
<1>3. ArrivalInv => Arrival
  BY DEF ArrivalInv
<1> QED BY <1>1, <1>2, <1>3, PTL DEF Spec

-----------------------------------------------------------------------------
(* The ring implements a bounded FIFO queue.  First: the places from head  *)
(* on are those of the flits, in order.                                    *)
QueueLength == BufferOccupancy - Gone

LEMMA QueueSlots ==
  ASSUME TypeOK, RingOK
  PROVE  /\ BufferOccupancy \in 0..Capacity
         /\ QueueLength \in 0..Capacity
         /\ \A n \in 1..QueueLength :
              LET i == SlotAt(n - 1 + Gone)
              IN  i \in Slots /\ Holds(i) /\ bufferContent[i] \in Flits
<1>1. BufferOccupancy \in 0..Capacity /\ QueueLength \in 0..Capacity
  BY DEF TypeOK, RingOK, BufferOccupancy, QueueLength, Gone, Slots
<1>2. ASSUME NEW n \in 1..QueueLength
      PROVE  LET i == SlotAt(n - 1 + Gone) IN i \in Slots /\ Holds(i)
  BY <1>1, <1>2 DEF TypeOK, BufferOccupancy, QueueLength, Gone, Slots, SlotAt,
                    Holds, InRing
<1> QED BY <1>1, <1>2 DEF RingOK, TypeOK

QueueIsSeq ==
  /\ Queue \in Seq(Flits)
  /\ Len(Queue) = QueueLength
  /\ \A n \in 1..QueueLength : Queue[n] = bufferContent[SlotAt(n - 1 + Gone)]

LEMMA QueueSeq == TypeOK /\ RingOK => QueueIsSeq
<1> SUFFICES ASSUME TypeOK, RingOK PROVE QueueIsSeq
  OBVIOUS
<1>1. Queue \in [1..QueueLength -> Flits] /\ QueueLength \in Nat
  BY QueueSlots DEF Queue, QueueLength
<1>2. Queue \in Seq(Flits)
  BY <1>1, SeqDef
<1> QED BY <1>1, <1>2, LenProperties DEF QueueIsSeq, Queue, QueueLength

LEMMA FifoInit == Init => Fifo!Init
<1> SUFFICES ASSUME Init PROVE Fifo!Init
  OBVIOUS
<1>1. TypeOK /\ RingOK /\ ~Leaving
  BY TypeInit, RingInit DEF Init, Leaving
<1>2. QueueLength = 0
  <2>1. Gone = 0
    BY <1>1 DEF Gone
  <2>2. BufferOccupancy = 0
    BY DEF Init, BufferOccupancy
  <2> QED BY <2>1, <2>2 DEF QueueLength
<1>3. Queue = <<>>
  BY <1>1, <1>2, QueueSeq, EmptySeq DEF QueueIsSeq
<1> QED BY <1>1, <1>3 DEF Fifo!Init

LEMMA FifoStep ==
  TypeOK /\ RingOK /\ TypeOK' /\ RingOK' /\ [Next]_vars => [Fifo!Next]_(Fifo!vars)
<1> SUFFICES ASSUME TypeOK, RingOK, TypeOK', RingOK', [Next]_vars
             PROVE  [Fifo!Next]_(Fifo!vars)
  OBVIOUS
<1>a. /\ Queue \in Seq(Flits) /\ Len(Queue) = QueueLength
      /\ \A n \in 1..QueueLength : Queue[n] = bufferContent[SlotAt(n - 1 + Gone)]
  BY QueueSeq DEF QueueIsSeq
<1>b. /\ Queue' \in Seq(Flits) /\ Len(Queue') = QueueLength'
      /\ \A n \in 1..QueueLength' :
           Queue'[n] = bufferContent'[SlotAt(n - 1 + Gone)']
  <2>1. QueueIsSeq'
    BY QueueSeq, PTL
  <2> QED BY <2>1 DEF QueueIsSeq
<1>c. \A n \in 1..QueueLength :
        LET i == SlotAt(n - 1 + Gone)
        IN  i \in Slots /\ Holds(i) /\ bufferContent[i] \in Flits
  BY QueueSlots
<1>1. ASSUME NEW f \in Flits, Insert(f) PROVE Fifo!Put(f)
  <2>1. /\ Leaving' = Leaving /\ head' = head /\ Gone' = Gone
        /\ BufferOccupancy' = BufferOccupancy + 1
        /\ BufferOccupancy \in 0..(Capacity - 1)
        /\ SlotAt(BufferOccupancy) = tail
    BY <1>1 DEF Insert, Leaving, Gone, TypeOK, Slots, Space, BufferOccupancy,
                NextSlot, SlotAt
  <2>2. QueueLength' = QueueLength + 1 /\ QueueLength \in Nat
    BY <2>1, QueueSlots DEF QueueLength, Gone
  <2>3. \A n \in 1..QueueLength : Queue'[n] = Queue[n]
    <3> SUFFICES ASSUME NEW n \in 1..QueueLength PROVE Queue'[n] = Queue[n]
      OBVIOUS
    <3>1. SlotAt(n - 1 + Gone)' = SlotAt(n - 1 + Gone)
      BY <2>1 DEF SlotAt
    <3>2. SlotAt(n - 1 + Gone) # tail
      BY <1>c DEF Holds, InRing, TypeOK, Slots
    <3>3. SlotAt(n - 1 + Gone) \in Slots
      BY <1>c
    <3> QED BY <1>1, <1>a, <1>b, <2>2, <3>1, <3>2, <3>3 DEF Insert, TypeOK
  <2>4. Queue'[QueueLength + 1] = f
    <3> SUFFICES ASSUME NEW n \in 1..QueueLength', n = QueueLength + 1
                 PROVE  Queue'[n] = f
      BY <2>2
    <3>1. SlotAt(n - 1 + Gone)' = SlotAt(n - 1 + Gone)
      BY <2>1 DEF SlotAt
    <3>2. n - 1 + Gone = BufferOccupancy
      BY <2>1, <2>2 DEF QueueLength, Gone
    <3>3. SlotAt(n - 1 + Gone)' = tail
      BY <2>1, <3>1, <3>2
    <3>4. Queue'[n] = bufferContent'[SlotAt(n - 1 + Gone)']
      BY <1>b
    <3> QED BY <1>1, <3>3, <3>4 DEF Insert, TypeOK
  <2>5. Queue' = Append(Queue, f)
    <3>1. /\ Append(Queue, f) \in Seq(Flits)
          /\ Len(Append(Queue, f)) = QueueLength + 1
          /\ \A n \in 1..(QueueLength + 1) :
               Append(Queue, f)[n] = IF n = QueueLength + 1 THEN f ELSE Queue[n]
      BY <1>a, <2>2
    <3>2. \A n \in 1..(QueueLength + 1) : Queue'[n] = Append(Queue, f)[n]
      BY <2>2, <2>3, <2>4, <3>1
    <3> QED BY <1>b, <2>2, <3>1, <3>2, SeqEqual
  <2>6. f \notin Fifo!Inside
    BY <1>1, <1>a, <1>c DEF Fifo!Inside, Insert
  <2>7. Fifo!Taken < Capacity
    BY <1>a, <2>1, QueueSlots DEF Fifo!Taken, QueueLength, Gone
  <2> QED BY <2>1, <2>5, <2>6, <2>7 DEF Fifo!Put
<1>2. ASSUME Extract PROVE Fifo!Take
  <2>1. Holds(head)
    BY <1>2 DEF Extract, EmptyBuffer, RingOK, TypeOK
  <2>2. head # tail /\ ~Leaving /\ Leaving'
    BY <1>2, <2>1 DEF Holds, InRing, TypeOK, Slots, Extract, Leaving
  <2>3. /\ Gone = 0 /\ Gone' = 1 /\ head' = head
        /\ BufferOccupancy' = BufferOccupancy /\ BufferOccupancy > 0
    BY <1>2, <2>2 DEF Gone, Extract, BufferOccupancy, TypeOK, Slots
  <2>4. QueueLength' = QueueLength - 1 /\ QueueLength \in Nat \ {0}
    BY <2>3, QueueSlots DEF QueueLength
  <2>5. Queue # <<>>
    BY <1>a, <2>4, EmptySeq
  <2>6. \A n \in 1..(QueueLength - 1) : Queue'[n] = Queue[n + 1]
    <3> SUFFICES ASSUME NEW n \in 1..(QueueLength - 1)
                 PROVE  Queue'[n] = Queue[n + 1]
      OBVIOUS
    <3>1. SlotAt(n - 1 + Gone)' = SlotAt(n) /\ n + 1 - 1 + Gone = n
      BY <2>3, <2>4 DEF SlotAt
    <3>2. SlotAt(n) \in Slots /\ SlotAt(n) # head
      BY <2>4, QueueSlots DEF SlotAt, Slots, TypeOK
    <3>3. Queue[n + 1] = bufferContent[SlotAt(n)]
      BY <1>a, <2>4, <3>1
    <3>4. Queue'[n] = bufferContent'[SlotAt(n)]
      BY <1>b, <2>4, <3>1
    <3> QED BY <1>2, <3>2, <3>3, <3>4 DEF Extract, TypeOK
  <2>7. Queue' = Tail(Queue)
    <3>1. /\ Tail(Queue) \in Seq(Flits) /\ Len(Tail(Queue)) = QueueLength - 1
          /\ \A n \in 1..(QueueLength - 1) : Tail(Queue)[n] = Queue[n + 1]
      BY <1>a, <2>5, HeadTailProperties
    <3> QED BY <1>b, <2>4, <2>6, <3>1, SeqEqual
  <2> QED BY <2>2, <2>5, <2>7 DEF Fifo!Take
<1>3. ASSUME ReorderBuffer PROVE Fifo!Release \/ UNCHANGED Fifo!vars
  <2>1. CASE extracted
    <3>1. /\ Leaving /\ ~Leaving' /\ head # tail
          /\ head' = NextSlot(head) /\ tail' = tail
          /\ bufferContent' = bufferContent
      BY <1>3, <2>1 DEF ReorderBuffer, Leaving, RingOK
    <3>2. /\ Gone = 1 /\ Gone' = 0
          /\ BufferOccupancy' = BufferOccupancy - 1
      BY <3>1 DEF Gone, BufferOccupancy, NextSlot, TypeOK, Slots
    <3>3. QueueLength' = QueueLength /\ QueueLength \in 0..Capacity
      BY <3>2, QueueSlots DEF QueueLength
    <3>4. \A n \in 1..QueueLength : Queue'[n] = Queue[n]
      <4> SUFFICES ASSUME NEW n \in 1..QueueLength PROVE Queue'[n] = Queue[n]
        OBVIOUS
      <4>1. n <= Capacity - 1
        BY <3>2, QueueSlots DEF QueueLength
      <4>2. SlotAt(n - 1 + Gone)' = SlotAt(n - 1 + Gone)
        BY <3>1, <3>2, <3>3, <4>1 DEF SlotAt, NextSlot, TypeOK, Slots
      <4> QED BY <1>a, <1>b, <3>1, <3>3, <4>2
    <3>5. Queue' = Queue
      BY <1>a, <1>b, <3>3, <3>4, SeqEqual
    <3> QED BY <3>1, <3>5 DEF Fifo!Release
  <2>2. CASE ~extracted
    BY <1>3, <2>2 DEF ReorderBuffer, Leaving, Fifo!vars, Queue, BufferOccupancy,
                      Gone, SlotAt
  <2> QED BY <2>1, <2>2
<1>4. ASSUME Tick PROVE UNCHANGED Fifo!vars
  BY <1>4 DEF Tick, Leaving, Fifo!vars, Queue, BufferOccupancy, Gone, SlotAt
<1>5. CASE UNCHANGED vars
  BY <1>5 DEF vars, Leaving, Fifo!vars, Queue, BufferOccupancy, Gone, SlotAt
<1> QED BY <1>1, <1>2, <1>3, <1>4, <1>5 DEF Next, Fifo!Next

(* A buffer is a bounded FIFO queue: flits leave in the order they came,   *)
(* none is lost or duplicated, and a place is taken until the owner has    *)
(* reordered its queue.                                                    *)
THEOREM ImplementsFifo == Spec => FifoSpec
<1>1. Init => TypeOK /\ RingOK
  BY TypeInit, RingInit
<1>2. TypeOK /\ RingOK /\ [Next]_vars => (TypeOK /\ RingOK)'
  BY TypeStep, RingStep
<1>3. TypeOK /\ RingOK /\ (TypeOK /\ RingOK)' /\ [Next]_vars
        => [Fifo!Next]_(Fifo!vars)
  BY FifoStep
<1> QED BY <1>1, <1>2, <1>3, FifoInit, PTL DEF Spec, FifoSpec, Fifo!Spec
=============================================================================
