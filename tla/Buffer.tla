------------------------------- MODULE Buffer -------------------------------
(***************************************************************************)
(* One flit buffer of a switch (src/switch/buffer/buffer.cc): a ring of    *)
(* bufferCapacity + 1 slots with an arrival cycle per slot.                *)
(*                                                                         *)
(* Cycles are kept relative to g_internal_cycle: a stored cycle c is       *)
(* represented by c - now, and every comparison of the code with the       *)
(* current cycle becomes a comparison with 0.  A cycle that lies more than *)
(* one flit length in the past is kept at -FlitSize: the code asks no more *)
(* of it than whether it is over and what is left of FlitSize cycles.      *)
(*                                                                         *)
(* The users of the buffer in one cycle: the switch that owns it extracts  *)
(* at most one flit and then reorders the queue once (orderQueues); the    *)
(* upstream switch or the node inserts, before, during or after that.      *)
(***************************************************************************)
EXTENDS Integers, FiniteSets

CONSTANTS
    Flits,          \* flit objects (pointers); NULL is none of them
    NULL,
    Capacity,       \* bufferCapacity, in flits
    Delay,          \* delay of the link that feeds the buffer, in cycles
    FlitSize,       \* g_flit_size: cycles a flit takes on a link
    XbarLength      \* g_flit_size / g_internal_speedup: cycles it takes in the crossbar

ASSUME CapacityAssumption == Capacity \in Nat \ {0}
ASSUME TimeAssumption ==
    /\ Delay \in Nat
    /\ FlitSize \in Nat \ {0}
    /\ XbarLength \in 1..FlitSize
ASSUME NullAssumption == NULL \notin Flits

VARIABLES
    serialised,         \* TRUE: fed by a link, one flit at a time; FALSE: an
                        \* injection buffer, fed a whole packet in one cycle
    bufferContent,      \* slot -> flit or NULL
    bufferEntryCycle,   \* slot -> cycle the flit's first phit arrives, or Empty
    head,               \* slot of the oldest flit
    tail,               \* slot of the next flit to come
    sending,            \* lastExtractCycle + txLength: cycles until a flit may leave
    receiving,          \* lastReceiveCycle - delay: cycles until a flit may come
    extracted,          \* lastExtractCycle is the current cycle
    reordered           \* the owner has reordered the queue in this cycle

vars == <<serialised, bufferContent, bufferEntryCycle, head, tail, sending,
          receiving, extracted, reordered>>

Slots == 0..Capacity

(* Stands for the entry cycle -1 of a free slot: before any cycle in use.  *)
Empty == -(FlitSize + 1)

NextSlot(i) == IF i = Capacity THEN 0 ELSE i + 1

(* (tail - head) modulo the size of the ring, in flits.                    *)
BufferOccupancy == IF tail >= head THEN tail - head
                                   ELSE tail - head + Capacity + 1

(* Faulty: the slot that stays free counts as a place.                     *)
SpaceOneMore == Capacity + 1 - BufferOccupancy

Space == Capacity - BufferOccupancy

EmptyBuffer == ~(bufferEntryCycle[head] # Empty /\ bufferEntryCycle[head] <= 0)

CanSendFlit == sending = 0 /\ bufferEntryCycle[head] <= 0

(* Faulty: the link is free again a cycle too early.                       *)
CanReceiveFlitEarly == receiving <= 1

CanReceiveFlit == receiving = 0

Later(n) == IF n = 0 THEN 0 ELSE n - 1

EntryLater(c) == IF c > -FlitSize THEN c - 1 ELSE c

(* Cycles an extraction keeps the crossbar port: no shorter than what is   *)
(* left of the reception of the flit (cut-through).                        *)
TxLength ==
    LET left == bufferEntryCycle[head] + FlitSize
    IN  IF left > XbarLength THEN left ELSE XbarLength
-----------------------------------------------------------------------------
Init ==
    /\ serialised \in BOOLEAN
    /\ bufferContent = [i \in Slots |-> NULL]
    /\ bufferEntryCycle = [i \in Slots |-> Empty]
    /\ head = 0
    /\ tail = 0
    /\ sending = 0
    /\ receiving = 0
    /\ extracted = FALSE
    /\ reordered = FALSE

(* buffer::insert, called behind a link only when the port can receive.    *)
Insert(f) ==
    /\ \A i \in Slots : bufferContent[i] # f
    /\ Space > 0
    /\ serialised => CanReceiveFlit
    /\ bufferContent' = [bufferContent EXCEPT ![tail] = f]
    /\ bufferEntryCycle' = [bufferEntryCycle EXCEPT ![tail] = Delay]
    /\ tail' = NextSlot(tail)
    /\ receiving' = FlitSize
    /\ UNCHANGED <<serialised, head, sending, extracted, reordered>>

(* buffer::extract, called when portCanSendFlit holds.                     *)
Extract ==
    /\ ~reordered
    /\ ~EmptyBuffer
    /\ CanSendFlit
    /\ bufferContent' = [bufferContent EXCEPT ![head] = NULL]
    /\ bufferEntryCycle' = [bufferEntryCycle EXCEPT ![head] = Empty]
    /\ sending' = TxLength
    /\ extracted' = TRUE
    /\ UNCHANGED <<serialised, head, tail, receiving, reordered>>

(* Faulty: the ring does not wrap around.                                  *)
ReorderWithoutWrap ==
    /\ ~reordered
    /\ head' = IF extracted THEN head + 1 ELSE head
    /\ reordered' = TRUE
    /\ UNCHANGED <<serialised, bufferContent, bufferEntryCycle, tail, sending,
                   receiving, extracted>>

(* Faulty: the ring moves on whether or not the head was extracted.        *)
ReorderAlways ==
    /\ ~reordered
    /\ head' = IF head # tail THEN NextSlot(head) ELSE head
    /\ reordered' = TRUE
    /\ UNCHANGED <<serialised, bufferContent, bufferEntryCycle, tail, sending,
                   receiving, extracted>>

(* buffer::reorderBuffer, the last thing the owner does in its cycle.      *)
ReorderBuffer ==
    /\ ~reordered
    /\ head' = IF extracted THEN NextSlot(head) ELSE head
    /\ reordered' = TRUE
    /\ UNCHANGED <<serialised, bufferContent, bufferEntryCycle, tail, sending,
                   receiving, extracted>>

(* The next cycle.  An idle owner skips its turn, one that extracted does  *)
(* not.                                                                    *)
Tick ==
    /\ extracted => reordered
    /\ bufferEntryCycle' =
         [i \in Slots |-> IF bufferEntryCycle[i] = Empty THEN Empty
                          ELSE EntryLater(bufferEntryCycle[i])]
    /\ sending' = Later(sending)
    /\ receiving' = Later(receiving)
    /\ extracted' = FALSE
    /\ reordered' = FALSE
    /\ UNCHANGED <<serialised, bufferContent, head, tail>>

Next ==
    \/ \E f \in Flits : Insert(f)
    \/ Extract
    \/ ReorderBuffer
    \/ Tick

Spec == Init /\ [][Next]_vars
-----------------------------------------------------------------------------
(* The flit at the head is gone, its slot not given back yet.              *)
Leaving == extracted /\ ~reordered

InRing(i) == IF head <= tail THEN head <= i /\ i < tail
                             ELSE head <= i \/ i < tail

Holds(i) == InRing(i) /\ ~(Leaving /\ i = head)

(* The values each variable may take.                                      *)
TypeOK ==
    /\ serialised \in BOOLEAN
    /\ bufferContent \in [Slots -> Flits \cup {NULL}]
    /\ bufferEntryCycle \in [Slots -> {Empty} \cup (-FlitSize)..Delay]
    /\ head \in Slots
    /\ tail \in Slots
    /\ sending \in 0..FlitSize
    /\ receiving \in 0..FlitSize
    /\ extracted \in BOOLEAN
    /\ reordered \in BOOLEAN

(* The slots from head to tail, and no other, hold a flit and an arrival   *)
(* cycle, except that of a flit extracted in this cycle; in particular     *)
(* reorderBuffer never leaves head on a free slot while flits follow       *)
(* (assert at buffer.cc:89), and insert never overwrites a flit.           *)
RingOK ==
    /\ \A i \in Slots : (bufferContent[i] # NULL) <=> Holds(i)
    /\ \A i \in Slots : (bufferEntryCycle[i] # Empty) <=> Holds(i)
    /\ Leaving => head # tail

(* Flits are queued in the order they arrive, and those of one link arrive *)
(* at least a flit length apart: the receiver is never sent two flits at   *)
(* once.  (An arrival kept at -FlitSize is too old to be compared.)        *)
Arrival ==
    \A i \in Slots :
        LET j == NextSlot(i)
        IN  Holds(i) /\ Holds(j) /\ j # head =>
                /\ bufferEntryCycle[i] <= bufferEntryCycle[j]
                /\ serialised /\ bufferEntryCycle[i] > -FlitSize =>
                       bufferEntryCycle[i] + FlitSize <= bufferEntryCycle[j]

(* The n-th slot from head, and the flits as a sequence.                   *)
SlotAt(n) == IF head + n > Capacity THEN head + n - Capacity - 1 ELSE head + n

Gone == IF Leaving THEN 1 ELSE 0

Queue == [n \in 1..(BufferOccupancy - Gone) |-> bufferContent[SlotAt(n - 1 + Gone)]]

(* The ring is a bounded FIFO queue that gives back a place at reordering. *)
Fifo == INSTANCE BoundedFifo WITH queue <- Queue, leaving <- Leaving
FifoSpec == Fifo!Spec
=============================================================================
