----------------------------- MODULE GroupTurns -----------------------------
(***************************************************************************)
(* The cycles of the main loop (src/dgflySimulator.cc, action) as seen by  *)
(* the switches of one group: in a cycle each switch has one turn, in the  *)
(* order of the labels; it acts if it has a message in its queues and is   *)
(* passed over, idle, if it has none.                                      *)
(***************************************************************************)
EXTENDS Integers, Sequences, FiniteSetsExt

CONSTANTS
    A,          \* g_a_routers_per_group
    MaxCycle,   \* the simulation ends with this cycle (g_max_cycles)
    LocalDelay  \* g_local_link_transmission_delay, of the notifications too

ASSUME TurnsAssumption ==
    /\ A \in Nat \ {0}
    /\ MaxCycle \in Nat
    /\ LocalDelay \in Nat

VARIABLES
    cycle,      \* g_cycle; a switch without output queues has no other clock
    turn        \* the switch of the group whose turn it is

turnVars == <<cycle, turn>>

Routers == 0..(A - 1)
Others(s) == Routers \ {s}

TurnsInit == cycle = 0 /\ turn = 0

(* The turn of s, after which it is that of the next switch.               *)
TurnOf(s) ==
    /\ turn = s
    /\ cycle < MaxCycle
    /\ turn' = IF s = A - 1 THEN 0 ELSE s + 1
    /\ cycle' = IF s = A - 1 THEN cycle + 1 ELSE cycle

(* Faulty: one notification is read in a turn.                             *)
DueOne(q) ==
    IF q # <<>> /\ q[1].arrival <= cycle THEN <<q[1]>> ELSE <<>>

(* The notifications of q that have arrived: the queue is read from its    *)
(* head as long as the head is due.                                        *)
Due(q) ==
    LET late == {i \in 1..Len(q) : q[i].arrival > cycle}
    IN  IF late = {} THEN q
        ELSE SubSeq(q, 1, Min(late) - 1)

NotDue(q) == SubSeq(q, Len(Due(q)) + 1, Len(q))

(* The places of the notifications of t in q.                              *)
FromAt(q, t) == {i \in 1..Len(q) : q[i].from = t}

(* What a switch that holds view holds once it has read q, the oldest      *)
(* first: of each switch what that one told last, if it told anything.     *)
AfterReading(q, view) ==
    [t \in Routers |-> IF FromAt(q, t) = {} THEN view[t]
                       ELSE q[Max(FromAt(q, t))].info]
=============================================================================
