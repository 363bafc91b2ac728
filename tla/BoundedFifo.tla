---------------------------- MODULE BoundedFifo ----------------------------
(***************************************************************************)
(* What an input or output queue of a fogsim switch promises to the ports  *)
(* around it: flits leave in the order they came, none is lost or          *)
(* duplicated, and no more than Capacity places are ever taken.  The place *)
(* of a flit that leaves is given back later than the flit itself, when    *)
(* the switch reorders its queues at the end of its cycle.                 *)
(*                                                                         *)
(* Buffer implements this specification with a ring of Capacity + 1 slots; *)
(* CreditLink and IoqLink show that credits alone keep every Put enabled.  *)
(***************************************************************************)
EXTENDS Naturals, Sequences

CONSTANTS
    Flits,      \* the flits that may enter
    Capacity    \* places, in flits

VARIABLES
    queue,      \* the flits inside, oldest first
    leaving     \* a flit has left and its place is not given back yet

vars == <<queue, leaving>>

Inside == {queue[i] : i \in 1..Len(queue)}

Init ==
    /\ queue = <<>>
    /\ leaving = FALSE

Taken == Len(queue) + (IF leaving THEN 1 ELSE 0)

Put(f) ==
    /\ f \notin Inside
    /\ Taken < Capacity
    /\ queue' = Append(queue, f)
    /\ UNCHANGED leaving

Take ==
    /\ queue # <<>>
    /\ ~leaving
    /\ queue' = Tail(queue)
    /\ leaving' = TRUE

Release ==
    /\ leaving
    /\ leaving' = FALSE
    /\ UNCHANGED queue

Next ==
    \/ \E f \in Flits : Put(f)
    \/ Take
    \/ Release

Spec == Init /\ [][Next]_vars
=============================================================================
