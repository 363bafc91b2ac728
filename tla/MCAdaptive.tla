----------------------------- MODULE MCAdaptive -----------------------------
(***************************************************************************)
(* Four groups of three switches, one node and one global link each.       *)
(***************************************************************************)
EXTENDS Adaptive, TLC

CONSTANTS p1, p2, p3

Base == [routing |-> "ugal", usage |-> "BASE", misrouting |-> "CRG",
         plusL |-> FALSE, valiantType |-> "FULL", valiantDestination |-> "NODE",
         resetVal |-> FALSE, acor |-> "PACKETCGCSRS"]

With(routings, usages, misroutings) ==
    {[Base EXCEPT !.routing = r, !.usage = u, !.misrouting = m] :
        r \in routings, u \in usages, m \in misroutings}

(* The channels are enough for the longest sequence, or to have one to     *)
(* spare.                                                                  *)
MCVariants ==
    With({"ugal", "pbAny", "minCond"}, {"BASE"}, {"CRG"})
      \cup With({"pb"}, {"BASE"}, {"CRG", "RRG"})
      \cup {[v EXCEPT !.valiantDestination = d] :
               v \in With({"obl"}, {"BASE", "FLEXIBLE", "TBFLEX"}, {"CRG", "RRG"}),
               d \in {"GROUP", "NODE"}}
      \cup {[v EXCEPT !.valiantType = t, !.plusL = l] :
               v \in With({"srcAdp"}, {"BASE", "FLEXIBLE", "TBFLEX"}, {"CRG", "RRG"}),
               t \in {"FULL", "SRCEXC"}, l \in BOOLEAN}
      \cup {[v EXCEPT !.resetVal = TRUE] :
               v \in With({"obl", "srcAdp"}, {"BASE"}, {"RRG"})}
      \cup {[v EXCEPT !.acor = a, !.resetVal = TRUE] :
               v \in With({"acor", "pbAcor"}, {"BASE", "FLEXIBLE", "TBFLEX"}, {"CRG"}),
               a \in {"PACKETCGCSRS", "PACKETCGRS", "PACKETCSRS", "SWITCH"}}
      \cup With({"car"}, {"BASE"}, {"CRG", "RRG"})
      \cup {[v EXCEPT !.plusL = l] :
               v \in With({"par"}, {"BASE"}, {"CRG", "MM"})
                        \cup With({"olm"}, {"BASE", "FLEXIBLE", "TBFLEX"},
                                  {"CRG", "MM", "NRG", "RRG"}),
               l \in BOOLEAN}

(* One packet, from a node of a group to any other node.                   *)
MCTraffic == [p \in Packets |-> {<<4, n>> : n \in {3, 5, 0, 6, 7, 8, 11}}]

(* OLM with local misrouting and packets that stay in their group.         *)
OlmVariants == {[v EXCEPT !.plusL = TRUE] : v \in With({"olm"}, {"BASE"}, {"CRG"})}
OlmTraffic == (p1 :> {<<3, 5>>}) @@ (p2 :> {<<4, 3>>}) @@ (p3 :> {<<5, 4>>})
=============================================================================
