---------------------------- MODULE MCCongestion ----------------------------
(***************************************************************************)
(* Small instances of the congestion mechanisms.                           *)
(***************************************************************************)
EXTENDS Congestion

(* Flits to another group by the local link or by a global link of the     *)
(* switch, and to a node of the switch; one of the two switches has only   *)
(* its nodes' traffic to the other group.                                  *)
MCMinPort == [far |-> "local", near |-> "global", here |-> "node"]
MCDestGroup == [far |-> "other", near |-> "other", here |-> "this"]
MCDests == DOMAIN MCMinPort
MCInDelay == [injection |-> 0, local |-> 1]
MCArrivals == ({0} \X {"injection"} \X {"far", "near"})
                \cup ({0} \X {"local"} \X {"near", "here"})
                \cup {<<1, "injection", "far">>}

MCQcnConfigs == {<<"BASE", "AIMD">>, <<"SELF", "AIAD">>, <<"FBCOMP", "MIMD">>,
                 <<"COMPLETE", "MIAD">>}
=============================================================================
