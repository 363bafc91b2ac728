------------------------------ MODULE MCBuffer ------------------------------
(* Instance of Buffer for TLC: a ring of three places and four flits, so   *)
(* that it wraps around and fills up, and a link delay as long as a flit,  *)
(* so that several flits are still arriving when the first one leaves.     *)
EXTENDS Buffer
=============================================================================
