---------------------------- MODULE MCCreditLink ----------------------------
(* Instance of CreditLink for TLC: two channels of two places and three    *)
(* flits, so that a channel fills up while the other one is in use, and a  *)
(* flit, the one before it and a credit are under way at the same time.    *)
EXTENDS CreditLink
=============================================================================
