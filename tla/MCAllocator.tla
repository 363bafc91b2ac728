---------------------------- MODULE MCAllocator ----------------------------
(* Instances of Allocator for TLC.  The passing run has one injection and  *)
(* two transit inputs that compete for two outputs, so that an input has   *)
(* petitions of two channels in the iterations of a cycle and other        *)
(* outputs are served in between; a flit takes one cycle.  The other has   *)
(* an input of two channels that may file petitions in parallel.           *)
EXTENDS Allocator
=============================================================================
