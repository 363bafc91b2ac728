----------------------------- MODULE MCIoqLink -----------------------------
(* Instances of IoqLink for TLC: an output buffer of two places shared by  *)
(* two channels, in front of a link with separate input buffers, or shared *)
(* ones with or without reserved places.                                   *)
EXTENDS IoqLink

Separate == [reserved |-> 2, pool |-> 0]
MCBufferTypes == {Separate, [reserved |-> 0, pool |-> 2], [reserved |-> 1, pool |-> 2]}
SeparateOfOne == {[reserved |-> 1, pool |-> 0]}
=============================================================================
