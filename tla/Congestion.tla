----------------------------- MODULE Congestion -----------------------------
(***************************************************************************)
(* What a switch knows about congestion, for the routing and the           *)
(* congestion management that a configuration chooses: a configuration has *)
(* one of the mechanisms, and the state of the others stays as it is       *)
(* created (the calls in action of src/switch/switchModule.cc).            *)
(***************************************************************************)
EXTENDS Piggyback, Acor, Contention, Qcn

VARIABLE mechanism

vars == <<mechanism, turnVars, pbVars, acorVars, caVars, qcnVars>>

Mechanisms == {"piggyback", "acor", "contention", "qcn"}

(* The choices of a mechanism that is not used are left at one of their    *)
(* values.                                                                 *)
Init ==
    /\ mechanism \in Mechanisms
    /\ TurnsInit /\ PbInit /\ AcorInit /\ CaInit /\ QcnInit
    /\ mechanism # "piggyback" => detection = "PER_PORT" /\ loop = "synthetic"
    /\ mechanism # "acor" => management = "SWITCHCSRS"
    /\ mechanism # "contention" => atHeader /\ ~loopOfTraces
    /\ mechanism # "qcn" => <<implementation, policy>> = CHOOSE c \in QcnConfigs : TRUE

Next ==
    /\ UNCHANGED mechanism
    /\ \/ mechanism = "piggyback" /\ PbNext /\ UNCHANGED <<acorVars, caVars, qcnVars>>
       \/ mechanism = "acor" /\ AcorNext /\ UNCHANGED <<turnVars, pbVars, caVars, qcnVars>>
       \/ mechanism = "contention" /\ CaNext /\ UNCHANGED <<pbVars, acorVars, qcnVars>>
       \/ mechanism = "qcn" /\ QcnNext /\ UNCHANGED <<turnVars, pbVars, acorVars, caVars>>

Spec == Init /\ [][Next]_vars

TypeOK ==
    /\ mechanism \in Mechanisms
    /\ cycle \in 0..MaxCycle /\ turn \in Routers
    /\ PbTypeOK /\ AcorTypeOK /\ CaTypeOK /\ QcnTypeOK
=============================================================================
