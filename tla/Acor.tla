-------------------------------- MODULE Acor --------------------------------
(***************************************************************************)
(* The state a switch keeps for the routings ACOR and PB_ACOR when it is   *)
(* managed by switch (src/switch/switchModule.cc: the constructor, action, *)
(* acorResetSwitchHysteresisStatus, acorIncState, acorDecState): which     *)
(* Valiant nodes are worth using, by the packets that were blocked.        *)
(*                                                                         *)
(* One switch, one step for each cycle in which it acts; while it is idle  *)
(* nothing of this state changes.                                          *)
(***************************************************************************)
EXTENDS Integers, Sequences, SequencesExt

CONSTANTS
    HysteresisCycles,   \* g_acor_hysteresis_cycle_duration_cycles
    IncFirst,           \* g_acor_inc_state_first_th_packets
    IncSecond,          \* g_acor_inc_state_second_th_packets
    DecFirst,           \* g_acor_dec_state_first_th_packets
    DecSecond,          \* g_acor_dec_state_second_th_packets
    MaxBlocked          \* packets blocked in one cycle, at most

(* The thresholds are compared in this way when they are read from the     *)
(* configuration; nothing is asked of IncSecond and DecFirst.              *)
ASSUME AcorAssumption ==
    /\ HysteresisCycles \in Nat \ {0} /\ MaxBlocked \in Nat
    /\ {IncFirst, IncSecond, DecFirst, DecSecond} \subseteq Nat
    /\ IncFirst > DecFirst /\ IncSecond > DecSecond

VARIABLES
    management,     \* g_acor_state_management
    acorSwStatus,   \* 1 CRGLGr, 2 CRGLSw, 3 RRGLSw
    hystCycles,     \* acor_hyst_cycles_counter
    blocked,        \* acor_packets_blocked_counter
    blockedInLast,  \* history: n -> packets blocked in the last n cycles
    statusAgo       \* history: n -> the state after the n-th last cycle

acorVars == <<management, acorSwStatus, hystCycles, blocked, blockedInLast, statusAgo>>

CRGLGr == 1
CRGLSw == 2
RRGLSw == 3
NoStatus == 0

Managements == {"SWITCHCGCSRS", "SWITCHCGRS", "SWITCHCSRS"}

(* The states a management uses, from the one it starts with.              *)
StatusesOf(m) == CASE m = "SWITCHCGCSRS" -> <<CRGLGr, CRGLSw, RRGLSw>>
                   [] m = "SWITCHCGRS" -> <<CRGLGr, RRGLSw>>
                   [] m = "SWITCHCSRS" -> <<CRGLSw, RRGLSw>>

LastStatus == StatusesOf(management)[Len(StatusesOf(management))]
FirstStatus == StatusesOf(management)[1]

(* How far a change of state goes (acorIncState, acorDecState).            *)
Step == IF management = "SWITCHCGRS" THEN 2 ELSE 1

(* acor_inc_state_th_packets and acor_dec_state_th_packets, as the last    *)
(* reset set them: INT_MAX and INT_MIN in the outermost states.            *)
MustRise(s, n) ==
    /\ s # LastStatus
    /\ n >= IF management = "SWITCHCGCSRS" /\ s = CRGLSw THEN IncSecond ELSE IncFirst
MayFall(s, n) ==
    /\ s # FirstStatus
    /\ n <= IF management = "SWITCHCGCSRS" /\ s = RRGLSw THEN DecSecond ELSE DecFirst

AcorInit ==
    /\ management \in Managements
    /\ acorSwStatus = FirstStatus
    /\ hystCycles = HysteresisCycles
    /\ blocked = 0
    /\ blockedInLast = [i \in 0..HysteresisCycles |-> 0]
    /\ statusAgo = [i \in 1..HysteresisCycles |-> NoStatus]

(* Faulty: the hysteresis cycle starts again only when the state changes,  *)
(* and the packets blocked go on counting otherwise.                       *)
ResetsOnChange(over, rises, falls) == rises \/ falls

(* Whether acorResetSwitchHysteresisStatus is called.                      *)
Resets(over, rises, falls) == rises \/ over

(* One cycle: the state first, and then the routing counts the packets     *)
(* that find no credits on their way.                                      *)
AcorAct ==
    LET over == hystCycles = 1
        rises == MustRise(acorSwStatus, blocked)
        falls == over /\ MayFall(acorSwStatus, blocked)
        resets == Resets(over, rises, falls)
    IN  \E n \in 0..MaxBlocked :
            /\ acorSwStatus' = acorSwStatus + (IF rises THEN Step ELSE 0)
                                            - (IF falls THEN Step ELSE 0)
            /\ hystCycles' = IF resets THEN HysteresisCycles ELSE hystCycles - 1
            /\ blocked' = (IF resets THEN 0 ELSE blocked) + n
            /\ blockedInLast' = [i \in 0..HysteresisCycles |->
                   IF i = 0 THEN 0 ELSE blockedInLast[i - 1] + n]
            /\ statusAgo' = [i \in 1..HysteresisCycles |->
                   IF i = 1 THEN acorSwStatus' ELSE statusAgo[i - 1]]
            /\ UNCHANGED management

AcorNext == AcorAct
-----------------------------------------------------------------------------
AcorTypeOK ==
    /\ management \in Managements
    /\ acorSwStatus \in ToSet(StatusesOf(management))
    /\ hystCycles \in 1..HysteresisCycles
    /\ blocked \in 0..(HysteresisCycles * MaxBlocked)
    /\ blockedInLast \in [0..HysteresisCycles -> 0..(HysteresisCycles * MaxBlocked)]
    /\ statusAgo \in [1..HysteresisCycles -> {NoStatus} \cup ToSet(StatusesOf(management))]

(* A switch widens the choice of Valiant nodes only if the threshold of    *)
(* blocked packets was reached within the last hysteresis cycle, and       *)
(* narrows it only after a whole hysteresis cycle in that state with no    *)
(* more blocked packets than the other threshold: a burst long gone widens *)
(* nothing, and two changes back and forth are a hysteresis cycle apart    *)
(* (switchModule.cc:659-668).  The histories know nothing of the counters. *)
AcorHysteresis ==
    [][LET seen == blockedInLast[HysteresisCycles]
       IN  /\ acorSwStatus' > acorSwStatus => MustRise(acorSwStatus, seen)
           /\ acorSwStatus' < acorSwStatus =>
                  /\ \A i \in 1..HysteresisCycles : statusAgo[i] = acorSwStatus
                  /\ MayFall(acorSwStatus, seen)
      ]_acorVars
=============================================================================
