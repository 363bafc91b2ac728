--------------------------------- MODULE Qcn ---------------------------------
(***************************************************************************)
(* Quantised congestion notification in the switches (the QCNSW parts of   *)
(* src/switch/switchModule.cc: qcnOccupancySampling, insertFlit, action,   *)
(* qcnMinProbabilityDecrease, qcnFeedbackComparison).  A switch samples the *)
(* occupancy of its input ports and notifies (CNM) the sources of flits it *)
(* finds there; a notification lowers the probability of minimal routing   *)
(* through a port of the switch that receives it, and the flits sent raise *)
(* it again.                                                               *)
(*                                                                         *)
(* One switch; a probability is counted in steps up to MaxProb for 100 %   *)
(* and rounded down to a step.                                             *)
(***************************************************************************)
EXTENDS Integers, FiniteSetsExt

CONSTANTS
    QcnConfigs,         \* <<implementation, policy>> of the configurations
    QcnPorts,           \* local and global ports of the switch
    FlitPhits,          \* g_flit_size
    QueueLength,        \* capacity of a port, in flits
    SamplingInterval,   \* g_qcn_cp_sampling_interval
    BcLimit,            \* g_qcn_bc_limit, in phits
    QEq, QW,            \* g_qcn_q_eq, g_qcn_w
    FbLevels,           \* 63: the feedback has six bits
    MaxShort,           \* largest value of the short the feedback is computed in
    MaxProb, MinRate,   \* 100 % and g_qcn_min_rate, in steps
    RAi,                \* g_qcn_r_ai, in steps or as a factor
    GdInverse,          \* 1 / g_qcn_gd
    Th1, Th2,           \* g_qcn_th1, g_qcn_th2
    MaxMoves            \* bound: flits that leave a port, or are sent, in a cycle

(* The implementations are those that sample the input ports.              *)
(* A factor RAi below 1 would lower the probability below its least value; *)
(* a feedback of GdInverse or more fails an assertion.                     *)
ASSUME QcnAssumption ==
    /\ {FlitPhits, QueueLength, SamplingInterval, BcLimit, QEq, FbLevels, RAi}
           \subseteq Nat \ {0}
    /\ {QW, MaxShort, Th1, Th2, MaxMoves} \subseteq Nat
    /\ IsFiniteSet(QcnPorts)
    /\ MaxProb \in Nat /\ MinRate \in 0..MaxProb
    /\ QcnConfigs \subseteq {"BASE", "SELF", "FBCOMP", "COMPLETE"}
                        \X {"AIMD", "AIAD", "MIMD", "MIAD"}
    /\ GdInverse \in Nat /\ GdInverse > FbLevels

VARIABLES
    implementation,         \* g_qcn_implementation
    policy,                 \* g_qcn_policy
    qlen,                   \* port -> flits in its queues, those of CNMs apart
    qcnCpSamplingCounter,
    qcnQlenOld,             \* port -> phits at the last sample
    portEnrouteMinProb,
    qcnRpTxBCount,
    qcnPortFb,              \* port -> feedback received last
    unsampled               \* history: port -> cycles it held flits since it was
                            \* sampled or was empty last

qcnVars == <<implementation, policy, qlen, qcnCpSamplingCounter, qcnQlenOld,
             portEnrouteMinProb, qcnRpTxBCount, qcnPortFb, unsampled>>

Compares == {"FBCOMP", "COMPLETE"}
TellsItself == {"SELF", "COMPLETE"}

AtMost(x, y) == IF x > y THEN y ELSE x
AtLeast(x, y) == IF x < y THEN y ELSE x

(* A value stored in a short.                                              *)
ToShort(x) == ((x + MaxShort + 1) % (2 * (MaxShort + 1))) - (MaxShort + 1)

(* The feedback of a port with now phits that had old phits.               *)
Feedback(now, old) ==
    LET maxQcnFb == QEq * (2 * QW + 1)
        fb == ToShort((now - QEq) + QW * (now - old))
    IN  (AtLeast(IF fb > maxQcnFb THEN ToShort(maxQcnFb) ELSE fb, 0) * FbLevels)
            \div maxQcnFb

Increased(r) == AtMost(IF policy \in {"AIMD", "AIAD"} THEN r + RAi ELSE r * RAi, MaxProb)

(* Faulty: the least probability is forgotten.                             *)
DecreasedToAny(r, fb) ==
    IF policy \in {"AIMD", "MIMD"} THEN (r * (GdInverse - fb)) \div GdInverse ELSE r - fb

Decreased(r, fb) ==
    AtLeast(IF policy \in {"AIMD", "MIMD"} THEN (r * (GdInverse - fb)) \div GdInverse
            ELSE r - fb, MinRate)

(* qcnFeedbackComparison: the probability of port p after a notification   *)
(* with feedback f, by the average of the feedback of all ports.           *)
Compared(r, p, f) ==
    LET mean == MapThenSumSet(LAMBDA x : IF x = p THEN f ELSE qcnPortFb[x], QcnPorts)
                    \div Cardinality(QcnPorts)
    IN  CASE f <= mean + Th1 -> Increased(r)
          [] f > mean + Th1 /\ f > mean + Th2 -> Decreased(r, f - mean)
          [] OTHER -> r

QcnInit ==
    /\ \E c \in QcnConfigs : implementation = c[1] /\ policy = c[2]
    /\ qlen = [p \in QcnPorts |-> 0]
    /\ qcnCpSamplingCounter = [p \in QcnPorts |-> SamplingInterval]
    /\ qcnQlenOld = [p \in QcnPorts |-> 0]
    /\ portEnrouteMinProb = [p \in QcnPorts |-> MaxProb]
    /\ qcnRpTxBCount = [p \in QcnPorts |-> BcLimit]
    /\ qcnPortFb = [p \in QcnPorts |-> 0]
    /\ unsampled = [p \in QcnPorts |-> 0]

(* A flit comes into the port: insertFlit counts it for the sampling.      *)
QcnInsert(p) ==
    /\ qlen[p] < QueueLength
    /\ qlen' = [qlen EXCEPT ![p] = @ + 1]
    /\ qcnCpSamplingCounter' = [qcnCpSamplingCounter EXCEPT ![p] = AtLeast(@ - 1, 0)]
    /\ UNCHANGED <<implementation, policy, qcnQlenOld, portEnrouteMinProb,
                   qcnRpTxBCount, qcnPortFb, unsampled>>

(* Faulty: only the flits that come in are counted, not the cycles.        *)
CountArrivals(c) == c

(* The counter of an empty port counts on below 0; here it stays at 0.     *)
CountCycle(c) == AtLeast(c - 1, 0)

(* The sampling is due and the port has flits: nothing is sampled, and the *)
(* counter is not set, while it is empty.                                  *)
Samples(p) == CountCycle(qcnCpSamplingCounter[p]) <= 0 /\ qlen[p] > 0

FeedbackOf(p) == Feedback(FlitPhits * qlen[p], qcnQlenOld[p])

(* The ports whose sample is worth a notification, each with the minimal   *)
(* output port of its culprit flit if the switch notifies itself too, or   *)
(* with none: some notifications are left out, and so are flits bound for  *)
(* the group of the switch.                                                *)
Culprits ==
    [{p \in QcnPorts : Samples(p) /\ FeedbackOf(p) > 0} ->
        IF implementation \in TellsItself THEN {{}} \cup {{o} : o \in QcnPorts}
        ELSE {{}}]

(* The probability of port o once the switch has notified itself.          *)
Told(o, culprit) ==
    FoldSet(LAMBDA p, r : Decreased(r, FeedbackOf(p)), portEnrouteMinProb[o],
            {p \in DOMAIN culprit : o \in culprit[p]})

(* A cycle in which the switch acts.  The ports are sampled, and a switch  *)
(* that notifies itself too lowers the port its culprit flit would take;   *)
(* the ports whose flits have used up the limit are raised; then flits     *)
(* leave, the notification that is consumed, if there is one, before those *)
(* that are sent, since the ports of the nodes are served first.           *)
QcnAct ==
    \E leaving \in SUBSET {p \in QcnPorts : qlen[p] > 0}, sent \in SUBSET QcnPorts,
       cnm \in SUBSET QcnPorts, f \in {1, FbLevels}, culprit \in Culprits :
        LET raised(o) == IF qcnRpTxBCount[o] <= 0 THEN Increased(Told(o, culprit))
                         ELSE Told(o, culprit)
        IN  /\ Cardinality(leaving) <= MaxMoves
            /\ Cardinality(sent \cup cnm) <= MaxMoves
            /\ Cardinality(cnm) <= 1 /\ (cnm = {} => f = 1)
            /\ qcnQlenOld' = [p \in QcnPorts |->
                   IF Samples(p) THEN FlitPhits * qlen[p] ELSE qcnQlenOld[p]]
            /\ qcnCpSamplingCounter' = [p \in QcnPorts |->
                   IF Samples(p) THEN SamplingInterval
                   ELSE CountCycle(qcnCpSamplingCounter[p])]
            /\ unsampled' = [p \in QcnPorts |->
                   IF Samples(p) \/ qlen[p] = 0 THEN 0 ELSE unsampled[p] + 1]
            /\ portEnrouteMinProb' = [o \in QcnPorts |->
                   CASE o \notin cnm -> raised(o)
                     [] o \in cnm /\ implementation \in Compares -> Compared(raised(o), o, f)
                     [] OTHER -> Decreased(raised(o), f)]
            /\ qcnPortFb' = [o \in QcnPorts |->
                   IF o \in cnm /\ implementation \in Compares THEN f ELSE qcnPortFb[o]]
            /\ qcnRpTxBCount' = [o \in QcnPorts |->
                   (IF qcnRpTxBCount[o] <= 0 \/ o \in cnm THEN BcLimit
                    ELSE qcnRpTxBCount[o]) - (IF o \in sent THEN FlitPhits ELSE 0)]
            /\ qlen' = [p \in QcnPorts |-> IF p \in leaving THEN qlen[p] - 1 ELSE qlen[p]]
            /\ UNCHANGED <<implementation, policy>>

QcnNext == QcnAct \/ \E p \in QcnPorts : QcnInsert(p)
-----------------------------------------------------------------------------
QcnTypeOK ==
    /\ <<implementation, policy>> \in QcnConfigs
    /\ qlen \in [QcnPorts -> 0..QueueLength]
    /\ qcnCpSamplingCounter \in [QcnPorts -> 0..SamplingInterval]
    /\ qcnRpTxBCount \in [QcnPorts -> (1 - FlitPhits)..BcLimit]
    /\ unsampled \in [QcnPorts -> Nat]
    /\ qcnQlenOld \in [QcnPorts -> 0..(FlitPhits * QueueLength)]
    /\ portEnrouteMinProb \in [QcnPorts -> MinRate..MaxProb]
    /\ qcnPortFb \in [QcnPorts -> 0..FbLevels]

(* A port that holds flits is sampled within an interval: the counter that *)
(* ran out while the port was empty, and was not set then, samples the     *)
(* first flit that comes, and a port does not wait for arrivals            *)
(* (switchModule.cc:496, :691, :1530-1575).                                *)
QcnSampledInTime == \A p \in QcnPorts : unsampled[p] < SamplingInterval
=============================================================================
