------------------------------ MODULE Piggyback ------------------------------
(***************************************************************************)
(* Piggyback congestion information (src/pbState.cc, src/flit/pbFlit.cc,   *)
(* updatePb and updateReadPb of src/switch/switchModule.cc): a switch      *)
(* marks its global links as congested by the occupancy of their queues    *)
(* and tells the switches of its group, which route by what they were told.*)
(*                                                                         *)
(* The global links of a group are numbered by switch: link <<t, l>> is    *)
(* the l-th one of switch t (port2groupGlobalLinkID).  One class of        *)
(* service.                                                                *)
(***************************************************************************)
EXTENDS GroupTurns

CONSTANTS
    H,                  \* g_h_global_ports_per_router
    GlobalChannels,     \* g_global_link_channels
    PiggybackCoef,      \* g_piggyback_coef, in percent
    GlobalThreshold,    \* g_ugal_global_threshold * g_flit_size
    Occupancies         \* occupancies of a queue the credits can show, in phits

ASSUME PiggybackAssumption ==
    /\ H \in Nat \ {0} /\ GlobalChannels \in Nat \ {0}
    /\ PiggybackCoef \in Nat \ {0} /\ GlobalThreshold \in Nat
    /\ Occupancies \subseteq Nat /\ 0 \in Occupancies

VARIABLES
    detection,              \* g_congestion_detection
    loop,                   \* the main loop that runs: "synthetic" or "trace"
    occupancy,              \* s, l, c -> phits of channel c of link <<s, l>> not yet credited
    m_globalLinkCongested,  \* s, t, l, c -> what s holds of link <<t, l>>
    incomingPb              \* s -> notifications sent to it, in order

pbVars == <<detection, loop, occupancy, m_globalLinkCongested, incomingPb>>

Links == 0..(H - 1)
Chans == 0..(GlobalChannels - 1)
LinkInfo == [Links -> [Chans -> BOOLEAN]]
PbFlit == [from : Routers, info : LinkInfo, arrival : Nat]
Clear == [l \in Links |-> [c \in Chans |-> FALSE]]

(* The thresholds are held in an int: coefficient times mean occupancy is  *)
(* cut down to whole phits.                                                *)
PortThreshold(occ) ==
    (PiggybackCoef * MapThenSumSet(LAMBDA q : occ[q[1]][q[2]], Links \X Chans))
        \div (100 * H * GlobalChannels) + GlobalThreshold
ChannelThreshold(occ, c) ==
    (PiggybackCoef * MapThenSumSet(LAMBDA l : occ[l][c], Links)) \div (100 * H)
        + GlobalThreshold

(* The information a switch updates about its own links from occupancies   *)
(* occ: per port it keeps only that of channel 0, which isCongested reads. *)
OwnStatus(occ, info) ==
    [l \in Links |-> [c \in Chans |->
        IF detection = "PER_VC" THEN occ[l][c] > ChannelThreshold(occ, c)
        ELSE IF c # 0 THEN info[l][c]
        ELSE MapThenSumSet(LAMBDA k : occ[l][k], Chans)
                 > GlobalChannels * PortThreshold(occ)]]

(* pbState::readFlit for each notification that is due, the oldest first.  *)
ReadFlits(s, view) == AfterReading(Due(incomingPb[s]), view)

PbInit ==
    /\ detection \in {"PER_PORT", "PER_VC"}
    /\ loop \in {"synthetic", "trace"}
    /\ occupancy = [s \in Routers |-> [l \in Links |-> [c \in Chans |-> 0]]]
    /\ m_globalLinkCongested = [s \in Routers |-> [t \in Routers |-> Clear]]
    /\ incomingPb = [s \in Routers |-> <<>>]

(* Faulty: the information is sent before it is updated.                   *)
UpdatePbSendFirst(s, occ) ==
    LET view == m_globalLinkCongested[s]
    IN  /\ m_globalLinkCongested' = [m_globalLinkCongested EXCEPT
               ![s] = ReadFlits(s, [view EXCEPT ![s] = OwnStatus(occ, view[s])])]
        /\ incomingPb' = [t \in Routers |->
               IF t = s THEN NotDue(incomingPb[s])
               ELSE Append(incomingPb[t],
                           [from |-> s, info |-> view[s], arrival |-> cycle + LocalDelay])]

(* switchModule::updatePb: the own links first, then what has arrived,     *)
(* then the own links are sent to every switch of the group.               *)
UpdatePb(s, occ) ==
    LET view == m_globalLinkCongested[s]
        own == OwnStatus(occ, view[s])
    IN  /\ m_globalLinkCongested' = [m_globalLinkCongested EXCEPT
               ![s] = ReadFlits(s, [view EXCEPT ![s] = own])]
        /\ incomingPb' = [t \in Routers |->
               IF t = s THEN NotDue(incomingPb[s])
               ELSE Append(incomingPb[t],
                           [from |-> s, info |-> own, arrival |-> cycle + LocalDelay])]

(* A switch acts: the credits that have arrived and the flits it sent in   *)
(* its last turn changed the occupancy of one of its queues, or none.      *)
PbAct(s) ==
    /\ TurnOf(s)
    /\ \E l \in Links, c \in Chans, q \in Occupancies :
           /\ occupancy' = [occupancy EXCEPT ![s][l][c] = q]
           /\ UpdatePb(s, occupancy'[s])
    /\ UNCHANGED <<detection, loop>>

(* A switch is idle: the loop of the traces lets it read what has arrived, *)
(* the other loops do nothing.                                             *)
PbIdle(s) ==
    /\ TurnOf(s)
    /\ IF loop = "trace"
       THEN /\ m_globalLinkCongested' = [m_globalLinkCongested EXCEPT
                   ![s] = ReadFlits(s, m_globalLinkCongested[s])]
            /\ incomingPb' = [incomingPb EXCEPT ![s] = NotDue(@)]
       ELSE UNCHANGED <<m_globalLinkCongested, incomingPb>>
    /\ UNCHANGED <<detection, loop, occupancy>>

PbNext == \E s \in Routers : PbAct(s) \/ PbIdle(s)
-----------------------------------------------------------------------------
PbTypeOK ==
    /\ detection \in {"PER_PORT", "PER_VC"}
    /\ loop \in {"synthetic", "trace"}
    /\ occupancy \in [Routers -> [Links -> [Chans -> Occupancies]]]
    /\ m_globalLinkCongested \in [Routers -> [Routers -> LinkInfo]]
    /\ incomingPb \in [Routers -> Seq(PbFlit)]
    /\ \A s \in Routers : FromAt(incomingPb[s], s) = {}

(* Once what is under way to a switch has been read, it holds of each link *)
(* of its group what the owner of the link holds: a stale mark is          *)
(* always followed by a notification that corrects it, whatever the order  *)
(* of the turns and however long the reader was idle (switchModule.cc:934).*)
PbConsistent ==
    \A s \in Routers : \A t \in Others(s) :
        AfterReading(incomingPb[s], m_globalLinkCongested[s])[t]
            = m_globalLinkCongested[t][t]

(* A switch that acts routes by no mark older than the link delay: when it *)
(* sends its own marks in its turn, no notification that is due waits to   *)
(* be read (switchModule.cc:934, :996).                                    *)
PbReadWhenDue ==
    [][\A s \in Routers :
          (turn = s /\ \E t \in Others(s) : Len(incomingPb'[t]) > Len(incomingPb[t]))
              => \A i \in 1..Len(incomingPb'[s]) : incomingPb'[s][i].arrival > cycle
      ]_<<turnVars, pbVars>>
=============================================================================
