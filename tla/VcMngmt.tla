------------------------------ MODULE VcMngmt ------------------------------
(***************************************************************************)
(* The choice of virtual channels that is to keep the network free of      *)
(* deadlock (switch/vcManagement): vcMngmt gives every hop of the longest  *)
(* path of a routing a channel of its own, oppVcMngmt lets a misrouted     *)
(* local hop use the channel of an earlier one, flexVc and tbFlexVc allow  *)
(* a set of channels.  vcMngmt has channels for responses, too; the others *)
(* are those of traffic without responses.                                 *)
(*                                                                         *)
(* The first two number local and global channels apart, the others        *)
(* together.                                                               *)
(***************************************************************************)
EXTENDS Topology, SequencesExt

CONSTANTS
    LocalChannels,  \* g_local_link_channels
    GlobalChannels  \* g_global_link_channels

ASSUME ChannelsAssumption ==
    /\ LocalChannels \in Nat \ {0}
    /\ GlobalChannels \in Nat \ {0}

Channels == 0..(LocalChannels + GlobalChannels - 1)

(* The kinds of hop a path may make, in order, as the routings pass them   *)
(* to their channel management: "opp" hops are opportunistic.              *)
hopSeq ==
    LET Twice == <<"local", "global", "local", "local", "global", "local">>
        Group == <<"local", "global", "local", "global", "local">>
        Source == <<"local", "oppglobal", "local", "local", "global", "local">>
        Opportunistic == <<"local", "opplocal", "oppglobal", "opplocal", "local",
                           "global", "local">>
    IN  [min |-> <<"local", "global", "local">>,
         val |-> Group, ugal |-> Group, pb |-> Group, minCond |-> Group,
         olm |-> Group,
         valAny |-> Twice, pbAny |-> Twice, obl |-> Twice, acor |-> Twice,
         srcAdp |-> Source, pbAcor |-> Source,
         par |-> <<"local", "local", "global", "local", "local", "global", "local">>,
         car |-> Opportunistic, olmFlex |-> Opportunistic]

KindOf(class) ==
    CASE class = "opplocal" -> "local"
      [] class = "oppglobal" -> "global"
      [] OTHER -> class

typeVc == [r \in DOMAIN hopSeq |->
              [i \in DOMAIN hopSeq[r] |-> KindOf(hopSeq[r][i])]]

(* The channel reserved for the i-th hop: local and global ones are        *)
(* numbered apart.                                                         *)
petitionVc ==
    [r \in DOMAIN hopSeq |-> [i \in DOMAIN typeVc[r] |->
        Cardinality({j \in 1..(i - 1) : typeVc[r][j] = typeVc[r][i]})]]

(* Faulty: the channels of responses are numbered from zero again.         *)
responseVcReset == petitionVc

(* Responses (of reactive traffic) go on from the highest of petitions.    *)
responseVc ==
    [r \in DOMAIN hopSeq |-> [i \in DOMAIN typeVc[r] |->
        petitionVc[r][i]
          + Cardinality({j \in DOMAIN typeVc[r] : typeVc[r][j] = typeVc[r][i]})]]

(* The hops of the sequence that channel vc of an input port stands for,   *)
(* by the channels (auxVc) of the hops.                                    *)
HopsOf(r, auxVc, inPort, vc) ==
    {i \in DOMAIN typeVc[r] : typeVc[r][i] = PortType(inPort) /\ auxVc[i] = vc}

(* Faulty: the hop that was made may be chosen again.                      *)
NextChannelAgain(r, auxVc, inPort, outPort, vc) ==
    LET done == HopsOf(r, auxVc, inPort, vc)
        later == {i \in DOMAIN typeVc[r] :
                     /\ typeVc[r][i] = PortType(outPort)
                     /\ \A j \in done : i >= j}
    IN  IF later = {} THEN -1
        ELSE auxVc[CHOOSE i \in later : \A j \in later : i <= j]

(* Faulty: a hop of the sequence is passed over.                           *)
NextChannelSkipping(r, auxVc, inPort, outPort, vc) ==
    LET done == HopsOf(r, auxVc, inPort, vc)
        later == {i \in DOMAIN typeVc[r] :
                     /\ typeVc[r][i] = PortType(outPort)
                     /\ \A j \in done : i > j + 1}
    IN  IF later = {} THEN -1
        ELSE auxVc[CHOOSE i \in later : \A j \in later : i <= j]

(* The first hop of the output's kind after the one that was made, or none. *)
NextChannel(r, auxVc, inPort, outPort, vc) ==
    LET done == HopsOf(r, auxVc, inPort, vc)
        later == {i \in DOMAIN typeVc[r] :
                     /\ typeVc[r][i] = PortType(outPort)
                     /\ \A j \in done : i > j}
    IN  IF later = {} THEN -1
        ELSE auxVc[CHOOSE i \in later : \A j \in later : i <= j]

(* oppVcMngmt: a local hop off the minimal path reuses the channel of the  *)
(* local hop before; one in the source group after such a hop ("turned")   *)
(* keeps the channel the flit is in.                                       *)
NextChannelOpp(r, inPort, outPort, vc, minimal, turned) ==
    LET done == HopsOf(r, petitionVc[r], inPort, vc)
        before == {i \in DOMAIN typeVc[r] : typeVc[r][i] = "local"
                                               /\ \A j \in done : i <= j}
    IN  IF PortType(outPort) = "local" /\ turned THEN vc
        ELSE IF PortType(outPort) = "local" /\ ~minimal /\ PortType(inPort) # "node"
        THEN petitionVc[r][CHOOSE i \in before : \A j \in before : i >= j]
        ELSE NextChannel(r, petitionVc[r], inPort, outPort, vc)
-----------------------------------------------------------------------------
(* The hops of r of the classes, and those of them before the i-th.        *)
HopsIn(r, classes) == {i \in DOMAIN hopSeq[r] : hopSeq[r][i] \in classes}
HopsBefore(r, i, classes) == HopsIn(r, classes) \cap 1..(i - 1)

GlobalClasses == {"global", "oppglobal"}

minLocalVCs(r) == Cardinality(HopsIn(r, {"local"}))
minGlobalVCs(r) == Cardinality(HopsIn(r, GlobalClasses))

(* Channels beyond those the hops need come first, local before global.    *)
extraLocal(r) == LocalChannels - minLocalVCs(r)
extraGlobal(r) == GlobalChannels - minGlobalVCs(r)
ExtraLocalVcs(r) == [k \in 1..extraLocal(r) |-> k - 1]
ExtraGlobalVcs(r) == [k \in 1..extraGlobal(r) |-> extraLocal(r) + k - 1]

(* The channel of the i-th hop; an opportunistic local hop has that of the *)
(* last local hop before.                                                  *)
MandatoryVc(r, i) ==
    LET before == HopsBefore(r, i, {"local"} \cup GlobalClasses)
        last == CHOOSE j \in 1..i :
                    /\ hopSeq[r][j] = "local"
                    /\ \A k \in 1..i : hopSeq[r][k] = "local" => k <= j
    IN  IF hopSeq[r][i] # "opplocal"
        THEN extraLocal(r) + extraGlobal(r) + Cardinality(before)
        ELSE extraLocal(r) + extraGlobal(r)
               + Cardinality(HopsBefore(r, last, {"local"} \cup GlobalClasses))

(* The channels of some of the hops of r, in order.                        *)
MandatoryVcs(r, chosen) ==
    LET Hop(k) == CHOOSE i \in chosen : Cardinality(chosen \cap 1..i) = k
    IN  [k \in 1..Cardinality(chosen) |-> MandatoryVc(r, Hop(k))]

(* globalVc.size() when the i-th hop is looked at: channels beyond those   *)
(* the hops need are in it too.                                            *)
GlobalVcSize(r, i) == extraGlobal(r) + Cardinality(HopsBefore(r, i, GlobalClasses))

(* The channels of the global links, and of the local ones in the source,  *)
(* an intermediate and the destination group ("where").                    *)
flexGlobalVc ==
    [r \in DOMAIN hopSeq |->
        ExtraGlobalVcs(r) \o MandatoryVcs(r, HopsIn(r, GlobalClasses))]

flexLocalVc ==
    [r \in DOMAIN hopSeq |-> [where \in {"source", "inter", "dest"} |->
        LET Least(i) == IF GlobalVcSize(r, i) = 0 THEN 1
                        ELSE IF GlobalVcSize(r, i) = 1 THEN 2 ELSE 3
            rank == CASE where = "source" -> 1 [] where = "inter" -> 2
                      [] where = "dest" -> 3
        IN  ExtraLocalVcs(r)
              \o MandatoryVcs(r, {i \in HopsIn(r, {"local"}) : Least(i) <= rank}
                                   \cup {i \in HopsIn(r, {"opplocal"}) : Least(i) = rank})]]

(* Faulty: the highest channel is not kept for the minimal path.           *)
NextChannelsFlexAll(r, outPort, where, misrouting) ==
    LET auxVc == IF PortType(outPort) = "global" THEN flexGlobalVc[r]
                                                 ELSE flexLocalVc[r][where]
    IN  Range(auxVc)

(* flexVc: any of the channels, as the policy (g_vc_alloc) and the credits *)
(* have it; but not the highest, when the flit does not go straight home.  *)
NextChannelsFlex(r, outPort, where, misrouting) ==
    LET auxVc == IF PortType(outPort) = "global" THEN flexGlobalVc[r]
                                                 ELSE flexLocalVc[r][where]
    IN  Range(IF misrouting /\ auxVc # << >> THEN Front(auxVc) ELSE auxVc)

(* tbFlexVc: the channels of the global and of the local hops; without and *)
(* with the spare ones.                                                    *)
hopVcs == [r \in DOMAIN hopSeq |->
              [local |-> MandatoryVcs(r, HopsIn(r, {"local"})),
               global |-> MandatoryVcs(r, HopsIn(r, GlobalClasses))]]
tableVcs == [r \in DOMAIN hopSeq |->
                [local |-> ExtraLocalVcs(r) \o hopVcs[r].local,
                 global |-> ExtraGlobalVcs(r) \o hopVcs[r].global]]

(* The highest channel a table has for the hop, by whether it is on the    *)
(* minimal path and leads to this group or another.                        *)
HighestVc(r, outPort, sameGroup, minimal) ==
    LET globalVc == hopVcs[r].global
        localVc == hopVcs[r].local
        opp == HopsIn(r, {"opplocal"}) # {}
    IN  IF sameGroup
        THEN IF minimal THEN Last(localVc) ELSE localVc[IF opp THEN 1 ELSE 2]
        ELSE IF PortType(outPort) = "global"
        THEN IF minimal THEN Last(globalVc) ELSE Head(globalVc)
        ELSE IF minimal THEN localVc[Len(localVc) - 1] ELSE Head(localVc)

NextChannelsTbFlex(r, outPort, sameGroup, minimal) ==
    {vc \in Range(tableVcs[r][PortType(outPort)]) : vc <= HighestVc(r, outPort, sameGroup, minimal)}
=============================================================================
