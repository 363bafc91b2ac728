------------------------------ MODULE Adaptive ------------------------------
(***************************************************************************)
(* Adaptive and nonminimal routing (routing/ugal.cc, pb.cc, pbAny.cc,      *)
(* obl.cc, srcAdp.cc, acor.cc, pbAcor.cc, car.cc, minCond.cc, par.cc,      *)
(* olm.cc and the base class in routing.cc), with the flags of a flit that *)
(* a hop changes (switch/switchModule.cc).                                 *)
(*                                                                         *)
(* enroute is called for the flit at the head of a buffer each time the    *)
(* arbiters look at it, and it changes the flit: the flit may be routed    *)
(* several times, with different results, before it moves.  Queue lengths, *)
(* contention and the state of global links are whatever they may be: what *)
(* a routing decides from them is a choice of the model.  The layout of    *)
(* the global links is the consecutive one; packets have one flit, and the *)
(* input buffer of a channel has room for one.                             *)
(***************************************************************************)
EXTENDS VcMngmt

CONSTANTS
    Packets,        \* the packets, each sent once
    Traffic,        \* packet -> the pairs of source and destination it may have
    Variants        \* the configurations

ASSUME TrafficAssumption == \A p \in Packets : Traffic[p] \subseteq Nodes \X Nodes

(* routing, vc_usage; global_misrouting, with local misrouting in the      *)
(* other groups ("_L") or not; valiant_type, and whether the Valiant node  *)
(* is drawn again ("_RECOMP"); valiant_misrouting_destination;             *)
(* acor_state_management.                                                  *)
Routings == {"ugal", "pb", "pbAny", "obl", "srcAdp", "acor", "pbAcor", "car", "minCond",
             "par", "olm"}

Configurations ==
    [routing : Routings, usage : {"BASE", "FLEXIBLE", "TBFLEX"},
     misrouting : {"CRG", "MM", "NRG", "RRG"}, plusL : BOOLEAN,
     valiantType : {"FULL", "SRCEXC"}, resetVal : BOOLEAN,
     valiantDestination : {"GROUP", "NODE"},
     acor : {"PACKETCGCSRS", "PACKETCGRS", "PACKETCSRS", "SWITCH"}]

(* Routings with a Valiant node of their own read how it is drawn; those   *)
(* of ACOR draw it again whenever they look at the flit.                   *)
ValiantAccepted(v) ==
    /\ v.resetVal => v.routing \in {"obl", "srcAdp", "car", "acor", "pbAcor"}
    /\ v.routing \in {"acor", "pbAcor"} => v.resetVal
    /\ v.valiantDestination = "GROUP" => v.routing = "obl"

(* With "mixed mode" car may have a flit leave its group that has a link   *)
(* home on its path, and pbAcor one whose Valiant node is in the source    *)
(* group: the assertions of switchModule.cc:1417 stop the program.         *)
MixedModeAborts(v) ==
    /\ v.misrouting = "MM"
    /\ v.routing = "car" \/ (v.routing = "pbAcor" /\ v.valiantType = "FULL")

(* The combinations readConfiguration and the routings accept.             *)
Accepted(v) ==
    /\ ValiantAccepted(v)
    /\ ~MixedModeAborts(v)
    /\ v.routing \in {"ugal", "pb", "pbAny", "minCond", "par"} => v.usage = "BASE"
    /\ v.routing \in {"obl", "srcAdp"} => v.misrouting \in {"CRG", "RRG"}
    /\ v.routing = "car" => v.misrouting # "NRG"
    /\ v.routing = "minCond" => v.misrouting = "CRG" /\ ~v.plusL /\ P = H

ASSUME VariantsAssumption == \A v \in Variants : v \in Configurations /\ Accepted(v)

VARIABLES
    variant,    \* the configuration
    state,      \* packet -> "source", "network" or "consumed"
    flit        \* packet -> where it is and what its flit carries

vars == <<variant, state, flit>>

AtInjection(f) == PortType(f.port) = "node"
Group(n) == hPos(SwitchOf(n))
MinPort(f) == MinOutputPort(FALSE, f.sw, f.dest)
ValPort(f) == MinOutputPort(FALSE, f.sw, f.valId)
GlobalPorts == GlobalOffset..(GlobalOffset + H - 1)
LocalPorts == LocalOffset..(GlobalOffset - 1)
Next_(s, port) == neighList[FALSE][s][port]

(* The hops a packet makes from switch s to node n on the minimal path.    *)
HopsToDest(s, n) ==
    LET Step(x) == IF x = SwitchOf(n) THEN x
                   ELSE Next_(x, minTable[FALSE][x][n])
    IN  CASE s = SwitchOf(n) -> 0
          [] s # SwitchOf(n) /\ Step(s) = SwitchOf(n) -> 1
          [] Step(s) # SwitchOf(n) /\ Step(Step(s)) = SwitchOf(n) -> 2
          [] OTHER -> 3

(* setValNode, for the routings that keep the node it sets.                *)
ValNodes(v, src, dest) ==
    IF v.routing \in {"pb", "pbAny"} /\ v.misrouting = "CRG"
    THEN {n \in Nodes : \E port \in GlobalPorts :
                            Group(n) = hPos(Next_(SwitchOf(src), port))}
    ELSE {n \in Nodes : Group(n) = Group(src) <=> Group(src) = Group(dest)}

UsesValNode(v) == v.routing \in {"ugal", "pb", "pbAny"}
-----------------------------------------------------------------------------
(* The virtual channels of a hop: none when nextChannel fails.             *)
Sequence(v) == IF v.routing = "olm" /\ v.usage # "BASE" THEN "olmFlex" ELSE v.routing

GoesByVal(f) == f.type = "VALIANT" /\ ~f.reached

Where(f) ==
    IF hPos(f.sw) = Group(f.dest) THEN "dest"
    ELSE IF hPos(f.sw) = Group(f.valId) \/ f.globalDone THEN "inter" ELSE "source"

NextChannels(v, f, out) ==
    LET minimal == out = MinPort(f)
        turned == hPos(f.sw) = Group(f.src) /\ f.localDone
        straight == minimal /\ ~GoesByVal(f)
        goal == IF straight THEN f.dest ELSE f.valId
        r == Sequence(v)
    IN  IF PortType(out) = "node" THEN {f.channel}
        ELSE CASE v.usage = "FLEXIBLE" -> NextChannelsFlex(r, out, Where(f), ~straight)
               [] v.usage = "TBFLEX" ->
                    NextChannelsTbFlex(r, out, hPos(f.sw) = Group(goal), straight)
               [] v.usage = "BASE" /\ r = "olm" ->
                    {NextChannelOpp(r, f.port, out, f.channel, minimal, turned)} \ {-1}
               [] OTHER -> {NextChannel(r, petitionVc[r], f.port, out, f.channel)} \ {-1}

(* checkVcArrayLengths, and the assertions of the channel managements: the *)
(* links have channels for the hops of the routing; flexVc takes no spare  *)
(* channel of a global link where it would count one of the local hops     *)
(* twice.                                                                  *)
EnoughChannels(v) ==
    LET r == Sequence(v)
        Hops(kind) == {i \in DOMAIN typeVc[r] : typeVc[r][i] = kind}
    IN  IF v.usage = "BASE"
        THEN /\ LocalChannels >= Cardinality(Hops("local"))
             /\ GlobalChannels >= Cardinality(Hops("global"))
        ELSE /\ LocalChannels >= minLocalVCs(r)
             /\ GlobalChannels >= minGlobalVCs(r)
             /\ v.usage = "FLEXIBLE" => Len(flexLocalVc[r]["dest"]) = LocalChannels

ASSUME LengthsAssumption == \A v \in Variants : EnoughChannels(v)

(* How far along its way the flit in a channel is, for channels that are   *)
(* to be taken in increasing order.                                        *)
Rank(v, port, vc) ==
    IF v.usage # "BASE" THEN vc
    ELSE CHOOSE i \in HopsOf(v.routing, petitionVc[v.routing], port, vc) : TRUE
-----------------------------------------------------------------------------
(* The Valiant nodes a routing that chooses one in the source switch may   *)
(* take: in the source group (LOCAL_MM), in one the switch (GLOBAL), or    *)
(* another switch of the group (LOCAL) has a global link to.               *)
IntNodes(s, kind) ==
    LET Linked(t) == {hPos(Next_(t, port)) : port \in GlobalPorts}
        groups == CASE kind = "LOCAL_MM" -> {hPos(s)}
                    [] kind = "GLOBAL" -> Linked(s)
                    [] kind = "LOCAL" -> UNION {Linked(Next_(s, port)) : port \in LocalPorts}
    IN  {n \in Nodes : Group(n) \in groups}

(* The kinds when Valiant routing may begin in any router of the group, or *)
(* only by the links of the switch.                                        *)
GlobalKinds(anyRouter) == IF anyRouter THEN {"LOCAL", "GLOBAL"} ELSE {"GLOBAL"}

ObliviousKinds(v, f) ==
    IF v.plusL /\ Group(f.src) = Group(f.dest) THEN {"LOCAL_MM"}
    ELSE GlobalKinds(v.misrouting = "RRG")
           \cup IF v.valiantType = "FULL" THEN {"LOCAL_MM"} ELSE {}

SourceAdpKinds(v, f) ==
    IF v.plusL /\ Group(f.src) = Group(f.dest) THEN {"LOCAL_MM"}
    ELSE GlobalKinds(v.misrouting = "RRG")
           \cup IF v.valiantType = "FULL" THEN {"LOCAL_MM"} ELSE {}

(* In acor FULL goes on to SRCEXC.                                         *)
AcorKinds(f) ==
    IF Group(f.src) = Group(f.dest) THEN {"LOCAL_MM"}
                                    ELSE GlobalKinds(f.status = "RRGLSw")

PbAcorKinds(v, f) ==
    IF Group(f.src) = Group(f.dest) THEN {"LOCAL_MM"}
    ELSE GlobalKinds(f.status = "RRGLSw")
           \cup IF v.valiantType = "FULL" THEN {"LOCAL_MM"} ELSE {}

CarKinds(v) == GlobalKinds(v.misrouting = "RRG")

(* The status of ACOR: each time the packet is looked at it goes a step    *)
(* further from its switch, or it takes that of the switch.                *)
AcorStatus(v, f) ==
    CASE v.acor = "SWITCH" -> {"CRGLGr", "CRGLSw", "RRGLSw"}
      [] v.acor = "PACKETCGCSRS" ->
            {CASE f.status = "None" -> "CRGLGr" [] f.status = "CRGLGr" -> "CRGLSw"
               [] OTHER -> "RRGLSw"}
      [] v.acor = "PACKETCGRS" -> {IF f.status = "None" THEN "CRGLGr" ELSE "RRGLSw"}
      [] v.acor = "PACKETCSRS" -> {IF f.status = "None" THEN "CRGLSw" ELSE "RRGLSw"}

(* The flit with a Valiant node chosen, and the length of the way by it.   *)
Chosen(f, kinds) ==
    {[f EXCEPT !.valId = n, !.chosen = TRUE,
               !.valLen = HopsToDest(f.sw, n) + HopsToDest(SwitchOf(n), f.dest)] :
       n \in UNION {IntNodes(f.sw, kind) : kind \in kinds}}

Statuses == {"CRGLGr", "CRGLSw", "RRGLSw"}

(* Of ACOR: a way within the group counts as one to the switch; kinds are  *)
(* those of Valiant nodes by status.                                       *)
ChosenByStatus(v, f, kinds) ==
    IF ~AtInjection(f) THEN {f}
    ELSE UNION {LET g == [f EXCEPT !.status = status] IN
                UNION {IF kind = "LOCAL_MM"
                       THEN Chosen([g EXCEPT !.status = "RRGLSw"], {kind})
                       ELSE Chosen(g, {kind}) : kind \in kinds[status]} :
                  status \in AcorStatus(v, f)}

InValGroup(f) == hPos(f.sw) = Group(f.valId)
InValSwitch(f) == f.sw = SwitchOf(f.valId)
Reached(f, there) == [f EXCEPT !.reached = @ \/ there]

ReachedByStatus(f) ==
    Reached(f, IF f.status = "CRGLGr" THEN InValGroup(f) ELSE InValSwitch(f))

(* Whether the destination's node is not on this switch, and whether the   *)
(* flit is about to be sent to it.                                         *)
Leaves(f) == PortType(MinPort(f)) # "node"
Starts(f) == AtInjection(f) /\ Leaves(f)
-----------------------------------------------------------------------------
(* enroute and misrouteCondition of each routing: the port the flit is to  *)
(* ask for, and the flit as it leaves it.  Queue lengths decide where      *)
(* there are two outcomes.                                                 *)
To(f, out) == [out |-> out, flit |-> f]
ByVal(f) == To([f EXCEPT !.type = "VALIANT"], ValPort(f))
Direct(f) == To(f, MinPort(f))
Unmarked(f) == [f EXCEPT !.type = "NONE"]

(* A flit sent by its Valiant node that may be there already.              *)
ByValUnlessReached(f) ==
    IF f.reached THEN Direct([f EXCEPT !.type = "VALIANT"]) ELSE ByVal(f)

EnrouteUgal(f) ==
    LET misroutes == IF GoesByVal(f) THEN {TRUE} ELSE IF Starts(f) THEN BOOLEAN ELSE {FALSE}
    IN  {IF m THEN ByValUnlessReached(Reached(f, InValGroup(f))) ELSE Direct(f) : m \in misroutes}

EnroutePb(f) ==
    LET misroutes == IF Starts(f) THEN BOOLEAN ELSE {GoesByVal(f)}
    IN  {IF m THEN ByValUnlessReached(Reached(f, InValGroup(f)))
         ELSE Direct(IF Starts(f) THEN Unmarked(f) ELSE f) : m \in misroutes}

EnroutePbAny(f) ==
    LET misroutes == IF Starts(f) THEN BOOLEAN ELSE {GoesByVal(f)}
    IN  {IF m THEN ByValUnlessReached(Reached(f, InValSwitch(f)))
         ELSE Direct(IF Starts(f) THEN Unmarked(f) ELSE f) : m \in misroutes}

EnrouteOblivious(v, f) ==
    LET chosen == IF AtInjection(f) /\ (v.resetVal \/ ~f.chosen)
                  THEN Chosen(f, ObliviousKinds(v, f)) ELSE {f}
        Arrived(g) == Reached(g, IF v.valiantDestination = "GROUP" THEN InValGroup(g)
                                                                  ELSE InValSwitch(g))
    IN  {IF Arrived(g).reached THEN Direct(Arrived(g)) ELSE ByVal(g) : g \in chosen}

EnrouteAcor(v, f) ==
    {LET h == ReachedByStatus(g) IN IF h.reached THEN Direct(Unmarked(h)) ELSE ByVal(h) :
       g \in ChosenByStatus(v, f, [s \in Statuses |-> AcorKinds([f EXCEPT !.status = s])])}

(* Faulty: the decision is made anew in every switch.                      *)
SourceAdpMisroutesAnywhere(f) == IF Leaves(f) /\ ~f.reached THEN BOOLEAN ELSE {FALSE}

(* misrouteCondition of srcAdp and pbAcor.                                 *)
SourceAdpMisroutes(f) ==
    IF Starts(f) /\ ~f.reached THEN BOOLEAN ELSE {Leaves(f) /\ GoesByVal(f)}

EnrouteSourceAdp(v, f) ==
    LET chosen == IF AtInjection(f) /\ (v.resetVal \/ ~f.chosen)
                  THEN Chosen(f, SourceAdpKinds(v, f)) ELSE {f}
    IN  UNION {LET h == Reached(g, InValSwitch(g))
               IN  {IF m THEN ByVal(h) ELSE Direct(Unmarked(h)) : m \in SourceAdpMisroutes(h)} :
                 g \in chosen}

EnroutePbAcor(v, f) ==
    UNION {LET h == ReachedByStatus(g)
           IN  {IF m THEN ByVal(h) ELSE Direct(Unmarked(h)) : m \in SourceAdpMisroutes(h)} :
             g \in ChosenByStatus(v, f, [s \in Statuses |-> PbAcorKinds(v, [f EXCEPT !.status = s])])}

(* In the source group car decides anew in every switch, as enroute has    *)
(* just unmarked the flit; so it does in the intermediate group as long as *)
(* the way out is a local link.                                            *)
CarMisroutes(f) ==
    IF /\ Leaves(f)
       /\ ~f.reached
       /\ Group(f.src) # Group(f.dest)
       /\ \/ AtInjection(f)
          \/ hPos(f.sw) = Group(f.src)
          \/ InValGroup(f) /\ PortType(MinPort(f)) = "local"
    THEN BOOLEAN ELSE {FALSE}

EnrouteCar(v, f) ==
    LET chosen == IF AtInjection(f) /\ (v.resetVal \/ ~f.chosen)
                  THEN Chosen(f, CarKinds(v)) ELSE {f}
    IN  UNION {LET h == Unmarked(Reached(g, InValSwitch(g)))
               IN  {IF m THEN ByVal(h) ELSE Direct(h) : m \in CarMisroutes(h)} :
                 g \in chosen}

(* minCond: misroute by the global link that belongs to the node, and keep *)
(* to the first decision.                                                  *)
EnrouteMinCond(f) ==
    LET misroutes == IF AtInjection(f) /\ Group(f.src) # Group(f.dest)
                     THEN IF f.enrouted THEN {f.type # "NONE"} ELSE BOOLEAN
                     ELSE {FALSE}
        Marked(type) == [f EXCEPT !.enrouted = TRUE, !.type = type]
    IN  {IF m THEN To(Marked("GLOBAL"), f.port + GlobalOffset) ELSE Direct(Marked("NONE")) :
           m \in misroutes}
-----------------------------------------------------------------------------
(* In-transit misrouting.  Whether the trigger holds is up to the queues,  *)
(* unless the flit has to leave, or is home.                               *)
MisrouteCondition(f) ==
    IF f.mandatory THEN {TRUE} ELSE IF Leaves(f) THEN BOOLEAN ELSE {FALSE}

(* A port to misroute by may be valid - free, with credits and not         *)
(* congested - when it is not the minimal one.                             *)
ValidMisroutePort(f, out) == out # MinPort(f)

AwayFromHome(f) == hPos(f.sw) = Group(f.src) /\ hPos(f.sw) # Group(f.dest)

(* The hop off the path that "mixed mode" has a flit make in its group.    *)
MixedModeType(f) ==
    IF f.mandatory THEN "GLOBAL_MANDATORY"
    ELSE IF AtInjection(f) THEN "GLOBAL"
    ELSE IF ~f.localDone THEN "LOCAL_MM" ELSE "NONE"

ParTypes(v, f) ==
    IF AwayFromHome(f)
    THEN CASE v.misrouting = "CRG" -> {"GLOBAL"}
           [] v.misrouting = "MM" -> {MixedModeType(f)}
           [] OTHER -> {"NONE"}
    ELSE IF /\ v.plusL
            /\ v.misrouting \in {"CRG", "MM"}
            /\ ~f.localDone
            /\ MinPort(f) < GlobalOffset
            /\ hPos(f.sw) # Group(f.dest)
         THEN {"LOCAL"} ELSE {"NONE"}

OlmTypes(v, f) ==
    IF AwayFromHome(f)
    THEN CASE v.misrouting = "CRG" -> {"GLOBAL"}
           [] v.misrouting = "MM" -> {MixedModeType(f)}
           [] v.misrouting = "NRG" -> {IF f.mandatory THEN "GLOBAL_MANDATORY" ELSE "LOCAL"}
           [] v.misrouting = "RRG" -> IF f.mandatory THEN {"GLOBAL_MANDATORY"}
                                                     ELSE {"LOCAL", "GLOBAL"}
    ELSE IF v.plusL /\ ~f.localDone /\ MinPort(f) < GlobalOffset
         THEN {"LOCAL"} ELSE {"NONE"}

PortsOf(kind) == IF kind \in {"LOCAL", "LOCAL_MM"} THEN LocalPorts ELSE GlobalPorts

(* nominateCandidates: par looks at every port of the kind; olm draws one, *)
(* and marks the flit with a node behind it.                               *)
ParNominates(f, kind) == {[out |-> out, flit |-> f] : out \in PortsOf(kind)}

OlmNominates(f, kind) ==
    LET Behind(out) ==
            LET t == Next_(f.sw, out)
            IN  P * IF hPos(f.sw) = Group(f.src) /\ kind \in {"LOCAL", "LOCAL_MM"}
                    THEN Next_(t, GlobalOffset) ELSE t
    IN  {[out |-> out, flit |-> [f EXCEPT !.valId = Behind(out)]] : out \in PortsOf(kind)}

(* misrouteCandidate: what is tried, with the kind of misrouting.          *)
MisrouteCandidates(nominees) ==
    UNION {{[out |-> c.out, flit |-> [c.flit EXCEPT !.type = kind]] :
              c \in nominees[kind]} : kind \in DOMAIN nominees \ {"NONE"}}

EnroutePar(v, f) == MisrouteCandidates([k \in ParTypes(v, f) |-> ParNominates(f, k)])
EnrouteOlm(v, f) == MisrouteCandidates([k \in OlmTypes(v, f) |-> OlmNominates(f, k)])

(* In-transit: by a port that is tried and valid; by the minimal one       *)
(* otherwise, with the flit as the trial left it and the channel it had    *)
(* before; or the trigger does not hold.                                   *)
EnrouteInTransit(v, f) ==
    LET tried == IF TRUE \notin MisrouteCondition(f) THEN {}
                 ELSE IF v.routing = "par" THEN EnroutePar(v, f) ELSE EnrouteOlm(v, f)
        left == {Unmarked(t.flit) : t \in tried}
                  \cup IF FALSE \in MisrouteCondition(f) \/ tried = {} THEN {Unmarked(f)} ELSE {}
    IN  {[to |-> To(g, MinPort(f)), seen |-> f] : g \in left}
          \cup {[to |-> t, seen |-> t.flit] : t \in {u \in tried : ValidMisroutePort(f, u.out)}}

EnrouteAtSource(v, f) ==
    CASE v.routing = "ugal" -> EnrouteUgal(f)
      [] v.routing = "pb" -> EnroutePb(f)
      [] v.routing = "pbAny" -> EnroutePbAny(f)
      [] v.routing = "obl" -> EnrouteOblivious(v, f)
      [] v.routing = "srcAdp" -> EnrouteSourceAdp(v, f)
      [] v.routing = "acor" -> EnrouteAcor(v, f)
      [] v.routing = "pbAcor" -> EnroutePbAcor(v, f)
      [] v.routing = "car" -> EnrouteCar(v, f)
      [] v.routing = "minCond" -> EnrouteMinCond(f)

(* The outcomes, each with a channel nextChannel gives the flit as it was  *)
(* then.                                                                   *)
Enroute(v, f) ==
    LET outcomes == IF v.routing \in {"par", "olm"} THEN EnrouteInTransit(v, f)
                    ELSE {[to |-> t, seen |-> t.flit] : t \in EnrouteAtSource(v, f)}
    IN  UNION {{[out |-> o.to.out, vc |-> vc, flit |-> o.to.flit] :
                  vc \in NextChannels(v, o.seen, o.to.out)} : o \in outcomes}
-----------------------------------------------------------------------------
NoFlit == [sw |-> 0, port |-> 0, channel |-> 0, src |-> 0, dest |-> 0,
           valId |-> 0, reached |-> FALSE, type |-> "NONE", localDone |-> FALSE,
           globalDone |-> FALSE, mandatory |-> FALSE, status |-> "None",
           chosen |-> FALSE, enrouted |-> FALSE, hopCount |-> 0, minLen |-> 0,
           valLen |-> 0, byVal |-> FALSE]

Init ==
    /\ variant \in Variants
    /\ state = [p \in Packets |-> "source"]
    /\ flit = [p \in Packets |-> NoFlit]

InBuffer(s, port, vc) ==
    {p \in Packets : state[p] = "network" /\ flit[p].sw = s
                        /\ flit[p].port = port /\ flit[p].channel = vc}

(* A node injects a packet, with a Valiant node that some routings keep    *)
(* and others replace.                                                     *)
Inject(p) ==
    /\ state[p] = "source"
    /\ \E pair \in Traffic[p] :
        LET src == pair[1]
            dest == pair[2]
            vals == ValNodes(variant, src, dest)
        IN  /\ src # dest
            /\ InBuffer(SwitchOf(src), src % P, 0) = {}
            /\ \E val \in IF UsesValNode(variant) THEN vals
                          ELSE {CHOOSE n \in vals : \A n2 \in vals : n <= n2} :
                flit' = [flit EXCEPT ![p] =
                  [NoFlit EXCEPT !.sw = SwitchOf(src), !.port = src % P,
                                 !.src = src, !.dest = dest, !.valId = val,
                                 !.minLen = MinPathLength(src, dest)]]
    /\ state' = [state EXCEPT ![p] = "network"]
    /\ UNCHANGED variant

(* Faulty: the mark for a global hop does not keep the flit from others.   *)
MayAskUnmarked(f, out) == TRUE

(* petitionCondition: a flit that has to leave by a global link may ask    *)
(* for no other.                                                           *)
MayAsk(f, out) == f.mandatory => out >= GlobalOffset

(* The flags of the flit f that has been misrouted within its group and    *)
(* is to leave it by a global link next.                                   *)
MustLeave(v, f, out) ==
    /\ PortType(out) = "local"
    /\ hPos(f.sw) = Group(f.src)
    /\ hPos(f.sw) # Group(f.dest)
    /\ ~f.globalDone
    /\ f.type # "VALIANT"
    /\ CASE v.misrouting = "MM" -> PortType(f.port) = "local"
         [] v.misrouting \in {"NRG", "RRG"} ->
                out # MinPort(f) /\ PortType(f.port) # "global"
         [] OTHER -> FALSE

(* Faulty: a local misroute is not noted.                                  *)
TraverseUnnoted(v, f, out, vc) ==
    LET next == neighList[FALSE][f.sw][out]
    IN  [f EXCEPT !.globalDone = @ \/ f.type \in {"GLOBAL", "GLOBAL_MANDATORY"},
                  !.mandatory = MustLeave(v, f, out),
                  !.sw = next, !.port = neighPort[FALSE][f.sw][out],
                  !.channel = vc, !.hopCount = @ + 1]

(* xbarTraversal: the flit that goes out by a link, as it comes in by the  *)
(* neighbour's port.                                                       *)
Traverse(v, f, out, vc) ==
    LET next == neighList[FALSE][f.sw][out]
        marked == [f EXCEPT
            !.localDone = @ \/ f.type \in {"LOCAL", "LOCAL_MM"},
            !.globalDone = @ \/ f.type \in {"GLOBAL", "GLOBAL_MANDATORY"}]
        left == IF hPos(next) # hPos(f.sw)
                THEN [marked EXCEPT !.mandatory = FALSE, !.localDone = FALSE]
                ELSE marked
    IN  [left EXCEPT !.mandatory = @ \/ MustLeave(v, marked, out),
                     !.sw = next, !.port = neighPort[FALSE][f.sw][out],
                     !.channel = vc, !.hopCount = @ + 1,
                     !.byVal = IF AtInjection(f) THEN f.type = "VALIANT" ELSE @]

(* The arbiters grant the petition of the packet.                          *)
Transit(p) ==
    /\ state[p] = "network"
    /\ \E r \in Enroute(variant, flit[p]) :
        /\ PortType(r.out) # "node"
        /\ MayAsk(r.flit, r.out)
        /\ LET f == Traverse(variant, r.flit, r.out, r.vc)
           IN  /\ InBuffer(f.sw, f.port, f.channel) = {}
               /\ flit' = [flit EXCEPT ![p] = f]
    /\ UNCHANGED <<variant, state>>

(* The packet is routed, but does not get the output in this cycle.        *)
Wait(p) ==
    /\ state[p] = "network"
    /\ \E r \in Enroute(variant, flit[p]) :
        /\ r.flit # flit[p]
        /\ flit' = [flit EXCEPT ![p] = r.flit]
    /\ UNCHANGED <<variant, state>>

(* The packet leaves by a node's port.                                     *)
Consume(p) ==
    /\ state[p] = "network"
    /\ \E r \in Enroute(variant, flit[p]) :
        /\ PortType(r.out) = "node"
        /\ flit' = [flit EXCEPT ![p] = [r.flit EXCEPT !.port = r.out]]
    /\ state' = [state EXCEPT ![p] = "consumed"]
    /\ UNCHANGED variant

Next == \E p \in Packets : Inject(p) \/ Transit(p) \/ Wait(p) \/ Consume(p)

Spec == Init /\ [][Next]_vars
-----------------------------------------------------------------------------
FlitType ==
    [sw : Switches, port : Ports, channel : Channels, src : Nodes, dest : Nodes,
     valId : Nodes, reached : BOOLEAN,
     type : {"NONE", "VALIANT", "LOCAL", "LOCAL_MM", "GLOBAL", "GLOBAL_MANDATORY"},
     localDone : BOOLEAN, globalDone : BOOLEAN, mandatory : BOOLEAN,
     status : {"None", "CRGLGr", "CRGLSw", "RRGLSw"}, chosen : BOOLEAN,
     enrouted : BOOLEAN, hopCount : Nat, minLen : 0..3, valLen : 0..6,
     byVal : BOOLEAN]

(* The values each variable may take; no path is longer than two hops in   *)
(* each of three groups and those between them (OLM with local misrouting).*)
TypeOK ==
    /\ variant \in Configurations /\ Accepted(variant)
    /\ state \in [Packets -> {"source", "network", "consumed"}]
    /\ \A p \in Packets :
          /\ flit[p] \in FlitType
          /\ flit[p].hopCount <= 8 \/ (variant.routing = "car" /\ variant.usage # "BASE")

Travelling(p) == state[p] = "network" /\ ~AtInjection(flit[p])

(* What the flit may go on asking for: a port to misroute by in transit is *)
(* asked for only while it is free, unless the flit has to take it.        *)
Awaits(v, f) ==
    {r \in Enroute(v, f) :
        /\ MayAsk(f, r.out)
        /\ v.routing \in {"par", "olm"} => r.flit.type = "NONE" \/ f.mandatory}

(* Where the order is not kept: CAR decides anew in transit, and asks in   *)
(* vain for a channel then; within a group, OLM's misrouted flits (see     *)
(* NoCircularWait), and flits with flexible channels that go by way of     *)
(* another group, as they may take the destination group's channels first. *)
OutOfOrder(v, f) ==
    \/ v.routing = "car"
    \/ /\ Group(f.src) = Group(f.dest)
       /\ \/ v.routing = "olm" /\ v.usage = "BASE"
          \/ v.routing \in {"obl", "srcAdp"} /\ v.usage = "FLEXIBLE" /\ ~v.plusL

(* "an increasing sequence to break cyclic dependencies" (vcMngmt.cc:137), *)
(* which opportunistic and flexible schemes may leave only to come back:   *)
(* however a flit has been routed and misrouted so far, a port it may wait *)
(* for is its node's, or has a channel (assert vcMngmt.cc:174) further on  *)
(* than the one the flit holds; a flit holding the channel furthest on is  *)
(* never blocked, whatever the number of packets.                          *)
EscapeIncreases ==
    \A p \in Packets :
        LET f == flit[p]
            awaited == Awaits(variant, f)
            onward == {r \in awaited :
                         \/ PortType(r.out) = "node"
                         \/ Rank(variant, r.out, r.vc) > Rank(variant, f.port, f.channel)}
            OutsOf(routes) == {r.out : r \in routes}
        IN  Travelling(p) /\ ~OutOfOrder(variant, f) =>
                awaited # {} /\ OutsOf(awaited) = OutsOf(onward)

(* The source weighs the queues of the two paths by the lengths in the     *)
(* flit (srcAdp.cc:241, pb.cc:102): a packet it sends the minimal way      *)
(* makes minPathLength hops, though it was routed again in every switch    *)
(* and in every cycle it waited; one it sends by way of a node it chose    *)
(* makes no more than valPathLength.                                       *)
PathAsWeighed ==
    \A p \in Packets :
        LET f == flit[p]
        IN  state[p] = "consumed" /\ variant.routing \in {"ugal", "pb", "pbAny", "srcAdp", "pbAcor"} =>
                /\ ~f.byVal => f.hopCount = f.minLen
                /\ f.byVal /\ variant.routing \in {"srcAdp", "pbAcor"} => f.hopCount <= f.valLen

(* Asserts of switchModule.cc:1380: a flit misrouted within its group      *)
(* leaves the group by a global link off the minimal path, and by nothing  *)
(* else ("to avoid coming back to previous router (provoking a cycle)",    *)
(* routing.cc:478), in spite of the decisions made while it waits.         *)
MandatoryTaken ==
    [][\A p \in Packets :
          state[p] = "network" /\ flit[p].mandatory /\ flit'[p].hopCount > flit[p].hopCount =>
              /\ PortType(flit'[p].port) = "global"
              /\ hPos(flit'[p].sw) # Group(flit[p].dest)
              /\ flit'[p].type = "GLOBAL_MANDATORY"]_vars

(* No packets wait for each other in a circle, each for buffers the others *)
(* hold ("Determines next channel, following an increasing sequence to     *)
(* break cyclic dependencies, but addressing the specific case of          *)
(* opportunistic misrouting hops", oppVcMngmt.cc:32).                      *)
NoCircularWait ==
    ~\E stuck \in SUBSET {p \in Packets : Travelling(p)} :
        /\ stuck # {}
        /\ \A p \in stuck : \A r \in Enroute(variant, flit[p]) :
              /\ PortType(r.out) # "node"
              /\ LET f == Traverse(variant, r.flit, r.out, r.vc)
                 IN  \/ ~MayAsk(r.flit, r.out)
                     \/ InBuffer(f.sw, f.port, f.channel) \cap stuck # {}

=============================================================================
