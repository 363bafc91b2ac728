# FOGSim in TLA+

FOGSim is a cycle-driven simulator of Dragonfly networks. What it reports is
only worth something if the simulated switches neither lose flits, nor overrun
buffers, nor block each other for reasons the modelled hardware would not
have; the code guards this with `assert`s. The modules of this directory model
the switch, its links, the network with its routings, the congestion
information switches exchange, and the traffics of the nodes; TLC checks them on
small instances, and TLAPS proves for every size the safety of the buffers, the
links, the allocator, the exchange of congestion information, packets under
oblivious and adaptive routing, and the nodes with synthetic traffic.

Paths are relative to the repository's `src/`.

## 1. The system

`dgflySimulator.cc:1606-1618` is the scheduler: in every cycle (`g_cycle`) it
calls `action()` of each switch that holds a message, in the order of the
labels, and then of every generator (node). Everything is single-threaded;
what makes the order matter is that a switch writes directly into the buffers
and credit queues of its neighbours, so that one neighbour sees the effect in
the same cycle and another in the next one, and that an idle switch is not
called at all.

| Component | State | Operations | Talks to |
|---|---|---|---|
| Flit buffer (`switch/buffer/buffer.cc`) | ring of slots, arrival cycle per slot, head, tail, last extraction and reception | `insert`, `extract`, `reorderBuffer`, `canSendFlit`, `canReceiveFlit` | its port |
| Ports (`switch/port/`) | buffers per channel; credit counters in all and for minimally routed flits | `insert`, `extract`, `increase/decreaseOccupancy` | switch, next switch |
| Input-buffered switch (`switch/switchModule.cc`) | ports, arbiters, incoming credits, message counter | `action`: read credits, allocate, move flits, reorder queues | neighbours: `insertFlit`, `receiveCreditFlit`, `nextPortCanReceiveFlit` |
| Input-output-queued switch (`switch/ioqSwitchModule.cc`) | output buffers besides | `txFlit`, `xbarTraversal`, `updateOutputBuffer` | the same |
| Arbiters (`switch/arbiter/`) | LRS lists, petitions | `action` of input, class-of-service and output arbiters | their switch |
| Topology and tables (`routing/routing.cc`) | minimal output port per node, neighbour and its port per link | `setMinTables`, `findNeighbors`, `visitNeighbors` | switches, routings |
| Routing (`routing/min.cc`, `val.cc`, `valAny.cc`, adaptive ones) | marks in the flit, and views of other switches | `enroute` | tables, credits |
| Channel choice (`switch/vcManagement/`) | sequence of hop kinds with their channels | `nextChannel` | routing, switch |
| Nodes (`generator/generatorModule.cc`, `burstGenerator.cc`, `trafficPattern/`) | the packet being sent, pending petitions, what is left of a pattern | `action`, `inject`, `checkConsume`, `consumeFlit` | switch of the node |
| Shared buffers (`dynBuf*`) | a pool per port | the port operations | switch |
| Piggyback (`pbState.cc`), contention counters (`caHandler.cc`) | what a switch knows of its group's links and flits | update, broadcast, reading | switches of the group |
| QCN, ACOR (`switchModule.cc`) | samples, probabilities; status, hysteresis counters | in `action` | routing |
| Escape ring and tree | further ports, channels and tables | in routing and switch | switches |
| Traces (`generator/trace*.cc`, `event.cc`) | collectives and roots read, event queue of each task, messages received | `read_dimemas`, `action`, skipping of cycles | main loop |
| Graph500 (`generator/graph500Generator.cc`) | state of each node, messages and signals left | `action`, `consumeFlit`, start of a level | main loop, injection channels |
| Main loop (`dgflySimulator.cc`) | `g_cycle`, modules | the loop; skipping of idle cycles with traces | all |

### Where it is hard

* **Place and credit of a flit part.** A flit is extracted, and its credit sent,
  in the middle of a switch's cycle; its place in the ring is given back at the
  end of that cycle (`reorderBuffer`). In between its credit is under way,
  while its place is still taken.
* **The order of the switches.** An upstream switch with the smaller label
  acts before the downstream one in each cycle, otherwise after it; an idle
  switch reads no credits and has them pile up.
* **Counters kept on both sides of an event.** A flit is counted as routed
  minimally in one switch and taken off again in another, by way of flags in
  the flit (`m_misrouted`, `m_misrouted_prev`) that are changed in between.
* **Checked now, used later.** Credits and links are checked when a petition is
  made and used when it is attended; with output buffers, a credit is checked
  when a flit enters the buffer and used many cycles later.
* **Waiting in cycles.** A packet holds a channel while it waits for the next
  one. Only the order of the channels keeps a full network from standing still.
* **Formulas written several times.** The wiring is computed in `minOutputPort`,
  `minInputPort`, `findNeighbors` and `determinePaths`, in two layouts.
* **Starvation.** LRS lists, priorities, iterations and parallel requests
  interact.
* **Decided again and again.** `enroute` is called for the head of a queue each
  time an arbiter looks at it, and leaves marks in the flit (Valiant node, kind of
  misrouting, status); a flit is sent with the marks of the last call, not of the
  one whose outcome was granted long ago.
* **Old news.** Switches route by what other switches of the group told them a
  link delay ago, or longer ago when they were idle since, and notifications pile
  up in the queues of idle switches.
* **Counted, shared, sampled.** Contention counters follow a flit through
  reception, queueing and crossbar; QCN samples and ACOR's hysteresis count cycles
  in which the switch acts, not cycles.
* **Everyone waits for everyone.** Petitions wait for room for their responses;
  tasks of a trace wait for messages of tasks that wait.
* **Counted, not named.** The end of a traffic is a number of nodes that have
  finished, of each a number of packets; that nothing is left in a buffer then is
  said by none of the counters.
* **Reading twice.** A trace is read in two passes that have to agree on which
  collective a record is and who is its root.

`PROJECT.json` lists each hazard at its line with the properties that cover it,
or the reason why none does yet.

### What makes each component correct

* Buffer: a FIFO queue of `bufferCapacity` places, whatever the order of
  insertion, extraction and reordering in a cycle.
* Link: credits are conserved; a credit is proof of a place; one flit on the
  link at a time; credits come back.
* Output buffer: a flit that entered it can leave it, so that the channels that
  share it do not block each other.
* Allocator: what was true of a petition when it was made is still true when it
  is attended; no more is granted than the crossbar carries; nobody starves.
* Topology: both ends agree on every link. Routing: packets arrive where they
  are bound for, on a path as long as the source thought. Channels: however a
  packet was misrouted, it has a channel further on to ask for.
* Congestion information: what a switch holds of another is what that one sent
  last; its own counters are what is queued.
* Nodes and traffics: petitions and responses do not block each other; a trace
  takes the time its tasks compute; every traffic ends.

## 2. Modules

    BoundedFifo <-- implemented by -- Buffer
         ^
         +-- each channel of -- CreditLink <-- implemented by -- IoqLink
    Allocator                        (inside a switch)
    Topology <-- VcMngmt <-- Dragonfly     (the whole network, oblivious routing)
                       ^---- Adaptive      (a packet under adaptive routing)
    GroupTurns <-- Piggyback  --\
             ^---- Contention --- Congestion    (what switches know)
                   Acor, Qcn  --/
    TraceReader <-- TraceReplay, Graph500, Nodes <-- Workloads   (traffics)

Common conventions. Packets have one flit (a setting of the simulator,
`g_packet_size = g_flit_size`), and credits and places are counted in flits, as
all updates in the code are by `g_flit_size`. In the modules of a link, cycles are
kept relative to `g_internal_cycle`: a stored cycle becomes the number of cycles
to go, and the step `Tick` counts all of them down, so that no clock has to be
bounded. Where behaviour depends on the clock itself (the group's turns, the
replay of a trace) the clock is a variable. Definitions marked *Faulty* are
plausible bugs in the definition after them; they take no part in the models and
show of each property that it can fail.

**BoundedFifo** is the promise: flits come out in order, none is lost, and
`Capacity` places suffice, where the place of a flit that leaves is given back in
a step of its own.

**Buffer** is `buffer.cc`, variable by variable: the ring of `Capacity + 1` slots,
`head` and `tail`, the arrival cycle of each slot (`-1` of the code is `Empty`),
`lastExtractCycle` and `lastReceiveCycle` as remaining cycles. `Insert`, `Extract`
and `ReorderBuffer` are the methods with the conditions their callers check. The
buffer may be fed by a link (`serialised`: one flit at a time) or by a node. A
node inserts a whole packet in a cycle (`generatorModule.cc:111-136`), and a
consumed petition puts its response into an injection buffer of the same switch
while the switch is still allocating (`generatorModule.cc:459-468`): this is why
`Insert` is allowed between `Extract` and `ReorderBuffer`.

**CreditLink** is a link between two switches without output buffers. The
upstream part of a cycle is `UpdateCredits` (reads the credits that have arrived),
any number of `Send`s the link allows, and `UpEnd`, or `UpIdle` when the switch
holds no message (`waiting`). The downstream part is `Extract` of channels, each
of which sends a credit, and `DownEnd` (`orderQueues`). `upFirst` chooses the order
of the two labels. A flit is `"out"`, in the `"buffer"` (or on the link), or
represented by its `"credit"`; with it go its channel and `prevMisrouted`, the
flag the credit reports. What the two switches do with their other ports is left
open.

**IoqLink** puts the output buffer of `IOQ_SW` in front: `Xbar` (`txFlit`,
`xbarTraversal`) brings a flit into it, `Depart` is what `updateOutputBuffer` does,
and `UpEnd` requires that it has been done. The other actions are those of
CreditLink by `INSTANCE`. A flit is of a kind: minimal, misrouted before, or
misrouted by this very hop; the last is marked in `updateOutputBuffer`, between
the two places where counters are changed. `FeedTimes` are the remaining reception
times of a flit as it crosses. `BufferTypes` are the input buffers behind the link:
separate ones, or those of `dynBufInPort.cc` (`g_buffer_type` DYNAMIC), in which
each channel has `reserved` places of its own and shares a `pool` with the others.
The pool is taken by the occupancy at insertion and given back by that at
extraction (`PoolAfterInsert`, `PoolAfterExtract`, kept in
`aggregatedBufferCapacity`); credits are then the places of a channel *and* of the
pool (`InPool`, `Committed`).

**Allocator** is `switchModule::action`, 710-788: per iteration each input arbiter
is called `MaxRequests` times (`Request`, `NoRequest`), then each output arbiter
once (`Grant`, `NoGrant`). The lists of `lrsArbiter` and `priorityLrsArbiter` are
kept as the code keeps them, petitions and reservations too. Between cycles, flits
arrive and credits change as they like.

**Topology** has labels, groups, and the tables as functions (`minTable`,
`neighList`, `neighPort`), filled by the formulas of the code in both layouts of
the global links (`palm`).

**VcMngmt** has the sequence of hops and channels of each routing (`hopSeq`) and
`nextChannel` of the base, opportunistic, flexible and table-based flexible
schemes, for petitions; the base scheme also has the channels of responses
(`responseVc`), which go on from the highest of petitions. Channels beyond those
the hops need come first, as the constructors of `flexVc` and `tbFlexVc` place them.

**Dragonfly** has one action for the whole cycle in which a packet is injected,
goes to the next switch, or is consumed, under MIN, VAL and VAL_ANY. With reactive
traffic a packet is a petition first; `Answer` consumes it, if its response can be
injected by the same port, and it goes on as the response. `palm`, `routing` and
`reactive`, chosen at the start, stand for parameters of the configuration. The
flow control of CreditLink is reduced to what it guarantees: a packet goes on when
the channel has room. `LengthsAssumption` is `checkVcArrayLengths`, with which a
simulation aborts at its start: there are two channels, one for petitions and one
for responses, for each hop of the longest path. `CanMove` collects the guards of the
actions by which a packet goes on, and `NoDeadlock` says that one always can.

**Adaptive** has `enroute` of UGAL, PB, PB_ANY, OBL, SRC_ADP, ACOR, PB_ACOR, CAR,
MIN_COND, PAR and OLM. What they decide by queue lengths, contention or Piggyback
is a free choice; what they choose *from* (kinds of Valiant nodes, candidates for
misrouting, the port of the minimal or Valiant path) and the marks they leave in
the flit are those of the code. `Wait` is an `enroute` whose outcome is not granted
and `Transit` one that is: `Traverse` changes the flags as `sendFlit` does.
`Accepted` are the combinations of settings that the main program and the
routings accept and that do not abort by themselves (`MixedModeAborts`);
`EnoughChannels` is `checkVcArrayLengths` with what the flexible managements assert
besides.

**GroupTurns** is the main loop as one group sees it: each switch has its turn,
acts if it holds a message, and is passed over otherwise. **Piggyback** adds the
marks of a switch's global links, computed from the occupancies of their queues,
and the notifications of the others in the group, in both main loops (with traces,
an idle switch reads them all the same). **Contention** adds the counters of
`caHandler.cc`: phits of flits by minimal output port, for whole queues or heads,
and the partial counters per group which are shared every `SharePeriod` cycles;
ports and groups, which are numbers in the code, have different names here, so that
the counters of both fit one table.
What a switch makes of the notifications it reads
(`AfterReading`, `FromAt`) is the same for both. **Acor** is the status of a switch
under the state management `SWITCH...`, and its hysteresis; `blockedInLast` and
`statusAgo` remember, for the property only, what was blocked in the last cycles and
what the status was. **Qcn** is the sampling of input ports, the notifications, and the
probability of minimal routing, for four implementations and four policies.
**Congestion** composes them: a configuration has one of the mechanisms.

**TraceReader** is `read_dimemas`, record by record: the first pass notes the
collectives of each communicator with their roots, the second turns records into
events of the tasks. **TraceReplay** is the replay: a generator completes events
as it can, and the main loop skips cycles in which all only compute.
**Graph500** has what is reached of `graph500Generator.cc`: the root sends the queries
of level 0, over a network that delivers in any order, and asks for an injection
channel for its first signal, which fails an assertion (Observations, section 4). What comes after
it in the source (signals, reductions, further levels) never runs and is not
modelled. **Nodes** has the synthetic traffics: uniform, permutation, bursts,
single bursts and all-to-all, with injection channels by policy, and reactive
traffic, in which a consumed petition becomes a response in the injection buffers
of the same switch, by way of the input buffers or of an output buffer
(`g_segregated_flows`). **Workloads** composes them: the main program runs one.

TraceReplay, and the property of TraceReader that replays what was read, use
RECURSIVE operators; these modules and Workloads are for TLC. Nodes and Graph500
use none, so that their theorems are about `NodesSpec` and `GraphSpec`: the initial
states and steps that Workloads takes with synthetic traffic and with Graph500.

The proofs of a component are in a module of their own that extends it:
BufferProofs, CreditLinkProofs, IoqLinkProofs, AllocatorProofs, CongestionProofs,
DragonflyProofs, AdaptiveProofs (which takes the theorems about the tables from
DragonflyProofs by `INSTANCE`) and TrafficProofs (Nodes and Graph500).

## 3. Runs

| Run | Instance | Properties |
|---|---|---|
| `buffer` | 3 places, 4 flits, delay 3, flit length 3, crossbar length 2 | `RingOK`, `Arrival`, `FifoSpec` (refinement) |
| `credit_link` | 3 flits, 2 channels of 2 places, delay 2, flit length 2 | `CreditsConserved`, `NoOverflow`, `LinkSerial`, `ChannelSpec` (refinement), `CreditsReturn` (liveness) |
| `ioq_link` | 3 flits, 2 channels, an output buffer of 2 places; behind it separate buffers, only a pool, or one reserved place each and a pool | `OutCountersExact`, `NeverOvercommitted`, `LinkSpec` (refinement), `OutputDrains` (liveness) |
| `allocator` | 3 inputs (one of a node, with one channel), 2 channels, 2 outputs, 2 iterations, speed-up 1, flit length 1 | `PetitionsValid`, `SpeedupKept`, `NoInputStarves` (liveness) |
| `dragonfly` | 5 groups of 2 switches with 2 nodes and 2 global links each, 2 packets, both layouts, 3 routings, with and without responses | `CreditsReachSender`, `ChannelsIncrease`, `Delivered` (liveness) |
| `adaptive` | 4 groups of 3 switches, one packet, 97 configurations | `EscapeIncreases`, `PathAsWeighed`, `MandatoryTaken` |
| `congestion` | groups of 2 switches, 4 cycles; each of the four mechanisms | `PbConsistent`, `PbReadWhenDue`, `CaShared`, `CaExact`, `QcnSampledInTime`, `AcorHysteresis` |
| `workloads` | traces of 1 to 5 tasks, Graph500 with 3 processes, 3 nodes with synthetic traffic | `TraceReplayable`, `TimeExact`, `SharedBufferServed`, `CompleteEnd`, `WorkEnds` (liveness) |

Each run checks the module's `TypeOK` as well, which bounds every counter. The
other four runs are counterexamples (section 4).

What the properties that are not plain from their names say:

* `NeverOvercommitted`: what an output buffer and the link have taken of the
  downstream port never exceeds the places of a channel, and what all channels
  take beyond their reserved places never exceeds the pool, which is counted
  exactly on the other side.
* `EscapeIncreases`: whatever marks earlier decisions left in a flit, each port it
  may still wait for can be had with a channel further on in the order; no number
  of packets can then wait in a circle. The exceptions are named in `OutOfOrder`,
  and one is a finding.
* `PathAsWeighed`: a packet makes the number of hops by which its source weighed
  the path, for the routings that compare queues by hops.
* `MandatoryTaken`: a flit misrouted in its source group leaves it by a global
  link, so that it does not come back to where it was.
* `PbConsistent`, `CaShared`: once what is under way to a switch has been read, it
  holds of each other switch what that one holds of itself, or shared last;
  `PbReadWhenDue` that a switch which sends its marks has read all that was due;
  `CaExact` that its own counters are what is queued, or ready to go, each channel
  counted once.
* `QcnSampledInTime`: a port that holds flits is sampled after the interval at the
  latest. `AcorHysteresis`: the status rises only after enough packets were blocked
  in the last hysteresis cycle, and falls only after a whole one in that status.
* `TraceReplayable`: what the reader writes can be replayed to the end and leaves no
  message unreceived, if the records of each task are together, the roots' come
  first and exchanges are among all tasks (conditions the code needs, see below).
  `TimeExact`: a task that only computes has done as much work as the clock shows
  in each simulated cycle, whatever was skipped.
* `SharedBufferServed`: with one flow for petitions
  and responses, each petition that enters the output buffer can be answered when
  it gets to its head, so that no response waits behind one that cannot.
* `CompleteEnd`: when the counters of finished nodes end a burst or an all-to-all, all
  packets have arrived, and in an all-to-all each node has had one of each other. An
  assertion of the pattern fails only where `MayAbort` says (see Observations).
* `WorkEnds`: every traffic ends, except where the code aborts or loops (below). Of
  Graph500 it says what that end is: an assertion that fails (below).
* `TypeOK` of Workloads has more than types of Graph500: which states nodes get to,
  and that the messages of the root carry its queries exactly (`QueriesFit`).

Why the bounds suffice to meet the cases.

*buffer*: four flits over three places wrap the ring and fill it, and a delay as
long as a flit has several arrivals pending at once. *credit_link*: a channel of
two places fills up while a third flit uses the other channel, and a flit, its
predecessor and a credit are under way together; labels in either order; idle
cycles in any number. *ioq_link*: two places shared by two channels are where one
could block the other; flits of all three kinds mix; with one reserved place and a
pool of two, one channel takes the whole pool while the other has its own place
only. *allocator*: two transit inputs and one of a node compete; with two outputs
and two iterations an arbiter is passed over and asked again, a channel that lost
makes room for another one of its input, and a petition is attended after other
outputs were served. Flits take one cycle here: what an input still sends from
earlier cycles enters the arbiters by the same test as what it was granted in this
one, and the counterexample run has two. *dragonfly*: the smallest network in which
switches have several nodes and several global links and groups several switches.
`Traffic` bounds the pairs of source and destination. Packet 1 goes from a node of
each switch of the middle group, with groups on either side, to a node of any
switch, by way of any Valiant node, and so uses links of all groups. Packet 2 goes from one node
of a switch there to another; by way of a Valiant node of the other switch it meets
a packet 1 that does the reverse, and with one place per channel each would wait
for the place of the other if channels did not increase. With responses, packet 1
goes to a node in another group, and packet 2 from that node's neighbour to the same
node, where the two responses need the same injection channel, or the other way,
where petitions and responses meet on a link in both directions. Longer cycles of
packets are excluded by `ChannelsIncrease`: a flit, and a petition that waits until
its response can be injected, only ever wait for channels later in one sequence.

*adaptive*: with three switches in a group the way through a group may have two
local hops and a switch that is neither its entry nor its exit, and four groups
have one that is neither the source's, the destination's nor the Valiant one. The
packet starts in a middle group and goes to nodes of its own switch's neighbours
and of all other groups (`MCTraffic`). One packet suffices, since all properties are
about what a packet may ask for; other packets only make it wait, which `Wait`
lets happen anywhere and any number of times. Five local and two global channels
are those of the longest sequence, so that shorter ones have channels to spare.

*congestion*: in four cycles with delay 1 there are notifications from either
switch to the other, read late after an idle turn, two at once, in either order of
labels. `SharePeriod` is 2 for the code's 100, so that sharing happens twice;
`Capacity`, `FlitSize`, arrivals by three destinations (another group by a local or
a global link, and the own switch) have heads and entries behind them change the
counters in all ways. The hysteresis lasts three cycles with up to two packets
blocked in each, enough to cross both thresholds in one cycle. QCN samples every
three cycles; the feedback is scaled to four levels, and probabilities to three
steps. `MaxCycle` is the end of the simulation (`g_max_cycles`), `MaxBlocked` and
`MaxMoves` bound what happens in one cycle.

*workloads*: three tasks call one or two collectives with any roots, read in
several orders; one trace each has messages after an exchange among five tasks,
communicators that are not the world, alternating records of two tasks, and no
event at all. Graph500: five queries in four messages of at most two, so that they are
filled in different ways; the root is not the first process; `MaxPutOff` bounds how
often flits are put off. Synthetic traffic: `MaxSent` packets per node of traffics without end, `MaxBursts` bursts,
`NetworkSpace` packets of a type in the network; a node more than source and
destination makes petitions meet.

Deadlock is not checked in `dragonfly` and `adaptive`, where all packets end
consumed, in `congestion`, which ends with `MaxCycle`, and in `workloads`, whose
traffics end. `Delivered` and `WorkEnds` exclude the rest. Every check is
exhaustive for its instance; no state constraint is used.

### Fairness

The main loop calls the switches and increments the cycle unconditionally, so
every module has weak fairness of the steps the loop consists of (`Turn`,
`Action`). Nothing is assumed of nodes: they need not inject, and a switch may
stay idle.

* `CreditsReturn` assumes besides that the downstream switch, if it could send a
  flit again and again, sends it some time: `SF(Extract(v))`. This is an
  assumption about the environment of the link: the arbiters alone do not give it
  to each channel in every traffic (see below, `cosArbiter.cc:203`).
* `OutputDrains` assumes nothing of the downstream switch: that is its point.
* `NoInputStarves` is of the form "asks again and again => is granted again
  and again" and assumes only that cycles go on.
* `Delivered` assumes that some packet moves as long as one can, not that each
  one does.
* `WorkEnds` assumes only that the steps of the main loop go on (`WF(Next)`).

## 4. Findings

Four statements of comments in the code are not what the code does.

* `ioq_overlap` / `OneFlitAtATime`: `txFlit` (`ioqSwitchModule.cc:312`) reads the
  entry cycle of the input buffer's head after `xbarTraversal` has extracted it.
  The comment at 309 asks for the maximum of the crossbar length and the remaining
  reception; the second is never seen, and the output takes the next flit while the
  one before is still crossing. With crossbar speed-up this gives an output more
  bandwidth than intended.
* `allocator_petitions` / `PetitionsKept`: with `g_issue_parallel_reqs` a channel
  that tries in vain for an output clears the petition that another channel of the
  same input has made there in the same iteration (`cosArbiter.cc:101`).
* `dragonfly_palm_paths` / `MinPathExact`: `determinePaths`
  (`generatorModule.cc:259`) has the formulas of the consecutive layout only.
  With `g_palm_tree_configuration` the lengths of minimal paths that adaptive
  routing weighs are wrong.
* `adaptive_olm_deadlock` / `NoCircularWait`: with OLM, its base channels and local
  misrouting, a packet that was misrouted within its destination's group keeps its
  channel for the next local hop (`oppVcMngmt.cc:79`), though the comment at 32
  promises "an increasing sequence to break cyclic dependencies": three packets of
  a group wait for each other.

### Observations

What the models had to take into account besides. They follow the code in each
case; `MayAbort` and `Hung` of Nodes, `graphAborted` of Graph500, `outcome` of
TraceReplay and `OutOfOrder` of Adaptive are where a property makes an exception of it.

Allocation and ports
* With parallel requests the speed-up of an input is compared with the channels
  that are sending, not with the requests of the iteration (`inputArbiter.cc:57`;
  the comment at 52 says otherwise), and can be exceeded.
* A channel counts as served when it makes a petition (`cosArbiter.cc:203`), so that
  a regular pattern of other requests can pass it over for ever.
* `getTotalOccupancy` of `dynBufOutPort.h` has two parameters and hides the virtual
  function with three (`dynBufOutPort.cc:56`), so that routing in a switch without
  output buffers sees one channel's occupancy.

Routing and channels
* With flexible channels, OBL and SRC_ADP packets that stay in their group and go
  by way of another take the channels of the destination group first
  (`flexVc.cc:211`). With exactly the channels the hops need, the same routings
  run into the assertion at `flexVc.cc:298`.
* CAR with base channels decides anew in transit and may run out of channels
  (`vcMngmt.cc:174`; compare `car.cc:128` with the comment at 396).
* `flexVc.cc:74,78` ask for the size of the list of global channels, which counts
  the channels beyond those the hops need too.
* ACOR keeps `valNodeReached` when it chooses another Valiant node (`acor.cc:165`);
  `acor.cc:213-216` falls through for want of a `break`.
* The length of the Valiant path (`generatorModule.cc:303`) leaves out hops.
* RLM and OFAR abort at once (`rlm.cc:154`, `ofar.cc:43`).
* With `MM` or `MM_L` misrouting, which is the default (`global.cc:195`), PB_ACOR
  and CAR can stop at `switchModule.cc:1417`: a packet that must leave its group may
  have a Valiant node in it, or a link that leads home.
* CAR with flexible channels can turn in its source group for as long as it finds
  channels (`car.cc:98`): the hops of its packets are bounded by the channels only.
* The flexible management aborts at its start for sequences that have opportunistic
  local hops, if there are more global channels than the hops need
  (`flexVc.cc:101`).

Congestion information
* A contention counter keeps a flit behind a longer one in a switch with output
  buffers (`caHandler.cc:195`); idle switches share nothing (`caHandler.cc:159`).
* QCN's feedback is computed in a `short` that the largest default buffers overflow
  (`switchModule.cc:1526`), the policies MIMD and MIAD can lower the rate below its
  minimum, and `qlenOld` is as old as the last cycle in which the switch acted.
* Nothing is asked of ACOR's second rising and first falling thresholds; with
  a hysteresis of 0 cycles the status never falls.

Nodes and traffics
* An all-to-all takes its next destination before the node knows that there is
  room: with destination-based channels the destination is lost, and the pattern
  fails an assertion at its end (`all2all.cc:87`); with more than one phase it always
  does. The last node of a random permutation may have only itself left and draws
  for ever (`steady.cc:140`). Burst generators ignore `g_max_petitions_on_flight`.
* The first message from one node to another in a trace crashes: its data are
  written to the member `flit`, which is NULL (`traceGenerator.cc:150`). Roots of
  collectives are known only when the root's records come first (`trace.cc:187`);
  exchanges in sub-communicators use task numbers as ranks (`trace.cc:597`);
  records of tasks that alternate abort (`trace.cc:548`).
* No simulation of Graph500 gets past level 0. The flit of a signal needs an injection
  channel (`graph500Generator.cc:395`, 194), and `getInjectionVC`
  (`generatorModule.cc:341-344`) takes all types but `RESPONSE` and `CNM` for
  petitions, whose channels (`injPetVcs`) are none when traffic is not reactive
  (`generatorModule.cc:75-78`). Graph500 never is (`dgflySimulator.cc:362-384`). The
  assertion at `generatorModule.cc:360` fails at the first signal of the root; with
  `RAND` injection the channel is -1 and `getCredits` fails one
  (`switchModule.cc:525`). The Makefile does not define `NDEBUG`. The results of the
  reductions (`ALLREDUCE`) would meet the same. `WorkEnds` states this end.
* A `GraphCoalescingSize` of 1 can make more messages than queries and fail an
  assertion (`QueriesFit`).

## 5. Proofs

TLAPS checks the theorems for every value of the constants that satisfies the
modules' named `ASSUME`s, which ask only that sizes are positive and that times and
delays are natural numbers (zero included), and for:

* *Buffer, links, Allocator*: a crossbar length between one cycle and the flit
  length; the link's flits and channels are any finite sets.
* *IoqLink*: reserved places and pool of a channel together are its capacity at
  most; flits cross in no less time than the crossbar takes and no more than a flit.
* *Allocator*: fewer injection ports than ports.
* *Contention*: destinations whose port and group are known, and the different names
  of ports and groups; *Acor*: thresholds that fall are below those that rise.
* *Qcn*: finitely many ports, a least rate that is a probability, and a gain by which
  the strongest feedback takes off less than the whole rate.
* *Dragonfly*: `LengthsAssumption`, which the code checks at the start, and a traffic
  between nodes there are. Any number of packets, nodes and links per switch, and
  switches per group.
* *Adaptive*: the same of its own channels (`EnoughChannels` for each configuration),
  and configurations that are `Accepted`. `Traffic` need only be between nodes.
* *Nodes*: two nodes at least, sizes that are positive, and reactive traffic only with
  the patterns that have it and with channels for both types. Any set of
  configurations: patterns, injection policies, one flow or two.
* *Graph500*: two nodes at least, each with one process, one of them the root's. Any
  number of queries, of queries in a message, of cycles a query takes.

Some theorems ask for more, and say so in their statement: `SpeedupCorrect`,
`QueuedExact`, `CountsExact`, `PathsExact`, `EscapeThere`, `NoCircleInOrder` and
`QueriesCarried` (below). Every invariant was checked by TLC on the instance of
section 3 before it was proved.

**BufferProofs.** `ArrivalInv == TypeOK /\ RingOK /\ LastArrival /\ Arrival` is
inductive. `RingOK` with the types is so by itself: the steps come down to which
slots lie between head and tail when either moves by one. `Arrival` is not: that
an inserted flit arrives a flit length after the last one follows from
`receiving = 0` only together with `LastArrival`, which relates the newest
arrival to what `receiving` still counts. From it: `TypeCorrect`, `RingCorrect`,
`ArrivalCorrect`. `ImplementsFifo` is the refinement: the sequence of the slots
from head on is a BoundedFifo; insertion is `Put`, extraction `Take`, reordering
`Release` when a flit was extracted and a stutter when none was, `Tick` a stutter.

**CreditLinkProofs.** `IInv == TypeOK /\ CreditsConserved /\ QueueExact /\
LeavingCredit` is inductive. `CreditsConserved` equates counters with
cardinalities of sets of flits, so each step needs how the set changes by one
flit, or by the whole set of credits read at once. `QueueExact` says that a
channel's queue holds exactly the flits that are in its buffer, each once;
`LeavingCredit` that when a flit has left in this turn and its place is not given
back, there is a credit of that channel that cannot have been read yet. The last
is the heart of `OverflowFree`: the flits in the queue and that credit are distinct
holders of credits (an injection into `Holders(v)`), so the places taken never
exceed the credits taken. `ImplementsChannels` follows: a credit makes `Put`
enabled, although the code never looks at the place. `LinkCorrect` uses an
invariant of its own, `LinkInv == TypeOK /\ OnLink /\ LinkSerial`, where
`OnLink` relates arrival cycles with `receiving`, as `LastArrival` does above.

**IoqLinkProofs.** Each step of the port is a step of CreditLink or leaves the link
as it is (`ImplementsLink`), so that `CL!IInv` and with it the theorems about
CreditLink hold here (`LinkCorrect`). What is new is the output buffer and the
pool. `OutCountersExact` needs `OutFlits`: no flit is in the buffer twice, nor in it
and on the link. The pool is counted on either side in another way: the sender
adds what is in the output buffer and what credits are out (`LoadBound`), the
receiver what its queues hold beyond the reserved places (`PoolExact`). A departure
moves a flit from one term of the first sum to the other; the second never
exceeds the first, because the queues hold no more flits than there are credits
out, channel by channel. Hence the pool never runs out at an insertion
(`TypeCorrect`), which the receiver does not check.

**AllocatorProofs.** `PetitionsValid` becomes inductive with `Positions`, by which no
petition outlives its iteration: a grant changes the channel that was granted and the
output, and no other output has a petition of that channel, as the head of
its queue asks for one output only. Credits at one output are not touched by grants at
another, and come back only between cycles. `SpeedupKept` is proved without
parallel requests (`SpeedupCorrect`): then an input has at most one petition when
it makes the next request, and `Budget` says that channels that send and petitions
that may become such are together within the speedup. With parallel requests
`checkPort` (`inputArbiter.cc:57`) does not count the petitions already filed, and the
proof fails where the code does; what is true is `SpeedupBounded`: no more than
`Speedup - 1 + MaxRequests`. `ListsCorrect` says of the least-recently-served lists
that they remain permutations, injection ports behind the transit ports: rotating
them never loses a port.

**CongestionProofs.** One mechanism is chosen at the start, so that the invariant is
the conjunction of those of the parts, each of which is kept by its own steps and
untouched by the others'.
* *Notifications* (`PbConsistent`, `CaShared`). What is read is a prefix of the
  queue; that what is due forms one follows from the order of the times in it
  (`InOrder`), which the turns keep: a notification is due a delay after the
  sender's cycle, and the cycle never decreases. `MarksReadWhenDue` is the
  action property of the same invariant.
* *Counters*. `QueuedCounted` (`QueuedExact`): when all that is queued counts, the
  counter of a port is the number of queue entries for it, as a set of pairs
  of channel and place that an insertion extends by one and an extraction shifts.
  `CountsExact` is about the other policies: the set of channels that
  count, and `SendingCounted`, which keeps the flits that are still crossing the
  crossbar. It assumes `XbarLength = FlitSize`. With output buffers and a faster
  crossbar the statement is not true of the code: a flit that takes longer to
  arrive stays at the front of its list and keeps those behind it counted
  (`caHandler.cc:195`); TLC checks an instance in which the two are equal.
* *Acor.* `HysteresisKept` is about the last `HysteresisCycles` cycles, not about the
  last step. `AcorIInv` ties the counters to the history: `blocked` is what the
  history says for as many cycles as have passed since the reset (`SinceReset`).
* *Qcn.* `SampledInTime`: the cycles a port went unsampled and its counter make the
  interval at most.
* *Types.* `TypesCorrect` is about all that a configuration keeps. Of QCN it says that
  the feedback of a queue stays within its quantisation, whatever the `short`
  made of it, and that each probability stays one, in all four implementations and
  policies. The share of a port is a sum over the ports by a fold: what a fold
  returns is shown by taking, of the sets for which it would be something else, one
  of the least size.

**DragonflyProofs.** The first half is about the tables, for every size and both
layouts: division and remainder name each switch, node, and global link once
(`SwitchParts`, `GroupLinkTo`), both ends of a link agree (`LinksBothWays`), and each
hop of the minimal path leads nearer to the destination, by the kind of link that is
due (`NearOfNext`). `CreditsCorrect` follows, and replaces the enumeration of the
tables.

The second half is about packets. `IInv` says of each that it came by the i-th
hop of the sequence of its routing and is in that hop's channel (`At`), has made no
more than i hops, and that i is small enough to leave a hop of the sequence for
each one still to be made: those to the Valiant node and, behind it, three to the
destination (`Bound`). Without the last part the next hop could lie behind
the end of the sequence; the code would then use an index that was never assigned
(`vcMngmt.cc:141`). `HopFound` shows that it never does, which makes `TypeCorrect`
more than types: a channel the link has is found for every hop. `ChannelOfHop`, that
different hops of petitions and responses have different channels, is where
`LengthsAssumption` is needed.

* `ChannelsRise` is the action property: the hop found is later than the last one.
* `DeadlockFree` is what `ChannelsIncrease` is for, and is stated for any traffic and
  number of packets. A set of channels in use has a last one in the sequence; the
  packet in it waits for a later channel, which is free, or, as a petition at
  its destination, for the injection channel of responses, which comes after all
  of petitions. It is no property of a run: `CanMove` restates the
  guards of `Hop`, `Answer` and `Consume`, and TLC has `Delivered`, which is stronger
  on its instance.
* `ArrivesHome` is what `Delivered` says of the end: the packet is at its own
  node, or the response at the one that asked, and has been at its Valiant node's
  group or switch. `PathsBounded` bounds the hops between nodes.
* `PathsExact`: in the consecutive layout `determinePaths` computes the
  number of hops the tables lead through, by `PathKept`: hops made and hops left add
  up to it. In the palm tree layout this is the finding `dragonfly_palm_paths`.

**AdaptiveProofs.** A flit is routed again whenever an arbiter looks at it, so that
nothing is known of it but what every sequence of decisions keeps. `IInv` is that, in
seven parts:
* `PathBounded`: the hops made and those that may be ahead (`Ahead`, which knows the
  misroutings that the flags still allow) are eight at most;
* `InOrder`: its channel is the one of a hop of the sequence, and that hop is no
  later than its place in the network allows (`Furthest`). This is what makes
  `nextChannel` find a hop in the rest of the sequence, each time;
* `Injected`: what is so before the first hop, when all is still to be decided;
* `Weighed`: hops made and hops left add up to the length that was weighed;
* `Flagged`, `Misroutes`: what `mandatoryGlobal`, the flags of local and global
  misrouting and `valNodeReached` say of where the flit is. Without them
  `PathBounded` and `InOrder` are not inductive: a flag that stayed up in another group
  would allow a hop that the sequence does not have.
* Last, that flits of packets at their source and consumed ones are what they are left
  as.

The proof has four parts. Geometry: what a hop of minimal routing does to the
distance, and where a link off the path leads, from the theorems of DragonflyProofs.
Channels: which hop of the sequence `nextChannel` gives a flit. Routings: for Valiant routings, ACOR, CAR and in-transit misrouting in
turn, what `enroute` may make of a flit; a flit that waits keeps the invariant, and so
does one that moves. Then the steps of the invariant, and from it:
* `TypesCorrect`: in all accepted configurations, no table or sequence is read beyond
  its end, and paths have eight hops at most, with the exception of CAR with
  flexible channels (see Observations).
* `HopsAsWeighed` (`PathAsWeighed`) and `MandatoryMisroutes` (the action property
  `MandatoryTaken`).
* `EscapeThere` is `EscapeIncreases` for the base management, the one in which the
  order of channels is that of the hops. `NoCircleInOrder` is what it is for: in any
  set of packets one has the last channel of all, and waits for one that none of them
  holds. It needs that all flits keep the order, which is not so of CAR and of OLM
  within a group; `adaptive_olm_deadlock` is the circle that OLM's make.

**TrafficProofs.** *Nodes.* `PetitionsAnswered` is `SharedBufferServed`. A petition
enters the output buffer only if the petitions there and itself can all be answered
(`ioqSwitchModule.cc:443-447`), but by the time it is at the head others have used
some of the room. `Answerable` is inductive: of each petition in the buffer, the
petitions up to it are no more than the credits of the channels for its answer. An
answer takes one credit at most of these channels and the petition ahead of all
others; what a node sends itself uses the channels of petitions, and with one flow
there is no other way for an answer (`OneFlow`). Credits are a sum over channels,
treated like the folds of CongestionProofs.

`NodesTypesCorrect` bounds every buffer and counter, and is the first part of what
comes next. `TrafficComplete` is `CompleteEnd`. Its invariant is
`EndIInv == NodesIInv /\ Fine`, and `Fine` has four parts.
* `Counts`. What a node has sent is what has arrived and the packets of it that are
  still in an injection buffer, the network or an output buffer (`Accounted`);
  `pendingPetitions` are those of its petitions, and of the responses to them, that
  are in one of these. Packets are counted as a set of places, so that a step that
  moves one takes a place out of one set and adds one to another. And `finishedCount` is
  the number of nodes with all their packets arrived.
* `AllToAll`. Each destination a node has taken has had its packet or it is on its way
  (`Served`), unless more were taken than packets sent, which happens only where
  `MayAbort` says.
* `Roomy`. A node that begins a burst has a channel with room for its first packet,
  which the code does not check again.
* `Aborted`. Assertions fail only where `MayAbort` says.

So when all nodes are counted as finished each has had as many packets arrive as it has
to send, none of its packets is left anywhere, and in an all-to-all the destinations
it has taken are all the others.

*Graph500.* `QueriesCarried` is `GraphTypeOK`: the queries left are as many as the
messages left can carry and leave none of them empty (`QueriesFit`), and no node gets
to a state beyond the first signal. Queries go to *E* nodes on
average, in *E* ceil(*q* / (*E* c)) messages with *c* queries each. Those are enough;
that they are not too many needs *E* to be *q* at most, which is Bernoulli's
inequality. The powers in it are a recursive function (`Power`), and that there is
such a function is shown by the least argument for which there would be none.
`GraphIInv` adds what a message that waits for room was given (`Filled`), since
what it is computed from must not change before it goes, and that the other nodes have
nothing to send and wait for a signal that does not come (`WaitsAt`). More than one
query has to go in a message: `GraphCoalescingSize` 1 is the exception under
Observations.

### Model-checked only

* Liveness: `CreditsReturn`, `OutputDrains`, `NoInputStarves`, `Delivered`, `WorkEnds`.
  Fairness and ENABLED are beyond the prover. `DeadlockFree`, `ArrivesHome` and
  `PathsBounded` are what is safety in `Delivered`.
* `EscapeIncreases` under the flexible managements, where the order is that of the
  channel numbers. It comes down to how many channels each of them leaves for the
  hops that are still to be made, sequence by sequence; `EscapeThere` has the base
  management.
* `TypeOK` of Workloads as a whole. Its parts are proved for Graph500
  (`QueriesCarried`) and Nodes (`NodesTypesCorrect`); the state of traces is recursive.
* `TraceReplayable` and `TimeExact`: replaying is recursive over the records.

## 6. Not modelled

* Channels of responses under adaptive routing (`flexVc.cc`, `tbFlexVc.cc` and
  `oppVcMngmt.cc` add some of their own): Adaptive has traffic without responses.
  Dragonfly has responses in the network, Nodes at both ends of it.
* Channel schemes of RLM and QCN; RLM and OFAR themselves abort, and with them the
  escape ring and tree cannot be reached.
* QCN that samples output ports; the shared output pool of `dynBufOutPort.cc`.
* Packets of several flits (wormhole locks of a channel).
* Arbiters other than LRS; classes of service (one is used everywhere).
* Signals, reductions and levels of Graph500 (`levelstart`, `sendp2psignal`,
  `allreduceaggregate`, `allreducebroadcast`, the end of a level in the main loop): they
  are behind the assertion that fails at the first signal (Observations).
* The overflow of QCN's `short`, for which queues would have to be as long as real ones:
  `QcnSampledInTime` is about the sampling alone.
* Hops of the network between injection and consumption in Workloads.
* Statistics, configuration files, printing: no influence on the network.
* `routing/flexibleRouting.cc` is not compiled.

## 7. Plan

Done: BoundedFifo and Buffer with proofs; CreditLink with proofs; IoqLink with
shared buffers; Allocator; Topology, VcMngmt and Dragonfly; Adaptive; Congestion
with Piggyback, Contention, Acor and Qcn; Workloads with traces, Graph500 and
synthetic nodes.

Next, the model: channels of responses under the flexible schemes; the round-robin
and age arbiters behind the Allocator; packets of several flits.

The proofs are done for the safety of all of these but the traces, whose reader and
replay would have to be stated without recursion over records. With a model of the
responses under the flexible schemes, `EscapeIncreases` of the flexible managements
would be next.
