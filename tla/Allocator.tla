----------------------------- MODULE Allocator -----------------------------
(***************************************************************************)
(* The allocator of one switch (switchModule::action, lines 710-788): in   *)
(* every iteration of a cycle each input arbiter chooses heads of its      *)
(* channels that may move on (inputArbiter.cc, cosArbiter.cc) and the      *)
(* switch files their petitions; then each output arbiter attends one      *)
(* petition (outputArbiter.cc) and the flit crosses the switch.            *)
(*                                                                         *)
(* Both kinds of arbiter serve the least recently served first             *)
(* (lrsArbiter.cc); output arbiters keep injection ports behind transit    *)
(* ports (priorityLrsArbiter.cc).  A step is one call of an arbiter with   *)
(* what the switch does with its answer.                                   *)
(*                                                                         *)
(* Around the allocator, between cycles: flits come to the head of a       *)
(* channel with the output their route asks for, credits come and go.      *)
(* Packets have one flit and one class of service.                         *)
(***************************************************************************)
EXTENDS Integers, FiniteSets, Sequences

CONSTANTS
    Inputs, VCs, Outputs,   \* their numbers; ports count from 1
    InjectionPorts, \* inputs 1..InjectionPorts come from nodes
    InjectionChannels,  \* g_injection_channels: the channels nodes use
    Iterations,     \* g_allocator_iterations
    Speedup,        \* g_local_arbiter_speedup: crossbar ports of an input
    ParallelRequests,   \* g_issue_parallel_reqs
    FlitSize,       \* cycles a flit takes to arrive over a link
    XbarLength      \* cycles it keeps its output: FlitSize without output
                    \* buffers, g_flit_size / g_internal_speedup with them

ASSUME SizeAssumption ==
    /\ Inputs \in Nat \ {0}
    /\ VCs \in Nat \ {0}
    /\ Outputs \in Nat \ {0}
    /\ InjectionPorts \in 0..(Inputs - 1)
    /\ InjectionChannels \in 1..VCs
    /\ Iterations \in Nat \ {0}
    /\ Speedup \in Nat \ {0}
    /\ ParallelRequests \in BOOLEAN
    /\ FlitSize \in Nat \ {0}
    /\ XbarLength \in 1..FlitSize

None == 0   \* no output, no channel

VARIABLES
    phase,      \* "between" cycles, "input" or "output" arbitration
    iteration,  \* g_iteration + 1
    port,       \* the port whose arbiter is called next
    request,    \* in_req + 1
    wants,      \* input, channel -> output of the flit at the head, or None
    credit,     \* input, channel -> petitionCondition finds credits for the
                \* flit at the head (TRUE if there is none)
    sending,    \* input, channel -> cycles until it may send again
    busy,       \* output -> cycles until it can receive
    inList,     \* input -> its channels, least recently served first
    outList,    \* output -> the inputs, in the order they are looked at
    petitions,  \* output, input -> channel with a petition, or None
    reservedInPort,     \* channels of this input that made a petition
    reservedOutPort     \* outputs that got one from this input

where == <<phase, iteration, port, request>>
flits == <<wants, credit>>
timers == <<sending, busy>>
lists == <<inList, outList>>
vars == <<where, flits, timers, lists, petitions, reservedInPort, reservedOutPort>>

InPorts == 1..Inputs
OutPorts == 1..Outputs
Channels == 1..VCs

MaxRequests == IF ParallelRequests THEN Speedup ELSE 1

Later(n) == IF n = 0 THEN 0 ELSE n - 1

NoPetitions == [o \in OutPorts |-> [i \in InPorts |-> None]]

(* The list with served moved to place last and those after it, up to that *)
(* place, moved up (lrsArbiter and priorityLrsArbiter::reorderPortList).   *)
MoveBack(list, served, last) ==
    LET k == CHOOSE k \in 1..last : list[k] = served
    IN  [j \in DOMAIN list |-> IF j < k \/ j > last THEN list[j]
                               ELSE IF j < last THEN list[j + 1] ELSE served]

(* Faulty: the list stays as it is.                                        *)
ReorderNothing(list, served) == list

(* An injection port stays among the last places, a transit port among the *)
(* first.                                                                  *)
ReorderOutputs(list, served) ==
    MoveBack(list, served,
             IF served <= InjectionPorts THEN Inputs ELSE Inputs - InjectionPorts)

(* Faulty: one more sender than there are crossbar ports.                  *)
InputFreeOneMore(i) ==
    Cardinality({v \in Channels : sending[i][v] > 0}) <= Speedup

(* inputArbiter::checkPort                                                 *)
InputFree(i) == Cardinality({v \in Channels : sending[i][v] > 0}) < Speedup

(* cosArbiter::portCanSendFlit, and the channel has no petition yet        *)
CanTry(i, v) == wants[i][v] # None /\ sending[i][v] = 0 /\ v \notin reservedInPort

(* cosArbiter::petitionCondition                                           *)
PetitionCondition(i, v) == credit[i][v] /\ busy[wants[i][v]] = 0

(* The places of the list where the arbiter would stop.                    *)
Stops(i) == {k \in Channels : CanTry(i, inList[i][k]) /\ PetitionCondition(i, inList[i][k])}

(* The outputs at which channels in the first n places of the list have    *)
(* tried in vain: cosArbiter::attendPetition clears their petition.        *)
Cleared(i, n) ==
    {wants[i][inList[i][k]] : k \in {k \in 1..n : CanTry(i, inList[i][k])
                                       /\ ~PetitionCondition(i, inList[i][k])}}
-----------------------------------------------------------------------------
Init ==
    /\ phase = "between"
    /\ iteration = 1
    /\ port = 1
    /\ request = 1
    /\ wants = [i \in InPorts |-> [v \in Channels |-> None]]
    /\ credit = [i \in InPorts |-> [v \in Channels |-> TRUE]]
    /\ sending = [i \in InPorts |-> [v \in Channels |-> 0]]
    /\ busy = [o \in OutPorts |-> 0]
    /\ inList = [i \in InPorts |-> [k \in Channels |-> k]]
    /\ outList = [o \in OutPorts |->
                    [k \in InPorts |-> IF k + InjectionPorts > Inputs
                                       THEN k + InjectionPorts - Inputs
                                       ELSE k + InjectionPorts]]
    /\ petitions = NoPetitions
    /\ reservedInPort = {}
    /\ reservedOutPort = {}

(* Between cycles: a flit comes to the head of a channel, with a credit or *)
(* without; credits come, or go to the flits of other inputs.              *)
Arrive(i, v, o) ==
    /\ phase = "between"
    /\ i <= InjectionPorts => v <= InjectionChannels
    /\ wants[i][v] = None
    /\ wants' = [wants EXCEPT ![i][v] = o]
    /\ \E c \in BOOLEAN : credit' = [credit EXCEPT ![i][v] = c]
    /\ UNCHANGED <<where, timers, lists, petitions, reservedInPort,
                   reservedOutPort>>

CreditChange(i, v) ==
    /\ phase = "between"
    /\ wants[i][v] # None
    /\ credit' = [credit EXCEPT ![i][v] = ~@]
    /\ UNCHANGED <<where, wants, timers, lists, petitions, reservedInPort,
                   reservedOutPort>>

Start ==
    /\ phase = "between"
    /\ phase' = "input"
    /\ UNCHANGED <<iteration, port, request, flits, timers, lists, petitions,
                   reservedInPort, reservedOutPort>>

(* Faulty: one request too many.                                           *)
AfterRequestOneMore ==
    \/ /\ request <= MaxRequests
       /\ request' = request + 1
       /\ UNCHANGED <<phase, iteration, port>>
    \/ /\ request > MaxRequests
       /\ request' = 1
       /\ IF port < Inputs THEN port' = port + 1 /\ phase' = phase
                           ELSE port' = 1 /\ phase' = "output"
       /\ UNCHANGED iteration

(* After a call of an input arbiter: its next request, the next input, or  *)
(* the output arbiters.  Each input starts without reservations.           *)
AfterRequest ==
    \/ /\ request < MaxRequests
       /\ request' = request + 1
       /\ UNCHANGED <<phase, iteration, port>>
    \/ /\ request = MaxRequests
       /\ request' = 1
       /\ IF port < Inputs THEN port' = port + 1 /\ phase' = phase
                           ELSE port' = 1 /\ phase' = "output"
       /\ UNCHANGED iteration

Reserve(inPort, outPort) ==
    IF request < MaxRequests
    THEN reservedInPort' = inPort /\ reservedOutPort' = outPort
    ELSE reservedInPort' = {} /\ reservedOutPort' = {}

(* inputArbiter::action finds no channel.                                  *)
NoRequest ==
    /\ phase = "input"
    /\ ~(InputFree(port) /\ Stops(port) # {})
    /\ petitions' =
         [o \in OutPorts |-> [petitions[o] EXCEPT ![port] =
             IF InputFree(port) /\ o \in Cleared(port, VCs) THEN None ELSE @]]
    /\ Reserve(reservedInPort, reservedOutPort)
    /\ AfterRequest
    /\ UNCHANGED <<flits, timers, lists>>

(* inputArbiter::action returns channel v, which counts as served; its     *)
(* petition is filed unless this input has one at that output already.     *)
Request ==
    /\ phase = "input"
    /\ InputFree(port)
    /\ Stops(port) # {}
    /\ LET k == CHOOSE k \in Stops(port) : \A l \in Stops(port) : k <= l
           v == inList[port][k]
           o == wants[port][v]
           filed == o \notin reservedOutPort
       IN  /\ petitions' =
                [p \in OutPorts |-> [petitions[p] EXCEPT ![port] =
                    IF p = o /\ filed THEN v
                    ELSE IF p \in Cleared(port, k - 1) THEN None ELSE @]]
           /\ IF filed THEN Reserve(reservedInPort \cup {v}, reservedOutPort \cup {o})
                       ELSE Reserve(reservedInPort, reservedOutPort)
           /\ inList' = [inList EXCEPT ![port] = MoveBack(@, v, VCs)]
    /\ AfterRequest
    /\ UNCHANGED <<flits, timers, outList>>

(* Faulty: petitions outlive their iteration.                              *)
AfterGrantKeeping(filed) ==
    /\ petitions' = filed
    /\ IF port < Outputs
       THEN port' = port + 1 /\ UNCHANGED <<phase, iteration>>
       ELSE /\ port' = 1
            /\ IF iteration < Iterations
               THEN phase' = "input" /\ iteration' = iteration + 1
               ELSE phase' = "end" /\ iteration' = 1

(* After an output arbiter: the next one, the next iteration (which clears *)
(* all petitions), or the end of the cycle.                                *)
AfterGrant(filed) ==
    IF port < Outputs
    THEN /\ port' = port + 1
         /\ petitions' = filed
         /\ UNCHANGED <<phase, iteration>>
    ELSE /\ port' = 1
         /\ petitions' = NoPetitions
         /\ IF iteration < Iterations
            THEN phase' = "input" /\ iteration' = iteration + 1
            ELSE phase' = "end" /\ iteration' = 1

NoGrant ==
    /\ phase = "output"
    /\ busy[port] > 0 \/ \A i \in InPorts : petitions[port][i] = None
    /\ AfterGrant(petitions)
    /\ UNCHANGED <<request, flits, timers, lists, reservedInPort, reservedOutPort>>

(* outputArbiter::action attends the first petition of its list, and       *)
(* xbarTraversal moves the flit.  It keeps its input channel the longer    *)
(* the more of it is still to arrive (see TxLength of Buffer).             *)
Grant ==
    /\ phase = "output"
    /\ busy[port] = 0
    /\ \E k \in InPorts :
        LET i == outList[port][k]
            v == petitions[port][i]
        IN  /\ v # None
            /\ \A l \in 1..(k - 1) : petitions[port][outList[port][l]] = None
            /\ outList' = [outList EXCEPT ![port] = ReorderOutputs(@, i)]
            /\ wants' = [wants EXCEPT ![i][v] = None]
            /\ credit' = [credit EXCEPT ![i][v] = TRUE]
            /\ \E length \in XbarLength..FlitSize :
                   sending' = [sending EXCEPT ![i][v] = length]
            /\ busy' = [busy EXCEPT ![port] = XbarLength]
            /\ AfterGrant([petitions EXCEPT ![port][i] = None])
    /\ UNCHANGED <<request, inList, reservedInPort, reservedOutPort>>

Tick ==
    /\ phase = "end"
    /\ phase' = "between"
    /\ sending' = [i \in InPorts |-> [v \in Channels |-> Later(sending[i][v])]]
    /\ busy' = [o \in OutPorts |-> Later(busy[o])]
    /\ UNCHANGED <<iteration, port, request, flits, lists, petitions,
                   reservedInPort, reservedOutPort>>

(* switchModule::action, called every cycle.                               *)
Action == Start \/ NoRequest \/ Request \/ NoGrant \/ Grant \/ Tick

Next ==
    \/ Action
    \/ \E i \in InPorts, v \in Channels, o \in OutPorts : Arrive(i, v, o)
    \/ \E i \in InPorts, v \in Channels : CreditChange(i, v)

Spec == Init /\ [][Next]_vars

FairSpec == Spec /\ WF_vars(Action)
-----------------------------------------------------------------------------
(* The values each variable may take.                                      *)
TypeOK ==
    /\ phase \in {"between", "input", "output", "end"}
    /\ iteration \in 1..Iterations
    /\ port \in InPorts \cup OutPorts
    /\ request \in 1..MaxRequests
    /\ wants \in [InPorts -> [Channels -> OutPorts \cup {None}]]
    /\ credit \in [InPorts -> [Channels -> BOOLEAN]]
    /\ sending \in [InPorts -> [Channels -> 0..FlitSize]]
    /\ busy \in [OutPorts -> 0..FlitSize]
    /\ inList \in [InPorts -> [Channels -> Channels]]
    /\ outList \in [OutPorts -> [InPorts -> InPorts]]
    /\ petitions \in [OutPorts -> [InPorts -> Channels \cup {None}]]
    /\ reservedInPort \subseteq Channels
    /\ reservedOutPort \subseteq OutPorts

(* What xbarTraversal asserts when a petition is attended, after other     *)
(* outputs were served in the same iteration: the flit is still the one    *)
(* that asked for this output, it may be sent, and it has its credit       *)
(* (switchModule.cc:1253 and 1311).                                        *)
PetitionsValid ==
    \A o \in OutPorts, i \in InPorts :
        LET v == petitions[o][i]
        IN  v # None => /\ wants[i][v] = o
                        /\ sending[i][v] = 0
                        /\ credit[i][v]

(* "the allocator speed-up is not exceeded" (inputArbiter.cc:51): an input *)
(* never sends over more crossbar ports than it has.                       *)
SpeedupKept ==
    \A i \in InPorts : Cardinality({v \in Channels : sending[i][v] > 0}) <= Speedup

(* g_issue_parallel_reqs "allows to make as many requests as speedup in a  *)
(* single allocation iteration" (global.h:90): a petition that was filed   *)
(* stays until the output arbiters have seen it.                           *)
PetitionsKept ==
    [][phase = "input" => \A o \in OutPorts :
           petitions[o][port] # None => petitions'[o][port] = petitions[o][port]]_vars

(* A transit port that goes on filing petitions at an output is granted    *)
(* that output again and again.                                            *)
Granted(o, i) == \E v \in Channels : wants[i][v] = o /\ wants'[i][v] = None
NoInputStarves ==
    \A o \in OutPorts : \A i \in (InjectionPorts + 1)..Inputs :
        []<>(petitions[o][i] # None) => []<><<Granted(o, i)>>_vars

=============================================================================
