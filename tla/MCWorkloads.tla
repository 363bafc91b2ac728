----------------------------- MODULE MCWorkloads -----------------------------
(***************************************************************************)
(* Small traces, a small Graph500 instance, and synthetic traffics of      *)
(* three nodes.                                                            *)
(***************************************************************************)
EXTENDS Workloads

MCHost == <<2, 1, 3>>

Cpu(cycles) == [op |-> "CPU", cycles |-> cycles]
Send(to) == [op |-> "Send", to |-> to]
Recv(from) == [op |-> "Recv", from |-> from]
Mpi(call) == [op |-> call]
Collective(kind, comm, root) == [op |-> kind, comm |-> comm, root |-> root]

(* The record of a task in the file: a task knows whether it is the root.  *)
RecordOf(t, r) ==
    IF r.op \in {"CPU"} THEN [task |-> t, op |-> r.op, cycles |-> r.cycles]
    ELSE IF r.op = "Send" THEN [task |-> t, op |-> r.op, to |-> r.to]
    ELSE IF r.op = "Recv" THEN [task |-> t, op |-> r.op, from |-> r.from]
    ELSE IF r.op \in Collectives
         THEN [task |-> t, op |-> r.op, comm |-> r.comm, isroot |-> r.root = t]
    ELSE [task |-> t, op |-> r.op]
RecordsOf(t, program) == [i \in DOMAIN program |-> RecordOf(t, program[i])]

(* A file with the programs of the tasks in an order.                      *)
File(order, program) ==
    FlattenSeq([i \in DOMAIN order |-> RecordsOf(order[i], program[order[i]])])

World(n) == [k \in 1..n |-> k - 1]
Trace(n, comms, file, cut) == [tasks |-> n, comms |-> comms, file |-> file, cutmpi |-> cut]

(* Three tasks that call the same one or two collectives, with any roots,  *)
(* read in any order.                                                      *)
Calls == {Collective("Alltoall", 1, 3)}
            \cup {Collective(kind, 1, root) : kind \in {"Bcast", "Reduce"}, root \in 0..2}
Programs == {<<c>> : c \in Calls} \cup {<<c, d>> : c, d \in Calls}
TaskOrders == {<<0, 1, 2>>, <<1, 2, 0>>, <<2, 1, 0>>}
CollectiveTraces ==
    {Trace(3, <<World(3)>>, File(o, [t \in 0..2 |-> p]), FALSE) : o \in TaskOrders, p \in Programs}

(* An exchange among five, after which the first task has a message for    *)
(* the last.                                                               *)
ExchangeTrace ==
    Trace(5, <<World(5)>>,
          File(World(5), [t \in 0..4 |->
            <<Collective("Alltoall", 1, 9)>> \o
                (IF t = 0 THEN <<Send(4), Send(0)>>
                 ELSE IF t = 4 THEN <<Recv(0), Recv(4)>> ELSE <<>>)]), FALSE)

(* Tasks that compute, with a computation before MPI_Init and after        *)
(* MPI_Finalize that is cut, or not; and tasks with communicators of their *)
(* own, whose messages go to themselves.                                   *)
ComputeTraces ==
    {Trace(2, <<>>, File(<<0, 1>>, [t \in 0..1 |->
        IF t = 0 THEN <<Cpu(2), Mpi("Init"), Cpu(a), Cpu(2), Mpi("Finalize"), Cpu(1)>>
                 ELSE <<Cpu(b)>>]), cut) : a, b \in {1, 4, 6}, cut \in BOOLEAN}
SelfTraces ==
    {Trace(3, <<<<0>>, <<1, 2>>>>, File(<<0, 1, 2>>, [t \in 0..2 |->
        IF t = 0 THEN <<Cpu(a), Collective("Bcast", 1, 0), Cpu(3)>>
                 ELSE <<Cpu(a), Collective("Alltoall", 2, 9), Cpu(t)>>]), FALSE)
        : a \in {3, 4}}

(* Records of two tasks that alternate, and a trace without any event.     *)
MixedTrace ==
    Trace(2, <<World(2)>>,
          <<RecordOf(0, Collective("Bcast", 1, 0)), RecordOf(1, Collective("Bcast", 1, 0)),
            RecordOf(0, Collective("Alltoall", 1, 9)), RecordOf(1, Collective("Alltoall", 1, 9))>>,
          FALSE)
EmptyTrace == Trace(1, <<>>, <<RecordOf(0, Cpu(1)), RecordOf(0, Mpi("Init"))>>, TRUE)

MCTraces == CollectiveTraces \cup ComputeTraces \cup SelfTraces
                \cup {ExchangeTrace, MixedTrace, EmptyTrace}

MCMaxSent == [n \in 0..2 |-> IF n = 0 THEN 2 ELSE IF n = 1 THEN 1 ELSE 0]

NodeConfig(pattern, reactive, policy, flows, phases, shuffled) ==
    [pattern |-> pattern, reactive |-> reactive, policy |-> policy, flows |-> flows,
     phases |-> phases, shuffled |-> shuffled]
MCNodeConfigs ==
    {NodeConfig("UN", TRUE, "RAND", flows, 1, FALSE) : flows \in 0..2}
        \cup {NodeConfig("BURSTY_UN", r, "RAND", 1, 1, FALSE) : r \in BOOLEAN}
        \cup {NodeConfig("UN", TRUE, "DEST", 1, 1, FALSE),
              NodeConfig("BURSTY_UN", FALSE, "DEST", 1, 1, FALSE),
              NodeConfig("RANDOMPERMUTATION", FALSE, "RAND", 0, 1, FALSE),
              NodeConfig("SINGLE_BURST", FALSE, "DEST", 0, 1, FALSE),
              NodeConfig("ALL2ALL", FALSE, "RAND", 0, 1, TRUE),
              NodeConfig("ALL2ALL", FALSE, "RAND", 0, 2, FALSE),
              NodeConfig("ALL2ALL", FALSE, "DEST", 0, 1, FALSE)}
=============================================================================
