----------------------------- MODULE TraceReader -----------------------------
(***************************************************************************)
(* How a Dimemas trace becomes the event queues of its generators          *)
(* (src/generator/trace.cc, read_dimemas).  The file is read twice: the    *)
(* first pass notes the collectives of each communicator and their roots,  *)
(* the second turns each record into the computations, sends and           *)
(* receptions of its task.                                                 *)
(*                                                                         *)
(* A record stands for the lines of one operation.  Messages have the      *)
(* length of one packet and one tag.  Barrier, Alltoall, Allreduce and     *)
(* Alltoallv are the same to the reader and go by the name of the second.  *)
(***************************************************************************)
EXTENDS Integers, Sequences, FiniteSets, SequencesExt

CONSTANT
    Traces  \* the files: [tasks, comms, file, cutmpi]; a record of a file has
            \* the fields task, op and what the operation op has

ASSUME TracesAssumption ==
    \A t \in Traces :
        /\ t.tasks \in Nat \ {0} /\ t.cutmpi \in BOOLEAN
        /\ \A c \in DOMAIN t.comms : \A i \in DOMAIN t.comms[c] :
                t.comms[c][i] \in 0..(t.tasks - 1)
        /\ \A i \in DOMAIN t.file : t.file[i].task \in 0..(t.tasks - 1)

VARIABLES
    trace,      \* the file that is read
    pass,       \* "first", "second", then "replay"; "aborted" when an assertion fails
    position,   \* records read in this pass
    mpilist,    \* mpilist_map: the collectives of each communicator, with their roots
    offset,     \* mpilist_comm_to_offset
    auxRoot,    \* mpilist_aux.root: a local that is not initialised
    mpiTask,    \* mpi_task: the task of the last collective, -1 at the start of a pass
    tracestop,  \* tasks that have reached MPI_Finalize, when the trace is cut there
    events      \* the event queue of the generator of each task

readerVars == <<trace, pass, position, mpilist, offset, auxRoot, mpiTask, tracestop, events>>

TasksOf(t) == 0..(t.tasks - 1)
Tasks == TasksOf(trace)
Size(c) == Len(trace.comms[c])

Collectives == {"Bcast", "Alltoall", "Reduce"}

(* The event of a queue: mpitype is 0 for what is not collective.          *)
Computation(cycles) ==
    [type |-> "COMPUTATION", pid |-> 0, mpitype |-> "none", length |-> cycles, count |-> 0]
Sending(to, mpi) == [type |-> "SENDING", pid |-> to, mpitype |-> mpi, length |-> 1, count |-> 0]
Reception(from, mpi) ==
    [type |-> "RECEPTION", pid |-> from, mpitype |-> mpi, length |-> 1, count |-> 0]

ReaderInit ==
    /\ trace \in Traces
    /\ pass = "first" /\ position = 0
    /\ mpilist = [c \in DOMAIN trace.comms |-> <<>>]
    /\ offset = [c \in DOMAIN trace.comms |-> 0]
    /\ auxRoot \in TasksOf(trace)
    /\ mpiTask = -1
    /\ tracestop = {}
    /\ events = [t \in TasksOf(trace) |-> <<>>]
----------------------------------------------------------------------------
Record == trace.file[position + 1]

(* The offsets are cleared where a collective of another task starts.      *)
OffsetAt(r) == IF r.task = mpiTask THEN offset ELSE [c \in DOMAIN offset |-> 0]

(* First pass.  A collective that is not in the list of its communicator   *)
(* is added, with the last task that was seen to be a root.                *)
NoteCollective(r) ==
    LET at == OffsetAt(r)
        root == IF r.isroot THEN r.task ELSE auxRoot
    IN  /\ mpiTask' = r.task
        /\ auxRoot' = root
        /\ IF at[r.comm] = Len(mpilist[r.comm])
           THEN /\ mpilist' = [mpilist EXCEPT ![r.comm] =
                                    Append(@, [root |-> root, type |-> r.op])]
                /\ offset' = [at EXCEPT ![r.comm] = @ + 1]
           ELSE offset' = at /\ UNCHANGED mpilist

FirstPass ==
    /\ pass = "first" /\ position < Len(trace.file)
    /\ position' = position + 1
    /\ IF Record.op \in Collectives THEN NoteCollective(Record)
       ELSE UNCHANGED <<mpilist, offset, auxRoot, mpiTask>>
    /\ UNCHANGED <<trace, pass, tracestop, events>>

SecondPassStart ==
    /\ pass = "first" /\ position = Len(trace.file)
    /\ pass' = "second" /\ position' = 0
    /\ offset' = [c \in DOMAIN offset |-> 0]
    /\ mpiTask' = -1
    /\ UNCHANGED <<trace, mpilist, auxRoot, tracestop, events>>

Divides(d, n) == n % d = 0
Gcd(a, b) ==
    CHOOSE d \in 1..a : /\ Divides(d, a) /\ Divides(d, b)
                        /\ \A e \in 1..a : Divides(e, a) /\ Divides(e, b) => e <= d

(* The partner of a task at a distance: the two of a pair look for each    *)
(* other in opposite directions.  It is the rank in the communicator that  *)
(* is computed, from the number of the task.                               *)
Partner(task, stride, n) ==
    IF (task \div Gcd(stride, n)) % 2 = 1 THEN (task + n - stride) % n
                                          ELSE (task + stride) % n

(* Faulty: the root of a reduction waits for itself too.                   *)
AllOf(members, task) == members
ButItself(members, task) == SelectSeq(members, LAMBDA m : m # task)

(* The events of a collective (the root of the list is used by those that  *)
(* are not root).  The root of a broadcast sends to itself too.            *)
EventsOf(r, root) ==
    LET members == trace.comms[r.comm]
        Exchange(stride) ==
            LET other == members[Partner(r.task, stride, Size(r.comm)) + 1]
            IN  <<Sending(other, r.op), Reception(other, r.op)>>
    IN  CASE r.op = "Bcast" ->
                IF r.isroot THEN [i \in DOMAIN members |-> Sending(members[i], r.op)]
                            ELSE <<Reception(root, r.op)>>
          [] r.op = "Alltoall" ->
                FlattenSeq([stride \in 1..(Size(r.comm) - 1) |-> Exchange(stride)])
          [] r.op = "Reduce" ->
                IF r.isroot
                THEN LET others == ButItself(members, r.task)
                     IN  [i \in DOMAIN others |-> Reception(others[i], r.op)]
                ELSE <<Sending(root, r.op)>>

Listed(r) ==
    LET at == OffsetAt(r)[r.comm] + 1
    IN  at <= Len(mpilist[r.comm]) /\ mpilist[r.comm][at].type = r.op

InsertCollective(r) ==
    LET at == OffsetAt(r)
    IN  /\ Listed(r)
        /\ events' = [events EXCEPT ![r.task] =
                            @ \o EventsOf(r, mpilist[r.comm][at[r.comm] + 1].root)]
        /\ offset' = [at EXCEPT ![r.comm] = @ + 1]
        /\ mpiTask' = r.task
        /\ UNCHANGED <<pass, tracestop>>

(* assert(mpilist_map[...].type == mpi_type)                               *)
NotListed(r) ==
    /\ ~Listed(r)
    /\ pass' = "aborted"
    /\ UNCHANGED <<events, offset, mpiTask, tracestop>>

(* What is not collective; messages of a task to itself are left out.      *)
Others(r) ==
    /\ events' = [events EXCEPT ![r.task] =
            CASE r.op = "CPU" -> Append(@, Computation(r.cycles))
              [] r.op = "Send" /\ r.to # r.task -> Append(@, Sending(r.to, "none"))
              [] r.op = "Recv" /\ r.from # r.task -> Append(@, Reception(r.from, "none"))
              [] r.op = "Init" /\ trace.cutmpi -> <<>>
              [] OTHER -> @]
    /\ tracestop' = IF r.op = "Finalize" /\ trace.cutmpi
                    THEN tracestop \cup {r.task} ELSE tracestop
    /\ UNCHANGED <<pass, offset, mpiTask>>

SecondPass ==
    /\ pass = "second" /\ position < Len(trace.file)
    /\ position' = position + 1
    /\ \/ Record.task \in tracestop /\ UNCHANGED <<pass, offset, mpiTask, tracestop, events>>
       \/ /\ Record.task \notin tracestop /\ Record.op \in Collectives
          /\ InsertCollective(Record) \/ NotListed(Record)
       \/ Record.task \notin tracestop /\ Record.op \notin Collectives /\ Others(Record)
    /\ UNCHANGED <<trace, mpilist, auxRoot>>

(* assert(!trace_empty)                                                    *)
ReadingDone ==
    /\ pass = "second" /\ position = Len(trace.file)
    /\ pass' = IF \A t \in Tasks : events[t] = <<>> THEN "aborted" ELSE "replay"
    /\ UNCHANGED <<trace, position, mpilist, offset, auxRoot, mpiTask, tracestop, events>>

ReaderNext == FirstPass \/ SecondPassStart \/ SecondPass \/ ReadingDone
----------------------------------------------------------------------------
(* Traces the reader is right about: the records of a task are together,   *)
(* the task of a communicator that is read first is the root of all its    *)
(* collectives, and those who exchange are all the tasks, or one.          *)
Together ==
    \A i, j, k \in DOMAIN trace.file :
        i < j /\ j < k /\ trace.file[i].task = trace.file[k].task
            => trace.file[j].task = trace.file[i].task

CallsBefore(i) ==
    {j \in 1..(i - 1) : /\ trace.file[j].op \in Collectives
                       /\ trace.file[j].comm = trace.file[i].comm}
RootsFirst ==
    \A i \in DOMAIN trace.file :
        (/\ trace.file[i].op \in {"Bcast", "Reduce"}
         /\ \A j \in CallsBefore(i) : trace.file[j].task = trace.file[i].task)
            => trace.file[i].isroot

WholeExchanges ==
    \A i \in DOMAIN trace.file :
        trace.file[i].op = "Alltoall" =>
            \/ Size(trace.file[i].comm) = 1
            \/ trace.comms[trace.file[i].comm] = [k \in 1..trace.tasks |-> k - 1]

(* A message sent to t, and a reception of t, that are alike to e, a       *)
(* reception of t: from its sender, or of its collective from anyone       *)
(* (event.cc, occurred).                                                   *)
Satisfies(s, from, t, e) ==
    /\ s.type = "SENDING" /\ s.pid = t /\ s.mpitype = e.mpitype
    /\ e.mpitype # "none" \/ from = e.pid
Like(r, e) ==
    /\ r.type = "RECEPTION" /\ r.mpitype = e.mpitype
    /\ e.mpitype # "none" \/ r.pid = e.pid

(* The messages for e sent by those of Tasks in from, when each task has   *)
(* got through done of its events, and the receptions like e.              *)
MessagesFor(t, e, from, done) ==
    UNION {{<<f, i>> : i \in {j \in 1..done[f] : Satisfies(events[f][j], f, t, e)}} : f \in from}
ReceptionsLike(t, e, done) == {i \in 1..done[t] : Like(events[t][i], e)}

All == [t \in Tasks |-> Len(events[t])]

(* How far the tasks get from done, one event at a time as long as they    *)
(* can: sends never wait.                                                  *)
Can(t, done) ==
    /\ done[t] < Len(events[t])
    /\ LET e == events[t][done[t] + 1]
       IN  e.type = "RECEPTION" =>
            Cardinality(MessagesFor(t, e, Tasks, done)) > Cardinality(ReceptionsLike(t, e, done))
RECURSIVE Through(_)
Through(done) ==
    LET next == [t \in Tasks |-> IF Can(t, done) THEN done[t] + 1 ELSE done[t]]
    IN  IF next = done THEN done ELSE Through(next)

(* The events of a trace can be replayed to the end, in the order of each  *)
(* task, and leave no message of one task to another that is not received: *)
(* what the second pass writes for one task fits what it writes for the    *)
(* others, though it knows only one of them at a time and the lists of the *)
(* first pass (trace.cc:222-250, 556-640).                                 *)
TraceReplayable ==
    Together /\ RootsFirst /\ WholeExchanges =>
        /\ pass = "aborted" => \A t \in Tasks : events[t] = <<>>
        /\ pass = "replay" /\ position = Len(trace.file) =>
            /\ Through([t \in Tasks |-> 0]) = All
            /\ \A t \in Tasks : \A i \in DOMAIN events[t] :
                    events[t][i].type = "RECEPTION" =>
                        Cardinality(MessagesFor(t, events[t][i], Tasks \ {t}, All))
                            = Cardinality(ReceptionsLike(t, events[t][i], All))
=============================================================================
