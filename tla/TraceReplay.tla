----------------------------- MODULE TraceReplay -----------------------------
(***************************************************************************)
(* The replay of a trace: its generators (src/generator/traceGenerator.cc, *)
(* src/generator/event.cc) and the main loop, which skips cycles in which  *)
(* every generator would only compute (src/dgflySimulator.cc, action, the  *)
(* part for TRACE).  One instance of one trace.                            *)
(*                                                                         *)
(* A message to another generator is never sent: generateFlit writes its   *)
(* data to the member flit, which is NULL, and not to the flit it made     *)
(* (traceGenerator.cc:150).  The network stays empty therefore.            *)
(***************************************************************************)
EXTENDS TraceReader

CONSTANT Patience   \* cycles without progress that are a deadlock: 2000000

ASSUME PatienceAssumption == Patience \in Nat \ {0}

VARIABLES
    clock,          \* g_cycle at the top of the loop
    minLength,      \* min_length; -1 for LONG_MAX
    occurs,         \* the messages each generator has had
    eventDeadlock,  \* g_event_deadlock
    outcome         \* "running", "ended" or "crashed"

replayVars == <<clock, minLength, occurs, eventDeadlock, outcome>>

ReplayInit ==
    /\ clock = 0 /\ minLength = -1
    /\ occurs = [t \in TasksOf(trace) |-> <<>>]
    /\ eventDeadlock = 0
    /\ outcome = "running"

HeadType(q) == IF q = <<>> THEN "EMPTY" ELSE q[1].type

(* do_event and do_multiple_events: the head has gone on by n, and is      *)
(* removed when it is complete.                                            *)
DoEvents(q, n) ==
    IF q[1].count + n = q[1].length THEN Tail(q)
    ELSE [q EXCEPT ![1].count = @ + n]

(* ins_occur: one more packet of a message.                                *)
InsertOccurrence(l, e) ==
    LET partial == {i \in DOMAIN l : l[i].pid = e.pid /\ l[i].length = e.length
                                        /\ l[i].count < l[i].length}
        first == CHOOSE i \in partial : \A j \in partial : i <= j
    IN  IF partial = {} THEN <<[e EXCEPT !.count = 1]>> \o l
        ELSE [l EXCEPT ![first].count = @ + 1]

(* The messages of l that are what the reception e waits for (occurred).   *)
Occurrences(l, e) ==
    {i \in DOMAIN l : /\ l[i].count = l[i].length /\ l[i].length = e.length
                      /\ l[i].mpitype = e.mpitype
                      /\ e.mpitype # "none" \/ l[i].pid = e.pid}

(* The receptions at the head of a queue that have occurred are removed    *)
(* with their messages, as many as there are.                              *)
RECURSIVE Receive(_, _)
Receive(q, l) ==
    IF HeadType(q) = "RECEPTION" /\ Occurrences(l, q[1]) # {}
    THEN Receive(Tail(q), RemoveAt(l, CHOOSE i \in Occurrences(l, q[1]) :
                                        \A j \in Occurrences(l, q[1]) : i <= j))
    ELSE [queue |-> q, occurred |-> l]

(* A cycle of generator t: it computes if the head of its queue is a       *)
(* computation, then receives what has come, then sends, to itself at once.*)
Cycle(t) ==
    LET computes == HeadType(events[t]) = "COMPUTATION"
        computed == IF computes THEN DoEvents(events[t], 1) ELSE events[t]
        received == Receive(computed, occurs[t])
        sends == HeadType(received.queue) = "SENDING"
    IN  [sendsTo |-> IF sends THEN received.queue[1].pid ELSE -1,
         queue |-> IF sends THEN DoEvents(received.queue, 1) ELSE received.queue,
         occurred |-> IF sends THEN InsertOccurrence(received.occurred,
                                        [received.queue[1] EXCEPT !.type = "RECEPTION"])
                               ELSE received.occurred,
         progress |-> computes \/ sends]

(* The generators act in their order until one of them has a message for   *)
(* another.                                                                *)
Sends(t) == Cycle(t).sendsTo \notin {-1, t}

Progress == \E t \in Tasks : Cycle(t).progress

NormalCycle ==
    /\ \A t \in Tasks : ~Sends(t)
    /\ events' = [t \in Tasks |-> Cycle(t).queue]
    /\ occurs' = [t \in Tasks |-> Cycle(t).occurred]
    /\ eventDeadlock' = IF Progress THEN 0 ELSE eventDeadlock + 1
    /\ clock' = clock + 1
    /\ outcome' = IF \A t \in Tasks : Cycle(t).queue = <<>> THEN "ended" ELSE "running"

Crash ==
    /\ \E t \in Tasks : Sends(t)
    /\ outcome' = "crashed"
    /\ UNCHANGED <<events, occurs, eventDeadlock, clock>>

(* What a generator has to wait for (numSkipCycles), of those that do not  *)
(* wait for a message.                                                     *)
Remaining(q) == IF q[1].type = "COMPUTATION" THEN q[1].length - q[1].count ELSE 0
Waits == {Remaining(events[t]) : t \in {u \in Tasks :
                                    HeadType(events[u]) \in {"COMPUTATION", "SENDING"}}}

(* min_length is the least that was ever found: it is not reset.           *)
Shortest ==
    LET found == Waits \cup (IF minLength = -1 THEN {} ELSE {minLength})
    IN  IF found = {} THEN -1 ELSE CHOOSE l \in found : \A m \in found : l <= m

(* Faulty: the cycle of the loop itself is not counted.                    *)
SkippedOnTop(l) == clock + (l - 1) + 1
(* The cycle after the skip of l - 1 cycles; the loop counts the last one. *)
Skipped(l) == clock + (l - 1 - 1) + 1

Skip ==
    /\ Shortest > 1
    /\ clock' = Skipped(Shortest)
    /\ minLength' = Shortest - 1
    /\ events' = [t \in Tasks |-> IF HeadType(events[t]) \in {"EMPTY", "RECEPTION"} THEN events[t]
                                  ELSE DoEvents(events[t], Shortest - 1)]
    /\ eventDeadlock' = IF \E w \in Waits : w > 0 /\ (minLength = -1 \/ w < minLength)
                        THEN 0 ELSE eventDeadlock
    /\ UNCHANGED <<occurs, outcome>>

ReplayNext ==
    /\ pass = "replay" /\ outcome = "running"
    /\ eventDeadlock <= Patience
    /\ \/ Skip
       \/ Shortest <= 1 /\ minLength' = Shortest /\ (NormalCycle \/ Crash)
    /\ UNCHANGED <<trace, pass, position, mpilist, offset, auxRoot, mpiTask, tracestop>>

TraceNext == (ReaderNext /\ UNCHANGED replayVars) \/ ReplayNext
----------------------------------------------------------------------------
(* The cycles of computation the program of t asks for, where it is cut,   *)
(* and those still in its queue.                                           *)
Sum(s) == FoldLeft(+, 0, s)
Kept(t) ==
    LET all == SelectSeq(trace.file, LAMBDA r : r.task = t)
        At(op) == {i \in DOMAIN all : all[i].op = op /\ trace.cutmpi}
        begin == {0} \cup At("Init")
        last == {Len(all) + 1} \cup At("Finalize")
    IN  SubSeq(all, (CHOOSE i \in begin : \A j \in begin : j <= i) + 1,
                    (CHOOSE i \in last : \A j \in last : i <= j) - 1)
Computes(t) == \A i \in DOMAIN Kept(t) : Kept(t)[i].op = "CPU"
Work(t) == Sum([i \in DOMAIN Kept(t) |-> Kept(t)[i].cycles])
Left(t) == Sum([i \in DOMAIN events[t] |-> events[t][i].length - events[t][i].count])

(* Skipping cycles does not change the time that anything takes: a task    *)
(* that only computes has done, in every cycle that is simulated, as many  *)
(* cycles of its work as the clock shows (dgflySimulator.cc:1700-1729,     *)
(* traceGenerator.cc:170-205).                                             *)
TimeExact ==
    pass = "replay" => \A t \in Tasks :
        Computes(t) => Work(t) - Left(t) = IF clock < Work(t) THEN clock ELSE Work(t)

(* Types, and: an event whose count has come to its length is off the      *)
(* queue, and generators are called only while the count of cycles without *)
(* progress is within its limit (event.cc:72-103, dgflySimulator.cc:1729). *)
TraceTypeOK ==
    /\ pass \in {"first", "second", "replay", "aborted"} /\ position \in 0..Len(trace.file)
    /\ \A c \in DOMAIN mpilist : offset[c] \in 0..Len(mpilist[c])
    /\ tracestop \subseteq Tasks
    /\ minLength >= -1
    /\ \A t \in Tasks : \A i \in DOMAIN events[t] : events[t][i].count < events[t][i].length
    /\ eventDeadlock \in 0..Patience
=============================================================================
