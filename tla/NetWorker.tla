----------------------------- MODULE NetWorker ------------------------------
(***************************************************************************)
(* The net worker (net_worker.cpp) and the part of loop() that drives it   *)
(* (main.cpp).  All blocking network work of the node goes through it: a   *)
(* client module queues a job, net_worker_tick runs at most one job per    *)
(* turn of loop(), and the same turn hands the results to their clients.   *)
(*                                                                         *)
(* This module has the worker's state and operations; the modules that     *)
(* extend it add the clients and close the system.  The three rings are    *)
(* sequences here (Ring.tla shows a ring to be a bounded FIFO).            *)
(*                                                                         *)
(* loop() is one thread.  "front" stands for every place of loop() where   *)
(* a handler may run and no result waits: the ticks before                 *)
(* net_worker_tick and those behind the dispatch loop.  "poll" is the      *)
(* dispatch loop.                                                          *)
(***************************************************************************)
EXTENDS Naturals, Sequences, FiniteSets

CONSTANTS JobQDepth,   \* NET_JOBQ_DEPTH, of each of the two job queues
          ResQDepth    \* NET_RESQ_DEPTH

ASSUME DepthAssumption == /\ JobQDepth \in Nat \ {0}
                          /\ ResQDepth \in Nat \ {0}

VARIABLES hiQ,    \* jobs of monitors, punch and check-now
          loQ,    \* jobs of checknet, scripts, integration and system
          resQ,   \* results not yet handed to their client
          gate,   \* punch_gate_active(): a STUN mapping waits for its punch
          at      \* where loop() is: "front" or "poll"

workerVars == <<hiQ, loQ, resQ, gate, at>>
queueVars == <<hiQ, loQ>>

Sources == {"checknet", "monitor", "script", "system", "punch", "checknow",
            "integration"}

WorkerInit == /\ hiQ = <<>>
              /\ loQ = <<>>
              /\ resQ = <<>>
              /\ gate = FALSE
              /\ at = "front"

\* Mistakes used by the project's mutants only.
HasRoomOffByOne(q, depth) == Len(q) <= depth
LoBlocksHi == hiQ # <<>> /\ loQ = <<>>
PushedInFront(q, v, depth) == IF Len(q) < depth THEN <<v>> \o q ELSE q
OneResultOnly == TRUE

-----------------------------------------------------------------------------
HasRoom(q, depth) == Len(q) < depth

\* A queue after an attempt to push v: a full ring refuses.
Pushed(q, v, depth) == IF HasRoom(q, depth) THEN Append(q, v) ELSE q

CanEnqueueHi == HasRoom(hiQ, JobQDepth)
CanEnqueueLo == HasRoom(loQ, JobQDepth)

EnqueueHi(j) == hiQ' = Pushed(hiQ, j, JobQDepth) /\ loQ' = loQ
EnqueueLo(j) == loQ' = Pushed(loQ, j, JobQDepth) /\ hiQ' = hiQ

\* What becomes of a job.  A result carries the src, ref_id and ref_idx of
\* its job, which is all a client may read of "job" here; the other fields
\* of the job are for the properties.
Result(j, ok, deferred, blocked) ==
  [job |-> j, ok |-> ok, deferred |-> deferred, blocked |-> blocked]

\* The private-address guard is there for the two sources the BE steers.
Guarded(j) == /\ j.src \in {"monitor", "checknet"}
              /\ j.kind \in {"icmp", "tcp", "http"}

\* The probe or request itself: it works or it does not.
Attempts(j) == {Result(j, ok, FALSE, FALSE) : ok \in BOOLEAN}

\* The heap gate that every kind of job passes, and the one for TLS behind it.
NoMemory(j) == Result(j, FALSE, TRUE, FALSE)

\* nw_execute: the guard, a heap gate, or the attempt.  Which of them decides
\* depends on the network and the heap.
Outcomes(j) ==
  Attempts(j) \cup {NoMemory(j)}
    \cup (IF Guarded(j) THEN {Result(j, FALSE, j.src # "monitor", TRUE)} ELSE {})

\* The job was carried out: neither blocked nor deferred.
Ran(r) == ~r.deferred /\ ~r.blocked

\* A STUN that worked shuts the gate for lo jobs, any punch that is carried
\* out opens it first thing.
GateAfter(r) ==
  IF Ran(r) /\ r.job.kind = "stun" /\ r.ok THEN TRUE
  ELSE IF Ran(r) /\ r.job.kind = "punch" THEN FALSE ELSE gate

HiTurn == hiQ # <<>>
LoTurn == hiQ = <<>> /\ loQ # <<>> /\ ~gate

Take(j) == \/ HiTurn /\ j = Head(hiQ) /\ hiQ' = Tail(hiQ) /\ loQ' = loQ
           \/ LoTurn /\ j = Head(loQ) /\ loQ' = Tail(loQ) /\ hiQ' = hiQ

\* net_worker_tick with a job: take it, run it, queue its result.
RunJob(r) == /\ at = "front"
             /\ Take(r.job)
             /\ r \in Outcomes(r.job)
             /\ resQ' = Pushed(resQ, r, ResQDepth)
             /\ gate' = GateAfter(r)
             /\ at' = "poll"

\* The job the worker would take.
NextJobs == (IF HiTurn THEN {Head(hiQ)} ELSE {})
              \cup (IF LoTurn THEN {Head(loQ)} ELSE {})

RunSomeJob == \E j \in NextJobs : \E r \in Outcomes(j) : RunJob(r)

\* net_worker_tick without a job.
IdleTick == /\ at = "front"
            /\ ~HiTurn /\ ~LoTurn
            /\ at' = "poll"
            /\ UNCHANGED <<hiQ, loQ, resQ, gate>>

\* net_worker_poll: the dispatch loop hands result r to its client, whose
\* handler is the rest of the step.
Poll(r) == /\ at = "poll"
           /\ resQ # <<>>
           /\ r = Head(resQ)
           /\ resQ' = Tail(resQ)
           /\ UNCHANGED <<gate, at>>

\* The dispatch loop ends when there is no result left.
PollDone == resQ = <<>>
EndPoll == /\ at = "poll"
           /\ PollDone
           /\ at' = "front"
           /\ UNCHANGED <<hiQ, loQ, resQ, gate>>

\* PUNCH gate: ten seconds after the STUN it opens by itself.
GateExpires == /\ at = "front"
               /\ gate
               /\ gate' = FALSE
               /\ UNCHANGED <<hiQ, loQ, resQ, at>>

\* A handler of a client runs: the queues are its business.
InHandler == at = "front" /\ UNCHANGED <<resQ, gate, at>>

-----------------------------------------------------------------------------
\* The other clients, for a module that is about one of them: jobs of theirs
\* come at any time into the queue they use, and handling a result of theirs
\* may queue one more.
OthersEnqueue(hiJobs, loJobs) == \/ \E j \in hiJobs : EnqueueHi(j)
                                 \/ \E j \in loJobs : EnqueueLo(j)

OthersSubmit(hiJobs, loJobs) == InHandler /\ OthersEnqueue(hiJobs, loJobs)

OthersHandle(hiJobs, loJobs) ==
  \E j \in hiJobs \cup loJobs : \E r \in Outcomes(j) :
    Poll(r) /\ (UNCHANGED queueVars \/ OthersEnqueue(hiJobs, loJobs))

\* The worker's own steps, which leave the clients' state alone.
WorkerStep == RunSomeJob \/ IdleTick \/ EndPoll

\* The worker gets round to lo jobs: it is not kept busy with hi jobs and
\* STUNs for good.  Nothing in the code guarantees this; it is an assumption
\* about how seldom hi jobs come.
LoTurnsCome == \/ []<>(at = "front" /\ loQ = <<>>)
               \/ []<><<RunSomeJob /\ LoTurn>>_workerVars

\* No queue holds more than its ring has places.
QueuesFit == /\ Len(hiQ) <= JobQDepth /\ Len(loQ) <= JobQDepth
             /\ Len(resQ) <= ResQDepth

\* Places of the jobs of source s in queue q, and of its results.
JobsOf(q, s) == {k \in DOMAIN q : q[k].src = s}
ResultsOf(s) == {k \in DOMAIN resQ : resQ[k].job.src = s}

\* The jobs of source s the worker has taken on and not yet handed back, in
\* the queues and as results.
InFlight(s) == {hiQ[k] : k \in JobsOf(hiQ, s)} \cup {loQ[k] : k \in JobsOf(loQ, s)}
                 \cup {resQ[k].job : k \in ResultsOf(s)}
Flights(s) == Cardinality(JobsOf(hiQ, s)) + Cardinality(JobsOf(loQ, s))
                + Cardinality(ResultsOf(s))
=============================================================================
