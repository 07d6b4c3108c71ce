------------------------------ MODULE NetLoop -------------------------------
(***************************************************************************)
(* The net worker under arbitrary clients.  The client modules of the      *)
(* firmware are seven callers of net_worker_enqueue; here any job of Job   *)
(* may come at any time into either queue, and handling a result may queue *)
(* one more job, as check-now's retry and checknet's trace do.             *)
(*                                                                         *)
(* Jobs are told apart by an identity the code does not have, so that one  *)
(* answer per job can be stated.                                           *)
(***************************************************************************)
EXTENDS NetWorker

CONSTANT Job      \* records with at least src and kind

ASSUME JobAssumption == \A j \in Job : j.src \in Sources

\* The job is nowhere in the worker.
Fresh(j) == /\ \A k \in DOMAIN hiQ : hiQ[k] # j
            /\ \A k \in DOMAIN loQ : loQ[k] # j
            /\ \A k \in DOMAIN resQ : resQ[k].job # j

Enqueue(j) == EnqueueHi(j) \/ EnqueueLo(j)

\* A handler of some client queues a job.
Submit(j) == /\ InHandler
             /\ Fresh(j)
             /\ Enqueue(j)

\* A client handles its result, and may queue one more job while doing so.
Handle(r) == /\ Poll(r)
             /\ \/ UNCHANGED queueVars
                \/ \E j \in Job : (Fresh(j) \/ j = r.job) /\ Enqueue(j)

DispatchNext == \E k \in DOMAIN resQ : Handle(resQ[k])

Init == WorkerInit

Next == \/ \E j \in Job : Submit(j)
        \/ RunSomeJob
        \/ IdleTick
        \/ DispatchNext
        \/ EndPoll
        \/ GateExpires

Spec == Init /\ [][Next]_workerVars

\* loop() always reaches its next step: handlers and jobs return, each of
\* them bounded by a timeout of its own, and the watchdog is fed.
LoopRuns == WF_workerVars(RunSomeJob \/ IdleTick \/ DispatchNext \/ EndPoll)

\* Time passes.
TimePasses == WF_workerVars(GateExpires)

FairSpec == Spec /\ LoopRuns /\ TimePasses

-----------------------------------------------------------------------------
AnyResult == [job : Job, ok : BOOLEAN, deferred : BOOLEAN, blocked : BOOLEAN]

TypeOK == /\ hiQ \in Seq(Job) /\ Len(hiQ) <= JobQDepth
          /\ loQ \in Seq(Job) /\ Len(loQ) <= JobQDepth
          /\ resQ \in Seq(AnyResult) /\ Len(resQ) <= ResQDepth
          /\ gate \in BOOLEAN
          /\ at \in {"front", "poll"}

\* net_worker_tick only logs when the result queue is full and the result is
\* gone ("result queue full - dropped").  It never comes to that: the
\* dispatch loop of the same turn leaves nothing behind.
ResultsNeverDropped == at = "front" => resQ = <<>>

\* A job is in one place only, once.
JobsApart == /\ \A k, l \in DOMAIN hiQ : hiQ[k] = hiQ[l] => k = l
             /\ \A k, l \in DOMAIN loQ : loQ[k] = loQ[l] => k = l
             /\ \A k \in DOMAIN hiQ, l \in DOMAIN loQ : hiQ[k] # loQ[l]
             /\ \A k \in DOMAIN resQ :
                  /\ \A l \in DOMAIN hiQ : hiQ[l] # resQ[k].job
                  /\ \A l \in DOMAIN loQ : loQ[l] # resQ[k].job

\* The inductive invariant: besides the above, one result at most waits.
Inv == TypeOK /\ ResultsNeverDropped /\ Len(resQ) <= 1 /\ JobsApart

\* Every turn of loop() moves every waiting hi job one place up, and the one
\* in front is run: a hi job at place k is answered in the k-th turn from
\* now, whatever waits in the other queue.
HiMovesUpEveryTurn ==
  [][at = "front" /\ at' = "poll" =>
       \A k \in DOMAIN hiQ : IF k = 1 THEN \E l \in DOMAIN resQ' : resQ'[l].job = hiQ[1]
                             ELSE hiQ'[k - 1] = hiQ[k]]_workerVars

RangeOf(q) == {q[k] : k \in DOMAIN q}

Service == INSTANCE JobService WITH waiting  <- RangeOf(hiQ) \cup RangeOf(loQ),
                                    answered <- RangeOf(resQ)

\* Each job net_worker_enqueue took is answered exactly once, with its own
\* result, and that result reaches a client: whatever the two queues, the
\* gate, refused pushes and retries from inside a result handler do.
OneAnswerPerJob == Service!Spec

\* A hi job (a monitor's probe, a punch on the BE's clock) is answered
\* however many other jobs come, a lo job if the worker gets round to lo
\* jobs at all.
JobsAnswered ==
  \A j \in Job :
    /\ (j \in RangeOf(hiQ)) ~> (j \notin RangeOf(hiQ))
    /\ LoTurnsCome => ((j \in RangeOf(loQ)) ~> (j \notin RangeOf(loQ)))
=============================================================================
