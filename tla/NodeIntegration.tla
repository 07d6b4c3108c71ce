-------------------------- MODULE NodeIntegration ---------------------------
(***************************************************************************)
(* Telemetry events to the owner's webhook (node_integration.cpp).  Events *)
(* wait in a ring of a few; once a minute they are written into the one    *)
(* batch buffer and a webhook job is queued, which reads the buffer only   *)
(* when the worker runs it, turns of loop() later.                         *)
(***************************************************************************)
EXTENDS NetWorker

CONSTANTS NiQueueSize,     \* NI_QUEUE_SIZE
          MaxEvents,       \* bound: events pushed in a behaviour
          HiLoad, LoLoad   \* jobs of the other clients, by the queue they use

ASSUME NiAssumption == /\ NiQueueSize \in Nat \ {0}
                       /\ MaxEvents \in Nat
                       /\ \A j \in HiLoad \cup LoLoad : j.src # "integration"

VARIABLES url,        \* _url is not empty
          st,         \* _st is allocated
          queue,      \* _st->queue: the event of each cell and its pending flag
          qHead, qTail, qCount,
          batch,      \* _st->batch: the events of the JSON text in it
          due,        \* NI_FLUSH_INTERVAL_MS are over since _last_flush_ms
          inflight,   \* _inflight
          \* What happened to the events, which are numbered as they come:
          pushed,     \* how many were queued
          posted,     \* those in a POST the webhook accepted, in the order sent
          failed,     \* those in a POST without such an answer
          lost,       \* those overwritten, or in a batch the worker put off
          queuedBatch \* the batch the last queued job was to carry

ringVars == <<queue, qHead, qTail, qCount>>
ghosts == <<pushed, posted, failed, lost, queuedBatch>>
niVars == <<url, st, ringVars, batch, due, inflight, ghosts>>
systemVars == <<workerVars, niVars>>

Cell == 0 .. NiQueueSize - 1
Next1(i) == (i + 1) % NiQueueSize
InRange(q) == {q[k] : k \in DOMAIN q}
NiJob == [src |-> "integration", kind |-> "whook"]

NiInit == /\ WorkerInit
          /\ url \in BOOLEAN
          /\ st \in (IF url THEN BOOLEAN ELSE {FALSE})
          /\ queue = [i \in Cell |-> [ev |-> 0, pending |-> FALSE]]
          /\ qHead = 0 /\ qTail = 0 /\ qCount = 0
          /\ batch = <<>>
          /\ due = FALSE
          /\ inflight = FALSE
          /\ pushed = 0 /\ posted = <<>> /\ failed = {} /\ lost = {}
          /\ queuedBatch = <<>>

\* ni_ensure: the allocation may fail, and is tried again the next time.
Ensure == st' \in (IF st THEN {TRUE} ELSE BOOLEAN)

\* The k-th oldest event in the ring; those still pending, oldest first.
LiveCell(k) == (qTail + k - 1) % NiQueueSize
Waiting == {k \in 1 .. qCount : queue[LiveCell(k)].pending}
PendingEvents ==
  [n \in 1 .. Cardinality(Waiting) |->
     LET k == CHOOSE w \in Waiting : Cardinality({i \in Waiting : i <= w}) = n
     IN queue[LiveCell(k)].ev]

\* Mistakes used by the project's mutants only.
FlushesWhileInFlight == qCount # 0 /\ url /\ st /\ due
DrainRefused(full) == TRUE
KeepsInflightOnDefer(r) == r.deferred

-----------------------------------------------------------------------------
\* node_integration_set_url, from the node's HTTP server.  It leaves the
\* batch alone: a queued job still reads it.
BatchAfterUrl(on) == batch
SetUrl(on) == /\ InHandler
              /\ url' = on
              /\ IF on THEN Ensure ELSE UNCHANGED st
              /\ batch' = BatchAfterUrl(on)
              /\ UNCHANGED <<queueVars, ringVars, due, inflight, ghosts>>

\* node_integration_push: a full ring gives up its oldest event.
RingFull == qCount >= NiQueueSize
TailAfterDrop == Next1(qTail)
PushEvent == /\ InHandler
             /\ UNCHANGED queueVars
             /\ pushed < MaxEvents
             /\ url
             /\ Ensure
             /\ IF st'
                  THEN /\ pushed' = pushed + 1
                       /\ queue' = [queue EXCEPT ![qHead] = [ev |-> pushed', pending |-> TRUE]]
                       /\ qHead' = Next1(qHead)
                       /\ IF RingFull
                            THEN /\ qTail' = TailAfterDrop
                                 /\ lost' = lost \cup {queue[qTail].ev}
                                 /\ UNCHANGED qCount
                            ELSE qCount' = qCount + 1 /\ UNCHANGED <<qTail, lost>>
                  ELSE UNCHANGED <<ringVars, pushed, lost>>
             /\ UNCHANGED <<url, batch, due, inflight, posted, failed, queuedBatch>>

\* What stops node_integration_update; no WiFi does as well.
MayFlush == ~inflight /\ qCount # 0 /\ url /\ st /\ due

\* The batched events leave the ring, but only if the job was taken.
Drains(full) == ~full
Drain(n) == /\ queue' = [i \in Cell |-> IF i \in {LiveCell(k) : k \in 1 .. n}
                                        THEN [queue[i] EXCEPT !.pending = FALSE]
                                        ELSE queue[i]]
            /\ qTail' = (qTail + n) % NiQueueSize
            /\ qCount' = qCount - n
            /\ UNCHANGED qHead

\* node_integration_update with the interval over.  The text may not fit the
\* buffer, which is cleared then; a refused job leaves the events queued.
Update == /\ InHandler
          /\ MayFlush
          /\ due' = FALSE
          /\ \/ /\ batch' = <<>>
                /\ UNCHANGED <<queueVars, ringVars, inflight, queuedBatch>>
             \/ /\ batch' = PendingEvents
                /\ EnqueueLo(NiJob)
                /\ inflight' = CanEnqueueLo
                /\ queuedBatch' = IF CanEnqueueLo THEN batch' ELSE queuedBatch
                /\ IF Drains(~CanEnqueueLo) THEN Drain(Len(PendingEvents))
                   ELSE UNCHANGED ringVars
          /\ UNCHANGED <<url, st, pushed, posted, failed, lost>>

\* NI_FLUSH_INTERVAL_MS, or the two seconds after a refusal, are over.
FlushDue == /\ ~due /\ due' = TRUE
            /\ UNCHANGED <<workerVars, url, st, ringVars, batch, inflight, ghosts>>

\* node_integration_on_result: the batch is done with, whatever came of it.
StaysInflight(r) == FALSE
OnResult(r) == /\ Poll(r)
               /\ r.job.src = "integration"
               /\ inflight' = StaysInflight(r)
               /\ lost' = IF r.deferred THEN lost \cup InRange(batch) ELSE lost
               /\ UNCHANGED <<queueVars, url, st, ringVars, batch, due, pushed, posted,
                              failed, queuedBatch>>

\* The worker's steps; nw_run_webhook takes the text from the batch buffer.
\* A POST that fails is not made again: its result only has its status logged.
BatchRuns == /\ Len(resQ') > Len(resQ)
             /\ resQ'[Len(resQ')].job = NiJob
             /\ Ran(resQ'[Len(resQ')])
Accepted == resQ'[Len(resQ')].ok
Work == /\ WorkerStep
        /\ posted' = IF BatchRuns /\ Accepted THEN posted \o batch ELSE posted
        /\ failed' = IF BatchRuns /\ ~Accepted THEN failed \cup InRange(batch) ELSE failed
        /\ UNCHANGED <<url, st, ringVars, batch, due, inflight, pushed, lost, queuedBatch>>

Dispatch == \/ \E k \in DOMAIN resQ : OnResult(resQ[k])
            \/ OthersHandle(HiLoad, LoLoad) /\ UNCHANGED niVars

NiNext == \/ \E on \in BOOLEAN : SetUrl(on)
          \/ PushEvent
          \/ Update
          \/ FlushDue
          \/ Work
          \/ Dispatch
          \/ OthersSubmit(HiLoad, LoLoad) /\ UNCHANGED niVars

NiSpec == NiInit /\ [][NiNext]_systemVars
NiFairSpec == NiSpec /\ WF_systemVars(Work \/ Dispatch)

-----------------------------------------------------------------------------
JobQueued == JobsOf(loQ, "integration") # {}

NiTypeOK == /\ qHead \in Cell /\ qTail \in Cell /\ qCount \in 0 .. NiQueueSize
            /\ \A i \in Cell : queue[i].ev \in 0 .. MaxEvents
            /\ qHead = (qTail + qCount) % NiQueueSize

\* _inflight says exactly whether a batch is with the worker: two jobs would
\* share the one buffer, and a flag left behind would end the flushing for
\* good, as there is no timeout on it.
InflightMatchesJob == Flights("integration") = (IF inflight THEN 1 ELSE 0)

\* The queued job reads the buffer late: until then the buffer holds what was
\* batched for it, whatever events, URL changes and flush attempts come.
BatchKeptForJob == JobQueued => batch = queuedBatch /\ batch # <<>>

\* Types, flag and job in step, and the job's batch in the buffer.
NiInv == NiTypeOK /\ InflightMatchesJob /\ BatchKeptForJob

\* Where an event can be: in the ring, in the batch the worker has (a result
\* that puts it off may be waiting), in a POST that was accepted or in one
\* that failed, or given up unsent.
InBatch == IF JobQueued \/ \E k \in ResultsOf("integration") : resQ[k].deferred
           THEN InRange(batch) ELSE {}
Whereabouts == <<InRange(PendingEvents), InBatch, InRange(posted), failed, lost>>

\* Every event that was queued is in exactly one of those places, so it goes
\* into one POST at most, failed ones included, and vanishes unaccepted only
\* for one of the three reasons the code logs: overwritten in a full ring, in
\* a batch put off for memory, or in a POST that failed.  And the webhook
\* never accepts an older event after a newer one, though events wait in two
\* places and a refused batch is built again.
EventsAccountedFor ==
  /\ \A k, l \in DOMAIN posted : k < l => posted[k] < posted[l]
  /\ 1 .. pushed = UNION {Whereabouts[p] : p \in DOMAIN Whereabouts}
  /\ \A p, q \in DOMAIN Whereabouts : p # q => Whereabouts[p] \cap Whereabouts[q] = {}

\* A batch does not stay with the worker, so flushing goes on.
BatchComesBack == LoTurnsCome => (inflight ~> ~inflight)
=============================================================================
