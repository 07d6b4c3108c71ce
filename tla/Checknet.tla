------------------------------ MODULE Checknet ------------------------------
(***************************************************************************)
(* Checknet (checknet.cpp), the node's own measuring cycle: ask the BE for *)
(* targets, queue one job for each and a ping of the gateway, collect the  *)
(* results as they come, report them all at once.  A peer that does not    *)
(* answer is traced within the cycle.  Jobs and results carry their index  *)
(* in the cycle and nothing that names the cycle.                          *)
(***************************************************************************)
EXTENDS NetWorker

CONSTANTS MaxJobs,         \* CHECKNET_MAX_JOBS
          Assignments,     \* the job lists the BE may send
          MaxCycles,       \* bound: cycles in a behaviour
          HiLoad, LoLoad   \* jobs of the other clients, by the queue they use

\* What the BE lists (checknet.h, struct CnJob).
Targets == [kind : {"icmp", "tcp", "dns", "http"}, tk : {"target", "peer"}]

ASSUME CnAssumption == /\ MaxJobs \in Nat \ {0}
                       /\ \A list \in Assignments : list \in Seq(Targets)
                       /\ MaxCycles \in Nat
                       /\ \A j \in HiLoad \cup LoLoad : j.src # "checknet"

VARIABLES state,        \* g_state: "idle", "wait" (for check_jobs), "collect"
          enabled,      \* g_cfg.enabled
          maxJobs,      \* g_cfg.max_jobs
          jobs,         \* g_jobs[0 .. g_jobCount-1], as a sequence
          res,          \* g_res: where each job's result came from, see Measured
          outstanding,  \* g_outstanding
          trJob,        \* g_tr_job: the place of the traced job, 0 for none
          trLaunched,   \* g_tr_launched
          \* For the properties:
          cycle,        \* how many lists were turned into a cycle
          reported,     \* the cycles a report was put together for, in order
          report        \* the results in the last report

cnConfig == <<enabled, maxJobs>>
cnCycle == <<jobs, res, trJob, trLaunched, cycle>>
cnReports == <<reported, report>>
cnVars == <<state, cnConfig, cnCycle, outstanding, cnReports>>
vars == <<workerVars, cnVars>>

NoResult == [cycle |-> 0, deferred |-> FALSE]

\* Of a measurement only this matters here: of which cycle was the job, and
\* was it carried out at all.
Measured(r) == [cycle |-> r.job.cycle, deferred |-> r.deferred]
Target(kind, tk) == [kind |-> kind, tk |-> tk]
CnJob(i, kind) == [src |-> "checknet", kind |-> kind, idx |-> i, cycle |-> cycle']

Init == /\ WorkerInit
        /\ state = "idle"
        /\ enabled = TRUE
        /\ maxJobs = MaxJobs
        /\ jobs = <<>> /\ res = <<>>
        /\ outstanding = 0
        /\ trJob = 0 /\ trLaunched = FALSE
        /\ cycle = 0
        /\ reported = <<>> /\ report = <<>>

\* Mistakes used by the project's mutants only.
CountRefused(accepted, n) == n
TraceEveryDeafPeer(i) == jobs[i].kind = "icmp" /\ jobs[i].tk = "peer"

-----------------------------------------------------------------------------
\* checknet_set_config, from the BE: a running cycle is not touched.
SetConfig(on, mj) == /\ InHandler
                     /\ enabled' = on
                     /\ maxJobs' = mj
                     /\ UNCHANGED <<queueVars, state, cnCycle, outstanding, cnReports>>

\* checknet_update, checknet_run: the interval is over, no tunnel is open, WiFi
\* and WS are up.
Run == /\ InHandler
       /\ state = "idle" /\ enabled
       /\ state' = "wait"
       /\ UNCHANGED <<queueVars, cnConfig, cnCycle, outstanding, cnReports>>

\* checknet_update: no list came in ten seconds.
WaitTimeout == /\ InHandler
               /\ state = "wait"
               /\ state' = "idle"
               /\ UNCHANGED <<queueVars, cnConfig, cnCycle, outstanding, cnReports>>

\* Back to idle after the report.
ToIdle == state' = "idle"

\* cn_finish_cycle with results rs.  A report that outgrows its buffer is
\* skipped, with the entities made from it, and one made with the WS down is
\* lost: neither is made again, and the cycle ends all the same.
Finish(rs) == /\ reported' = Append(reported, cycle')
              /\ report' = rs
              /\ ToIdle

\* The jobs of a cycle: of the BE's list at most max_jobs, and a ping of the
\* gateway when there is one.
CycleJobs(list, gateway) ==
  SubSeq(list, 1, IF Len(list) < maxJobs THEN Len(list) ELSE maxJobs)
    \o (IF gateway THEN <<Target("icmp", "gateway")>> ELSE <<>>)

\* How many of n pushes the lo queue takes, and what g_outstanding counts.
Accepted(n) == IF n <= JobQDepth - Len(loQ) THEN n ELSE JobQDepth - Len(loQ)
Outstanding(accepted, n) == accepted

ListExpected == state = "wait"

\* checknet_on_jobs.  A job the full queue refuses stays without a result and
\* is reported as failed.
OnJobs(list, gateway) ==
  /\ InHandler
  /\ ListExpected
  /\ cycle < MaxCycles
  /\ cycle' = cycle + 1
  /\ jobs' = CycleJobs(list, gateway)
  /\ res' = [i \in DOMAIN jobs' |-> NoResult]
  /\ trJob' = 0 /\ trLaunched' = FALSE
  /\ LET n == Len(jobs')
     IN /\ loQ' = loQ \o [i \in 1 .. Accepted(n) |-> CnJob(i, jobs'[i].kind)]
        /\ outstanding' = Outstanding(Accepted(n), n)
        /\ \/ n = 0 /\ state' = "idle" /\ UNCHANGED cnReports
           \/ n > 0 /\ outstanding' = 0 /\ Finish(res')
           \/ n > 0 /\ outstanding' > 0 /\ state' = "collect" /\ UNCHANGED cnReports
  /\ UNCHANGED <<hiQ, cnConfig>>

IsTrace(r) == r.job.kind = "trace" /\ Ran(r)

\* A peer nobody answers from is traced, once per cycle; the cooldowns, of the
\* node and of the host, may forbid it ("cool").
TraceWanted(i) == /\ jobs[i].kind = "icmp" /\ jobs[i].tk = "peer"
                  /\ ~trLaunched /\ trJob = 0
LaunchesTrace(r, cool) == ~IsTrace(r) /\ ~r.ok /\ TraceWanted(r.job.idx) /\ cool

CountTrace(launched) == IF launched THEN 1 ELSE 0

\* checknet_on_net_result while collecting.
Collect(r, cool) ==
  LET i == r.job.idx
      known == i <= Len(jobs)
      launched == known /\ LaunchesTrace(r, cool) /\ CanEnqueueLo
      left == outstanding + CountTrace(launched)
      after == IF left > 0 THEN left - 1 ELSE 0
  IN /\ state = "collect"
     /\ cycle' = cycle
     /\ res' = IF known /\ ~IsTrace(r) THEN [res EXCEPT ![i] = Measured(r)] ELSE res
     /\ trJob' = IF known /\ IsTrace(r) THEN i ELSE trJob
     /\ trLaunched' = (trLaunched \/ launched)
     /\ IF launched THEN EnqueueLo(CnJob(i, "trace")) ELSE UNCHANGED queueVars
     /\ outstanding' = after
     /\ IF after = 0 THEN Finish(res') ELSE UNCHANGED <<state, cnReports>>
     /\ UNCHANGED <<cnConfig, jobs>>

\* checknet_on_net_result: outside a collecting cycle the result is ignored.
OnNetResult(r, cool) == /\ Poll(r)
                        /\ r.job.src = "checknet"
                        /\ \/ Collect(r, cool)
                           \/ state # "collect" /\ UNCHANGED <<queueVars, cnVars>>

\* checknet_update: a minute of collecting is over; what there is is sent.
CollectTimeout == /\ InHandler
                  /\ state = "collect"
                  /\ cycle' = cycle
                  /\ Finish(res)
                  /\ UNCHANGED <<queueVars, cnConfig, jobs, res, trJob, trLaunched, outstanding>>

Dispatch == \/ \E k \in DOMAIN resQ, cool \in BOOLEAN : OnNetResult(resQ[k], cool)
            \/ OthersHandle(HiLoad, LoLoad) /\ UNCHANGED cnVars

Work == WorkerStep /\ UNCHANGED cnVars

Next == \/ \E on \in BOOLEAN, mj \in 1 .. MaxJobs : SetConfig(on, mj)
        \/ Run
        \/ WaitTimeout
        \/ \E list \in Assignments, gateway \in BOOLEAN : OnJobs(list, gateway)
        \/ CollectTimeout
        \/ Work
        \/ Dispatch
        \/ OthersSubmit(HiLoad, LoLoad) /\ UNCHANGED cnVars

Spec == Init /\ [][Next]_vars

\* loop() always reaches its next step.  The collect timeout is not assumed:
\* a cycle must end by its results.
FairSpec == Spec /\ WF_vars(Work \/ Dispatch)

-----------------------------------------------------------------------------
TypeOK == /\ state \in {"idle", "wait", "collect"}
          /\ Len(jobs) <= MaxJobs + 1 /\ DOMAIN res = DOMAIN jobs
          /\ outstanding \in 0 .. MaxJobs + 2
          /\ trJob \in 0 .. Len(jobs)

\* The cycle never waits for a result that cannot come: as many jobs of
\* checknet at least are with the worker as it counts, whatever the queue
\* refused, whichever trace was started from inside a result, and however
\* many results of an earlier, timed-out cycle are still to come.
NeverWaitsForNothing ==
  state = "collect" => outstanding \in 1 .. Flights("checknet")

\* Types, and a countdown that can reach its end.
Inv == TypeOK /\ NeverWaitsForNothing

TracesOf(c) == Cardinality({k \in DOMAIN loQ : loQ[k].src = "checknet"
                              /\ loQ[k].kind = "trace" /\ loQ[k].cycle = c})

\* No cycle is reported twice, though results, refusals and the timeout may
\* each end it, and several deaf peers in one cycle start one trace, which
\* takes half a minute of the worker.
OncePerCycle ==
  /\ \A k, l \in DOMAIN reported : reported[k] = reported[l] => k = l
  /\ \A c \in 1 .. cycle : TracesOf(c) <= 1

\* A cycle ends by its results, without the one-minute timeout.
CycleEnds == LoTurnsCome => (state = "collect" ~> state # "collect")

-----------------------------------------------------------------------------
\* What comments promise and the code does not keep.

LastReported == reported[Len(reported)]

\* checknet.cpp:409: a late result is ignored - so what a cycle reports was
\* measured in that cycle.
LateResultsIgnored ==
  \A i \in DOMAIN report : report[i].cycle \in {0, LastReported}

\* net_worker.h:30: a deferred probe is to be repeated and not counted as a
\* failure.
DeferredNotCounted == \A i \in DOMAIN report : ~report[i].deferred

\* Job i of the running cycle was refused by the queue.
OnItsWay(i) == \E j \in InFlight("checknet") : j.idx = i /\ j.cycle = cycle
Refused(i) == /\ state = "collect" /\ i \in DOMAIN jobs
              /\ res[i] = NoResult /\ ~OnItsWay(i)

\* config.h:158-159: every caller retries when a queue is full.
RefusedJobsRetried ==
  LoTurnsCome => \A i \in 1 .. MaxJobs + 1 : Refused(i) ~> OnItsWay(i)
=============================================================================
