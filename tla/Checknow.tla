------------------------------ MODULE Checknow ------------------------------
(***************************************************************************)
(* Check-now (checknow.cpp): the BE asks for one probe of a URL and gets   *)
(* one report.  One slot; a probe the worker put off for lack of memory is *)
(* queued once more from inside the result handler.  OnDemand.tla closes   *)
(* the system.                                                             *)
(***************************************************************************)
EXTENDS NetWorker

CONSTANTS Ids,             \* the BE's ids of checks; an id stands for its URL too
          None             \* no id

ASSUME CheckAssumption == None \notin Ids

VARIABLES gId,       \* g_id: the check in flight, None when the slot is free
          gJob,      \* g_job: the job kept for the retry
          gRetried,  \* g_retried
          fetches    \* how often the URL of the check in flight was fetched

checkVars == <<gId, gJob, gRetried, fetches>>

CheckJob(id) == [src |-> "checknow", kind |-> "http", id |-> id]
NoJob == CheckJob(None)

CheckInit == /\ gId = None
             /\ gJob = NoJob
             /\ gRetried = FALSE
             /\ fetches = 0

-----------------------------------------------------------------------------
SlotFree == gId = None

Taken(id) == /\ gId' = id
             /\ gJob' = CheckJob(id)
             /\ gRetried' = FALSE
             /\ fetches' = 0

\* The slot is taken only behind a push that was not refused.
FillSlot(id) == IF CanEnqueueHi
                  THEN Taken(id)
                  ELSE UNCHANGED <<gId, gJob, gRetried, fetches>>

\* checknow_on_cmd with a well-formed public URL; a URL that is refused, and
\* a command while the slot is taken, change nothing.
OnCmd(id) == /\ SlotFree
             /\ EnqueueHi(CheckJob(id))
             /\ FillSlot(id)

Retries(r) == r.deferred /\ ~gRetried /\ CanEnqueueHi

\* checknow_on_net_result: a result for a free slot is ignored, otherwise the
\* probe is repeated, or reported under gId and the slot freed.
OnCheckResult(r) ==
  IF SlotFree THEN UNCHANGED <<queueVars, checkVars>>
  ELSE \/ /\ Retries(r)
          /\ EnqueueHi(gJob)
          /\ gRetried' = TRUE
          /\ UNCHANGED <<gId, gJob, fetches>>
       \/ /\ ~Retries(r)
          /\ gId' = None
          /\ UNCHANGED <<queueVars, gJob, gRetried, fetches>>

\* The worker has run job r: fetches counts the probes that really went out.
CountFetch(r) == /\ fetches' = IF r.job.src = "checknow" /\ Ran(r)
                                 THEN fetches + 1 ELSE fetches
                 /\ UNCHANGED <<gId, gJob, gRetried>>

-----------------------------------------------------------------------------
CheckTypeOK == /\ gId \in Ids \cup {None}
               /\ gJob \in {CheckJob(id) : id \in Ids \cup {None}}
               /\ gRetried \in BOOLEAN
               /\ fetches \in Nat

\* A taken slot has exactly one job or result on its way, its own, and a
\* free slot none.  So the report carries the measurement of its own id, no
\* result finds the slot free, and the slot cannot stay taken with nothing
\* left to free it - the module has no timeout that would.
SlotMatchesFlight ==
  /\ SlotFree => InFlight("checknow") = {}
  /\ ~SlotFree => /\ InFlight("checknow") = {CheckJob(gId)}
                  /\ Flights("checknow") = 1
                  /\ gJob = CheckJob(gId)

\* One check fetches its URL once at most: the retry repeats a probe that
\* was not carried out, never one that failed.
FetchedOnceAtMost == ~SlotFree => fetches <= 1

\* Whatever other clients queue, a check is answered and the slot freed for
\* the next.
SlotFreed == \A id \in Ids : (gId = id) ~> SlotFree

\* checknow.cpp:88-90 says of a deferred probe, which was NOT carried out,
\* that it is repeated "instead of reporting a false DOWN", and of the second
\* miss that the BE will count a timeout.
NoFalseDown == [][~SlotFree /\ SlotFree' => ~Head(resQ).deferred]_<<gId, resQ>>
=============================================================================
