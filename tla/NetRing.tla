------------------------------- MODULE NetRing -------------------------------
(***************************************************************************)
(* The worker with its hi queue kept in the ring buffer as well: every     *)
(* step that puts a job into the queue, or takes one out, calls the ring   *)
(* in the same way.  So the sequence all other modules use for a queue can *)
(* be held against what the ring has in its cells.                         *)
(***************************************************************************)
EXTENDS NetLoop, Ring

ASSUME SameQueue == N = JobQDepth /\ T = Job /\ Blank \notin Job

netRingVars == <<workerVars, ringVars>>

\* The call that goes with a step; a refused push leaves the queue alone.
RingCall == \/ \E j \in Job : hiQ' = Append(hiQ, j) /\ Push(j)
            \/ hiQ # <<>> /\ hiQ' = Tail(hiQ) /\ Pop
            \/ hiQ' = hiQ /\ UNCHANGED ringVars
            \/ hiQ' = hiQ /\ Len(hiQ) = JobQDepth /\ \E j \in Job : Push(j)

NetRingInit == Init /\ RingInit
NetRingNext == Next /\ RingCall

NetRingSpec == NetRingInit /\ [][NetRingNext]_netRingVars

FairNetRingSpec == NetRingSpec /\ LoopRuns /\ TimePasses

-----------------------------------------------------------------------------
\* The live cells of the ring are the jobs that wait, oldest first, whatever
\* is left in the others: no push overwrites a waiting job, and what a pop
\* hands out is the job whose turn it is.
RingHoldsQueue == /\ RingTypeOK
                  /\ Contents = hiQ
                  /\ hiQ # <<>> => buf[head] = Head(hiQ)
=============================================================================
