------------------------------ MODULE OnDemand ------------------------------
(***************************************************************************)
(* What the BE has the node measure on demand: check-now and hole          *)
(* punching, side by side on one net worker.  Of the remote terminal only  *)
(* whether a session runs matters here; Tunnel.tla has the rest.           *)
(***************************************************************************)
EXTENDS Checknow, Punch

CONSTANTS HiLoad, LoLoad,   \* jobs of the other clients, by the queue they use
          MaxPunch,         \* bound: punch commands
          MaxSessions       \* bound: terminal sessions

ASSUME LoadAssumption == \A j \in HiLoad \cup LoLoad : j.src \notin {"checknow", "punch"}

VARIABLES tunnel,     \* tunnel_active()
          sessions    \* terminal sessions so far

tunnelVars == <<tunnel, sessions>>
vars == <<workerVars, checkVars, punchVars, tunnelVars>>

OdInit == /\ WorkerInit /\ CheckInit /\ PunchInit
          /\ tunnel = FALSE /\ sessions = 0

-----------------------------------------------------------------------------
\* Commands of the BE (ws_client.cpp WS_TABLE).
CheckCmd == /\ InHandler
            /\ \E id \in Ids : OnCmd(id)
            /\ UNCHANGED <<punchVars, tunnelVars>>

PunchCmd == /\ InHandler
            /\ \/ OnStun(tunnel)
               \/ gSess < MaxPunch /\ \E wf \in BOOLEAN : OnPunch(wf, tunnel)
            /\ UNCHANGED <<checkVars, tunnelVars>>

TunnelMoves == /\ InHandler
               /\ tunnel' = ~tunnel
               /\ sessions' = IF tunnel THEN sessions ELSE sessions + 1
               /\ sessions' <= MaxSessions
               /\ UNCHANGED <<queueVars, checkVars, punchVars>>

\* The worker's turn.
RunOne == \E j \in NextJobs : \E r \in Outcomes(j) :
            RunJob(r) /\ CountFetch(r) /\ PunchExec(r)

Work == /\ \/ RunOne
           \/ (IdleTick \/ EndPoll) /\ UNCHANGED <<checkVars, punchVars>>
        /\ UNCHANGED tunnelVars

\* The dispatch loop hands a result to its client.
OnNetResult(r) == /\ Poll(r)
                  /\ \/ /\ r.job.src = "checknow"
                        /\ OnCheckResult(r)
                        /\ UNCHANGED punchVars
                     \/ /\ r.job.src = "punch"
                        /\ OnPunchResult(r)
                        /\ UNCHANGED <<queueVars, checkVars>>

Dispatch == /\ \/ \E k \in DOMAIN resQ : OnNetResult(resQ[k])
               \/ OthersHandle(HiLoad, LoLoad) /\ UNCHANGED <<checkVars, punchVars>>
            /\ UNCHANGED tunnelVars

Others == /\ OthersSubmit(HiLoad, LoLoad) \/ GateExpires
          /\ UNCHANGED <<checkVars, punchVars, tunnelVars>>

OdNext == CheckCmd \/ PunchCmd \/ TunnelMoves \/ Work \/ Dispatch \/ Others

OdSpec == OdInit /\ [][OdNext]_vars

\* loop() always reaches its next step.
OdFairSpec == OdSpec /\ WF_vars(Work \/ Dispatch)

-----------------------------------------------------------------------------
\* Types and bounds, one flight and one fetch per check, punches queued and
\* reported once and in order.
OdInv == /\ CheckTypeOK /\ QueuesFit
         /\ SlotMatchesFlight /\ FetchedOnceAtMost
         /\ PunchInv

\* punch.cpp:5 and 33: punching sleeps for the time of a terminal session.
PunchSleeps == [][Shoots => ~tunnel]_vars

PunchesReported == \A n \in 1 .. MaxPunch : PunchReported(n)
=============================================================================
