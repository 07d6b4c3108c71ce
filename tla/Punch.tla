-------------------------------- MODULE Punch -------------------------------
(***************************************************************************)
(* UDP hole punching (punch.cpp).  The BE first has the node open a NAT    *)
(* mapping from a fixed local port (stun) and, some seconds later, has it  *)
(* exchange packets with a peer through that mapping (punch).  Both are hi *)
(* jobs of the net worker; the one session record g_sess is written by the *)
(* command and read by the report.  A terminal session puts both to sleep. *)
(***************************************************************************)
EXTENDS NetWorker

VARIABLES bound,      \* g_bound: the UDP socket holds the fixed port
          gSess,      \* g_sess: number of the last punch command, 0 before the first
          mapped,     \* a STUN was answered since the port was last given up
          reports     \* the check_result messages put together, in order

punchVars == <<bound, gSess, mapped, reports>>

\* A punch command is known by its number, in the order of arrival; the
\* number stands for its peer's address and tokens.
StunJob == [src |-> "punch", kind |-> "stun", id |-> 0]
PunchJob(n) == [src |-> "punch", kind |-> "punch", id |-> n]

PunchInit == /\ bound = FALSE
             /\ gSess = 0
             /\ mapped = FALSE
             /\ reports = <<>>

\* A mistake used by the project's mutants only.
ReportsCarriedOut(r) == r.job.kind = "punch" /\ Ran(r)

-----------------------------------------------------------------------------
\* punch_on_stun with host, port and token.
OnStun(tunnel) == /\ IF tunnel THEN UNCHANGED queueVars ELSE EnqueueHi(StunJob)
                  /\ UNCHANGED punchVars

\* punch_on_punch: the session record is overwritten first, whether or not
\* the command has an address and a port and the queue has room.
OnPunch(wellFormed, tunnel) ==
  /\ IF tunnel THEN UNCHANGED <<queueVars, gSess>>
     ELSE /\ gSess' = gSess + 1
          /\ IF wellFormed THEN EnqueueHi(PunchJob(gSess + 1))
                           ELSE UNCHANGED queueVars
  /\ UNCHANGED <<bound, mapped, reports>>

\* punch_exec_stun: binds the port unless it is bound; only an answer makes
\* the job a success.
ExecStun(r) == /\ bound' \in {bound, TRUE}
               /\ r.ok => bound'
               /\ mapped' = (mapped \/ r.ok)

\* punch_exec_punch: without a bound port nothing is sent; an exchange gives
\* the port up for the trace behind it, a failed one keeps it.
ExecPunch(r) ==
  /\ r.ok => bound
  /\ bound' = (bound /\ ~r.ok)
  /\ mapped' = (mapped /\ ~r.ok)

\* The worker has run job r.
PunchExec(r) ==
  /\ IF ~Ran(r) THEN UNCHANGED <<bound, mapped>>
     ELSE CASE r.job.kind = "stun"  -> ExecStun(r)
            [] r.job.kind = "punch" -> ExecPunch(r)
            [] OTHER                -> UNCHANGED <<bound, mapped>>
  /\ UNCHANGED <<gSess, reports>>

Reported(r) == r.job.kind = "punch"

\* punch_on_net_result: the report takes the measurement from the result and
\* the peer from g_sess.  It is lost, and not made again, when it outgrows
\* its buffer or the WS is down.
OnPunchResult(r) ==
  /\ IF Reported(r)
       THEN \E sent \in BOOLEAN :
              reports' = Append(reports, [of |-> r.job.id, names |-> gSess,
                                          ok |-> r.ok, sent |-> sent])
       ELSE UNCHANGED reports
  /\ UNCHANGED <<bound, gSess, mapped>>

-----------------------------------------------------------------------------
\* The punches in the order of their reports: those reported, and behind them
\* the jobs whose punch is still in the worker.
Line == [k \in DOMAIN reports |-> PunchJob(reports[k].of)]
          \o [k \in DOMAIN resQ |-> resQ[k].job] \o hiQ
IsPunch(j) == j.src = "punch" /\ j.kind = "punch"
PunchPlaces == {i \in DOMAIN Line : IsPunch(Line[i])}

\* Every command is queued and reported once at most and in order, however
\* stuns, refused pushes and deferrals come between; a report may name the
\* peer of a later command (g_sess has moved on) but never of an earlier
\* one; and an exchange that worked had the port.
PunchInv == /\ \A i, j \in PunchPlaces : i < j => Line[i].id < Line[j].id
            /\ \A i \in PunchPlaces : Line[i].id \in 1 .. gSess
            /\ \A i \in DOMAIN reports : reports[i].names \in reports[i].of .. gSess
            /\ mapped => bound

\* For a punch the worker took on a report is put together, for the put off
\* and the failed ones too: the BE waits for both sides of a pair.
PunchReported(n) ==
  (\E k \in DOMAIN hiQ : hiQ[k] = PunchJob(n))
    ~> (\E k \in DOMAIN reports : reports[k].of = n)

\* punch.cpp:23 says there is one session at a time, so the report names the
\* session it measured.
ReportNamesItsOwn == \A k \in DOMAIN reports : reports[k].names = reports[k].of

\* An exchange is carried out in this step.
Shoots == /\ bound
          /\ \E j \in NextJobs : j.kind = "punch"
          /\ at = "front" /\ at' = "poll"
          /\ \E k \in DOMAIN resQ' : Ran(resQ'[k])

\* punch.cpp:98: "without a STUN there is no mapping - do not shoot".
ShotsAreMapped == [][Shoots => mapped]_<<workerVars, punchVars>>
=============================================================================
