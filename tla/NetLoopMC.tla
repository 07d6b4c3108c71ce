----------------------------- MODULE NetLoopMC ------------------------------
(***************************************************************************)
(* The worker with queues of two jobs and four jobs in all: a queue fills  *)
(* up, a STUN shuts the gate before and behind waiting lo jobs, a punch    *)
(* opens it, a guarded probe is blocked.  The ring's head wraps with the   *)
(* ring full, empty and in between.                                        *)
(***************************************************************************)
EXTENDS NetRing

J(src, kind, id) == [src |-> src, kind |-> kind, id |-> id]

MCJob == {J("punch", "stun", 1), J("punch", "punch", 1),
          J("monitor", "icmp", 1), J("checknet", "trace", 1)}
=============================================================================
