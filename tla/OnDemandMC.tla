----------------------------- MODULE OnDemandMC -----------------------------
(***************************************************************************)
(* Queues of two; monitor probes fill the hi queue before and behind the   *)
(* check and the punch, a script's job waits behind the gate.              *)
(***************************************************************************)
EXTENDS OnDemand

MCHiLoad == {[src |-> "monitor", kind |-> "dns"]}
MCLoLoad == {[src |-> "script", kind |-> "scan"]}
=============================================================================
