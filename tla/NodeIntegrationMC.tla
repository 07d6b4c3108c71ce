------------------------- MODULE NodeIntegrationMC --------------------------
(***************************************************************************)
(* Four events through a ring of two, and a lo queue the scripts' jobs can *)
(* fill: the ring wraps and overflows while a batch waits.                 *)
(***************************************************************************)
EXTENDS NodeIntegration

MCHiLoad == {[src |-> "monitor", kind |-> "dns"]}
MCLoLoad == {[src |-> "script", kind |-> "scan"]}
=============================================================================
