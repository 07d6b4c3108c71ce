----------------------------- MODULE ChecknetMC -----------------------------
(***************************************************************************)
(* Two cycles of at most two listed jobs and the gateway against a lo      *)
(* queue of two: deaf peers, refused jobs, and results that outlive their  *)
(* cycle.                                                                  *)
(***************************************************************************)
EXTENDS Checknet

MCAssignments == {<<>>, <<Target("icmp", "peer")>>,
                  <<Target("icmp", "peer"), Target("icmp", "peer"), Target("dns", "target")>>,
                  <<Target("http", "target"), Target("icmp", "peer")>>}
\* The shipped sizes: a list of four and the gateway against a queue of four.
FullList == {[i \in 1 .. 4 |-> Target("dns", "target")]}

NoLoad == {}
MCHiLoad == {}
MCLoLoad == {[src |-> "script", kind |-> "scan"]}
=============================================================================
