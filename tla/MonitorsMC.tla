----------------------------- MODULE MonitorsMC -----------------------------
(***************************************************************************)
(* Two slots and two monitors, each in two configurations or none, against *)
(* a hi queue of one that a third client can fill.                         *)
(***************************************************************************)
EXTENDS Monitors

Cfg(tag, failN, okN, host) == [tag |-> tag, failN |-> failN, okN |-> okN, host |-> host]
MCCfgs == {Cfg("a", 2, 1, TRUE), Cfg("b", 1, 2, TRUE), Cfg("empty", 1, 1, FALSE)}
MCHiLoad == {[src |-> "checknow", kind |-> "dns"]}
NoLoad == {}
=============================================================================
