--------------------------- MODULE UserScriptsMC ----------------------------
(***************************************************************************)
(* Two slots, so that a deletion moves a script; three ids, so that a full *)
(* table refuses; two bodies, so that an id can be stored anew.            *)
(***************************************************************************)
EXTENDS UserScripts
=============================================================================
