---------------------------- MODULE WsSessionMC -----------------------------
(* An answer may take longer than the first two waits of the guard. *)
EXTENDS WsSession
=============================================================================
