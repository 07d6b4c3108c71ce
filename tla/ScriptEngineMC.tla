--------------------------- MODULE ScriptEngineMC ---------------------------
(***************************************************************************)
(* One script of the BE, in two versions, and one of the user's, against a *)
(* lo queue of two that integration jobs share and hi jobs that starve it. *)
(***************************************************************************)
EXTENDS ScriptEngine

Script(id, steps) == [id |-> id, steps |-> steps]
Old == Script("s", <<"net", "net">>)
New == Script("s", <<"inline", "net">>)
MCDataLists == {<<Old>>, <<New>>}
MCUserLists == {<<>>, <<Script("u", <<"net">>)>>}
MCHiLoad == {[src |-> "monitor", kind |-> "dns"]}
MCLoLoad == {[src |-> "integration", kind |-> "whook"]}
=============================================================================
