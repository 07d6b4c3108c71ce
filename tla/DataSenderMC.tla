---------------------------- MODULE DataSenderMC ----------------------------
(***************************************************************************)
(* One basic measurement and one of checknet; a user who posts a bare name *)
(* the BE may call native, an own. entity, and a public id that            *)
(* is not native; a script that leaves the bare native name in the pool,   *)
(* and another node that sends a name too long for an entry.               *)
(***************************************************************************)
EXTENDS DataSender, TLC

MCBasics == <<"rssi">>
MCTelemetry == {<<"ping">>}
MCPosted == {Id("", "temp"), Id("own", "note"), Id("pub", "fake")}
LongId == Id("sub", "temperature_of_the_living_room_upstairs")
MCForeign == {Id("", "temp"), LongId}
MCCut == (LongId :> Id("sub", "temperature_of_the_living_room_"))
MCNativeLists == {<<"rssi", "temp">>}

\* Nothing is cut off.
NoCut == <<>>

\* The shipped sizes and names: three basics, a cycle of checknet with
\* gateway and peers, and the WiFi scan.
ShippedBasics == <<"wifi_rssi", "wifi_nets", "uptime_s">>
ShippedTelemetry == {<<"wifi_nets">>,
                     <<"link_ping", "link_jitter", "link_loss", "net_ping", "node_ping",
                       "net_jitter", "net_loss", "node_peers">>}
=============================================================================
