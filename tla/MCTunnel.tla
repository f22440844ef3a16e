------------------------------ MODULE MCTunnel ------------------------------
(* Model checking of Tunnel.                                               *)
EXTENDS Tunnel, TLC

MCConfigs == {[id |-> NoConnection, protocol |-> "rdp"], [id |-> "c1", protocol |-> "rdp"]}
MCParameters == "hostname" :> "h" @@ "port" :> "p" @@ "security" :> ""
MCAsks == {<<"hostname", "port">>, <<"hostname", "security", "port">>, <<"timezone", "port">>}
=============================================================================
