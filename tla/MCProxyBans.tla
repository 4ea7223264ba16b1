---------------------------- MODULE MCProxyBans -----------------------------
(* Instances of ProxyBans for TLC. *)
EXTENDS ProxyBans

Calls == Handler \X Ban \X {"dump", "delete"}
=============================================================================
