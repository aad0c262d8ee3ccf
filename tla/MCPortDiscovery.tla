-------------------------- MODULE MCPortDiscovery ---------------------------
(* A small instance of PortDiscovery for TLC. *)
EXTENDS PortDiscovery
CONSTANTS p1, p2, d1, d2
MCPorts == <<p1, p2>>
MCDevices == <<d1, d2>>
MCWant == d1 :> [imei |-> "i1", imsi |-> Null] @@ d2 :> [imei |-> "i2", imsi |-> "s2"]
MCModems == {[imei |-> "i1", imsi |-> Null], [imei |-> "i2", imsi |-> "s2"]}
=============================================================================
