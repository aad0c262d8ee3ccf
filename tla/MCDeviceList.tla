---------------------------- MODULE MCDeviceList ----------------------------
(* Small instances of DeviceList for TLC. *)
EXTENDS DeviceList
CONSTANTS d1, d2, d3
MCLoaded == <<d1, d2, d3>>
MCRotations == {[kind |-> "group", match |-> {d1, d2, d3}]}
MCFirsts == {{d2, d3}}
=============================================================================
