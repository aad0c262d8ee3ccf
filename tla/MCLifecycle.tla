---------------------------- MODULE MCLifecycle -----------------------------
(* Small instances of Lifecycle for TLC. *)
EXTENDS Lifecycle
MCStarted == [init |-> "started", pdu |-> 0, tty |-> 1]
(* the same device on other ports, told to stay stopped, or disabled *)
MCMoved == [MCStarted EXCEPT !.tty = 2]
MCStopped == [MCStarted EXCEPT !.init = "stopped"]
MCAll == {MCStarted, MCMoved, MCStopped, [MCStarted EXCEPT !.init = "removed"]}
=============================================================================
