------------------------------ MODULE MCCalls -------------------------------
(* Small instances of Calls for TLC. *)
EXTENDS Calls
MCNone == {}
MCPlain == {{}}
MCConference == {{"hold", "conference"}}
=============================================================================
