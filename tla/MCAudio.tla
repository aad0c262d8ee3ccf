------------------------------ MODULE MCAudio -------------------------------
(* A small instance of Audio for TLC. *)
EXTENDS Audio
MCVoice(c) == IF c % 2 = 1 THEN {<<1, 3>>} ELSE {<<4, 2, 6>>}
MCSample == -6 .. 6
=============================================================================
