----------------------------- MODULE MCReadPath -----------------------------
(* Small instances of ReadPath for TLC. *)
EXTENDS ReadPath
MCByte == Bytes
=============================================================================
