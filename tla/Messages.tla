------------------------------ MODULE Messages ------------------------------
(***************************************************************************)
(* The session of a device together with the coding of what it sends and   *)
(* reads.  A message of Session stands for any number, text and validity   *)
(* period, so the operators of Pdu are applied to all of them.             *)
(***************************************************************************)
EXTENDS Session, Pdu


(* What a modem in PDU format shows of a message is taken for a PDU, and     *)
(* whatever came in is parsed to its sender and text, or refused if it was   *)
(* damaged on the line.  (A device without voice reads messages while it is  *)
(* still initialized.)                                                       *)
DeliverExact ==
  Got("CMGR") /\ modem.fmt = "pdu" /\ modem.voice /\ ~raced => pvt.fmt = "pdu" /\ ParsesDeliver
=============================================================================
