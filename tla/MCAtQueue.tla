----------------------------- MODULE MCAtQueue ------------------------------
(* Small instances of AtQueue for TLC. *)
EXTENDS AtQueue

C(res, ignore, crit) == [res |-> res, ignore |-> ignore, crit |-> crit, sent |-> FALSE]

(* at_enque_ping: one command, result ignored *)
MCPing == <<C(RES_OK, TRUE, TRUE)>>
(* at_enque_initialization, reduced to one critical and one other command *)
MCInit == <<C(RES_OK, FALSE, TRUE), C(RES_OK, FALSE, FALSE)>>
(* at_enque_sms: prompt, then text *)
MCSms == <<C(RES_SMS_PROMPT, FALSE, FALSE), C(RES_OK, FALSE, FALSE)>>
(* at_enque_dial: ATD is ignored on failure, CLCC is critical *)
MCDial == <<C(RES_OK, TRUE, FALSE), C(RES_OK, FALSE, TRUE)>>
(* at_enque_retrive_sms without autodelete *)
MCCmgr == <<C(RES_CMGR, FALSE, FALSE)>>
MCScripts == {MCSms, MCDial, MCCmgr}
=============================================================================
