----------------------------- MODULE MCSession ------------------------------
(* Small instances of Session and of the coding of messages for TLC. *)
EXTENDS Messages

(* Every setting is on in one and off in another. *)
MCConfs ==
  {[fmt |-> "text", disablesms |-> FALSE, autodeletesms |-> TRUE],
   [fmt |-> "pdu", disablesms |-> TRUE, autodeletesms |-> FALSE]}

(* Left out: AT^U2DIAG, AT+CSCA? and AT+CREG?, whose errors drop the rest of *)
(* the initialization, and AT^CVOICE? and AT+CSCS, which a modem can or not. *)
MCFails == {"AT", "CREG_INIT", "CMGF", "CNMI", "PING", "CCWA", "CMGS",
            "SMSTEXT", "CUSD", "CMGR", "CMGD"}

(* Odd and even numbers, every digit once. *)
MCNumbers == {<<"7">>, <<"*", "0">>, <<"1", "2", "3", "4", "5", "6", "8", "9", "#", "A", "B", "C", "0">>}

(* Two packings of eight characters and the limits of a message, as text of *)
(* 7 bits with its bits set in turn, and symbols of two octets.             *)
MCTexts == {[i \in 1..n |-> (37 * i * i + 85) % 128] : n \in 0..17 \cup {159, 160, 161}}
           \cup {[i \in 1..n |-> 127] : n \in 1..8}
           \cup {[i \in 1..n |-> IF i = n THEN 1055 ELSE 233] : n \in {1, 2, 35, 36}}

(* Both sides of every value of the relative validity period. *)
MCValidities == 1..1500 \cup UNION {{1440 * k - 1, 1440 * k, 1440 * k + 1} : k \in 1..30}
                \cup UNION {{10080 * k - 1, 10080 * k, 10080 * k + 1} : k \in 4..64}
=============================================================================
