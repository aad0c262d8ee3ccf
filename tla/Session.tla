------------------------------ MODULE Session -------------------------------
(***************************************************************************)
(* One device from connection to loss: the initialization, registration,   *)
(* messages and USSD, on top of the command queue.  Actors: the monitor    *)
(* (one line of the modem per critical section, at_response and then       *)
(* at_queue_run), Asterisk threads that send, the operator who reloads the *)
(* configuration or asks for a graceful stop, and the modem (external).    *)
(* The modem keeps its modes and its messages over a reconnect, or loses   *)
(* its modes when it is unplugged.                                         *)
(*                                                                         *)
(* "AT" stands for all initialization commands whose failure is fatal      *)
(* (AT, ATZ, ATE, CGMI, CGMM, CGMR, CMEE, CGSN, CIMI, CPIN, COPS=, CNUM,   *)
(* CSSN), "CNMI" for CPMS and CNMI, "U2DIAG" for U2DIAG and CSCA, whose    *)
(* answers change nothing, "CCWA" for setting and asking for call waiting. *)
(* Writes succeed here, failing ones are in AtQueue; there are no calls,   *)
(* they are in Calls.                                                      *)
(***************************************************************************)
EXTENDS AtQueueOps, FiniteSets

CONSTANTS Confs,      \* settings the device may have
          In,         \* messages that may come in
          Out,        \* messages and USSD codes that may be sent
          Fails,      \* commands the modem may refuse at any time
          MaxReg,     \* bound on changes of the registration
          MaxLost,    \* bound on losses of the device
          MaxReload   \* bound on changes of the configuration

VARIABLES pvt,       \* the driver's device
          conf,      \* its settings: fmt is smsaspdu
          stop,      \* request to stop: how long it waits, "due", "done"
          rx,        \* lines sent by the modem, not handled yet
          answered,  \* the head command got its final code
          modem,     \* what is the case
          inbox,     \* messages that came in: announced, wanted, over
          outbox,    \* what is sent: queued, over once reported or lost
          raced,     \* settings changed between AT+CMGF and its answer
          emptied    \* AT+CMGR found no message and was answered by OK

vars == <<pvt, conf, stop, rx, answered, modem, inbox, outbox, raced, emptied>>

ASSUME SessionAssumption ==
  /\ {MaxReg, MaxLost, MaxReload} \subseteq Nat
  /\ Confs \subseteq [fmt : {"text", "pdu"}, disablesms : BOOLEAN, autodeletesms : BOOLEAN]

InitList == <<"AT", "U2DIAG", "CREG_INIT", "CREG", "CVOICE", "CMGF", "CSCS", "CNMI", "CSQ">>

Expected(name) == CASE name = "CMGR" -> RES_CMGR
                    [] name = "CMGS" -> RES_SMS_PROMPT
                    [] OTHER -> RES_OK
Cmd(name, arg) == [cmd |-> name, arg |-> arg, res |-> Expected(name), sent |-> FALSE,
                   ignore |-> name \in {"CREG_INIT", "CSCS", "CCWA", "PING"}]

Line(t, arg) == [t |-> t, arg |-> arg]
CregLine(reg) == Line("CREG", IF reg THEN "registered" ELSE "searching")

Disconnected ==
  [connected |-> FALSE, initialized |-> FALSE, has_voice |-> FALSE, has_sms |-> FALSE,
   fmt |-> "text", ucs2 |-> FALSE, gsm_registered |-> FALSE, incoming_sms |-> FALSE,
   queue |-> << >>]

Init ==
  /\ pvt = Disconnected
  /\ conf \in Confs
  /\ stop = "no" /\ rx = << >> /\ answered = FALSE
  /\ \E voice, charset \in BOOLEAN :
       modem = [voice |-> voice, charset |-> charset, reg |-> TRUE,
                fmt |-> "text", ucs2 |-> FALSE, creg |-> FALSE, cnmi |-> FALSE,
                regs |-> 0, lost |-> 0, reloads |-> 0]
  /\ inbox = [m \in In |-> "none"] /\ outbox = [o \in Out |-> "none"]
  /\ raced = FALSE /\ emptied = FALSE

-----------------------------------------------------------------------------
(* Queue *)

at_queue_run(q) == IF HeadUnsent(q) THEN MarkSent(q) ELSE q

at_queue_insert(p, cmds, prio) ==
  [p EXCEPT !.queue = at_queue_run(at_queue_add(@, [cindex |-> 0, cmds |-> cmds], prio))]

at_queue_handle_result(p, res) == [p EXCEPT !.queue = at_queue_remove_cmd(@, res)]

From(name) == LET i == CHOOSE j \in DOMAIN InitList : InitList[j] = name
              IN  SubSeq(InitList, i, Len(InitList))

at_enque_initialization(p, from) ==
  LET names == From(from)
      InitCmd(name) == Cmd(name, IF name = "CMGF" THEN conf.fmt ELSE "-")
  IN  at_queue_insert(p, [i \in DOMAIN names |-> InitCmd(names[i])], FALSE)

at_enque_retrive_sms(p, m) ==
  at_queue_insert(p, IF conf.autodeletesms THEN <<Cmd("CMGR", m), Cmd("CMGD", m)>>
                     ELSE <<Cmd("CMGR", m)>>, FALSE)

at_enque_cops(p) == at_queue_insert(p, <<Cmd("COPS", "-")>>, FALSE)
at_enque_set_ccwa(p) == at_queue_insert(p, <<Cmd("CCWA", "-")>>, FALSE)
at_enque_ping(p) == at_queue_insert(p, <<Cmd("PING", "-")>>, TRUE)

HeadCmd == at_queue_task_cmd(Head(pvt.queue))

(* Commands of a task that are still to be answered *)
Pending(name) == \E i \in DOMAIN pvt.queue : \E j \in DOMAIN pvt.queue[i].cmds :
                   j > pvt.queue[i].cindex /\ pvt.queue[i].cmds[j].cmd = name

-----------------------------------------------------------------------------
(* Life of the session *)

(* pvt_start and the beginning of do_monitor_phone *)
Connect ==
  /\ ~pvt.connected /\ stop = "no"
  /\ pvt' = at_enque_initialization([pvt EXCEPT !.connected = TRUE], "AT")
  /\ UNCHANGED <<conf, stop, rx, answered, modem, inbox, outbox, raced, emptied>>

disconnect_datacard(p) == Disconnected

(* The modem may have been switched off as well *)
Disconnect(m) ==
  /\ pvt' = disconnect_datacard(pvt)
  /\ stop' = IF stop = "no" THEN "no" ELSE "done"
  /\ rx' = << >> /\ answered' = FALSE
  /\ \/ modem' = m
     \/ modem' = [m EXCEPT !.fmt = "text", !.ucs2 = FALSE, !.creg = FALSE, !.cnmi = FALSE]
  /\ inbox' = [i \in In |-> IF inbox[i] = "none" THEN "none" ELSE "over"]
  /\ outbox' = [o \in Out |-> IF outbox[o] = "none" THEN "none" ELSE "over"]
  /\ raced' = FALSE /\ emptied' = FALSE
  /\ UNCHANGED conf

(* the port is gone, or the head command timed out *)
Lost ==
  /\ pvt.connected /\ modem.lost < MaxLost
  /\ Disconnect([modem EXCEPT !.lost = @ + 1])

(* terminate_monitor, set by the discovery thread *)
Terminate ==
  /\ pvt.connected /\ stop = "due"
  /\ Disconnect(modem)

(* pvt_try_restate: only incoming_sms is ever set, outgoing_sms is not *)
pvt_try_restate(incoming) ==
  stop' = IF stop \in {"gracefully", "convenient"} /\ ~incoming THEN "due" ELSE stop

pvt_enabled == stop \in {"no", "convenient"}

(* datacard stop gracefully | when convenient *)
RequestStop(when) ==
  /\ pvt.connected /\ stop = "no"
  /\ stop' = IF pvt.incoming_sms THEN when ELSE "due"
  /\ UNCHANGED <<pvt, conf, rx, answered, modem, inbox, outbox, raced, emptied>>

(* pvt_reconfigure copies the settings; Lifecycle has what else it does *)
Reload ==
  /\ modem.reloads < MaxReload
  /\ conf' \in Confs \ {conf}
  /\ modem' = [modem EXCEPT !.reloads = @ + 1]
  /\ raced' = (raced \/ (Pending("CMGF") /\ conf'.fmt # conf.fmt))
  /\ UNCHANGED <<pvt, stop, rx, answered, inbox, outbox, emptied>>

-----------------------------------------------------------------------------
(* Asterisk threads *)

Online == pvt.connected /\ pvt.initialized /\ pvt.gsm_registered

at_enque_sms(p, o) == at_queue_insert(p, <<Cmd("CMGS", p.fmt), Cmd("SMSTEXT", o)>>, FALSE)
at_enque_ussd(p, o) == at_queue_insert(p, <<Cmd("CUSD", o)>>, FALSE)

send2(o) ==
  /\ Online /\ outbox[o] = "none"
  /\ pvt' \in {at_enque_sms(pvt, o), at_enque_ussd(pvt, o)}
  /\ outbox' = [outbox EXCEPT ![o] = "queued"]
  /\ UNCHANGED <<conf, stop, rx, answered, modem, inbox, raced, emptied>>

(* the monitor, when nothing came in for a while *)
Ping ==
  /\ pvt.connected /\ pvt.queue = << >> /\ rx = << >>
  /\ pvt' = at_enque_ping(pvt)
  /\ UNCHANGED <<conf, stop, rx, answered, modem, inbox, outbox, raced, emptied>>

-----------------------------------------------------------------------------
(* The modem (external) *)

Reply(lines, m) ==
  /\ rx' = rx \o lines /\ answered' = TRUE /\ modem' = m
  /\ UNCHANGED <<pvt, conf, stop, inbox, outbox, raced, emptied>>

Executing == pvt.connected /\ HeadSent(pvt.queue) /\ ~answered

Ok == Line("OK", "-")

Mode(c) == CASE c.cmd = "CMGF" -> [modem EXCEPT !.fmt = c.arg]
             [] c.cmd = "CSCS" -> [modem EXCEPT !.ucs2 = TRUE]
             [] c.cmd = "CREG_INIT" -> [modem EXCEPT !.creg = TRUE]
             [] c.cmd = "CNMI" -> [modem EXCEPT !.cnmi = TRUE]
             [] OTHER -> modem

Able(c) == (c.cmd = "CVOICE" => modem.voice) /\ (c.cmd = "CSCS" => modem.charset)

Execute ==
  /\ Executing /\ Able(HeadCmd)
  /\ LET c == HeadCmd
     IN  CASE c.cmd = "CREG" -> Reply(<<CregLine(modem.reg), Ok>>, modem)
           [] c.cmd = "CMGS" -> Reply(<<Line("PROMPT", "-")>>, modem)
           [] c.cmd = "CMGR" -> Reply(<<Line("CMGR", "-")>>, modem)
           [] c.cmd = "CUSD" -> \E lines \in {<<Ok, Line("CUSD", "-")>>, <<Line("CUSD", "-"), Ok>>} :
                                  Reply(lines, modem)
           [] OTHER -> Reply(<<Ok>>, Mode(c))

Refuse ==
  /\ Executing /\ (HeadCmd.cmd \in Fails \/ ~Able(HeadCmd))
  /\ Reply(<<Line("ERROR", "-")>>, modem)

(* AT+CPIN?: the card needs a PIN or PUK *)
Locked ==
  /\ Executing /\ HeadCmd.cmd = "AT"
  /\ Reply(<<Line("CPIN", "-"), Ok>>, modem)

(* the message was deleted by somebody else *)
Erased ==
  /\ Executing /\ HeadCmd.cmd = "CMGR"
  /\ Reply(<<Ok>>, modem)

(* a message is stored and announced *)
Announce(m) ==
  /\ pvt.connected /\ modem.cnmi /\ inbox[m] = "none"
  /\ rx' = Append(rx, Line("CMTI", m))
  /\ inbox' = [inbox EXCEPT ![m] = "announced"]
  /\ UNCHANGED <<pvt, conf, stop, answered, modem, outbox, raced, emptied>>

Register ==
  /\ modem.regs < MaxReg
  /\ modem' = [modem EXCEPT !.reg = ~@, !.regs = @ + 1]
  /\ rx' = IF pvt.connected /\ modem.creg THEN Append(rx, CregLine(~modem.reg)) ELSE rx
  /\ UNCHANGED <<pvt, conf, stop, answered, inbox, outbox, raced, emptied>>

-----------------------------------------------------------------------------
(* at_response for the first line, then at_queue_run *)

Got(t) == rx # << >> /\ Head(rx).t = t

Handled(p) ==
  /\ pvt' = [p EXCEPT !.queue = at_queue_run(@)]
  /\ rx' = Tail(rx) /\ UNCHANGED <<conf, modem>>

(* the final code of the command at the head *)
Final(p, res) == Handled(at_queue_handle_result(p, res)) /\ answered' = FALSE

Over(box, id) == [box EXCEPT ![id] = "over"]

(* Mutant: the character set that was switched to is not noted *)
AfterOk_NoUcs2(c) ==
  CASE c.cmd = "CVOICE" -> [pvt EXCEPT !.has_voice = TRUE]
    [] c.cmd = "CMGF" -> [pvt EXCEPT !.fmt = conf.fmt]
    [] c.cmd = "CNMI" -> [pvt EXCEPT !.has_sms = TRUE, !.initialized = TRUE]
    [] OTHER -> pvt

AfterOk(c) ==
  CASE c.cmd = "CVOICE" -> [pvt EXCEPT !.has_voice = TRUE]
    [] c.cmd = "CMGF" -> [pvt EXCEPT !.fmt = conf.fmt]
    [] c.cmd = "CSCS" -> [pvt EXCEPT !.ucs2 = TRUE]
    [] c.cmd = "CNMI" -> [pvt EXCEPT !.has_sms = TRUE, !.initialized = TRUE]
    [] OTHER -> pvt

(* The message or code the command at the head completes is sent *)
Sent == {"SMSTEXT", "CUSD"}

at_response_ok ==
  /\ Got("OK")
  /\ LET c == HeadCmd
     IN  /\ Final(AfterOk(c), RES_OK)
         /\ IF c.cmd = "SMSTEXT" THEN pvt_try_restate(pvt.incoming_sms) ELSE UNCHANGED stop
         /\ outbox' = IF c.cmd \in Sent THEN Over(outbox, c.arg) ELSE outbox
         /\ inbox' = IF c.cmd = "CMGR" THEN Over(inbox, c.arg) ELSE inbox
         /\ emptied' = (emptied \/ c.cmd = "CMGR")
  /\ UNCHANGED raced

(* Critical errors; and without messages a device is given up, voice or not *)
Fatal(c) == \/ c.cmd \in {"AT", "PING", "CREG_INIT"}
            \/ c.cmd \in {"CMGF", "CNMI"} /\ ~pvt.initialized


AfterError(c) ==
  CASE c.cmd = "CVOICE" /\ ~pvt.initialized ->
         at_enque_initialization([pvt EXCEPT !.has_voice = FALSE], "CMGF")
    [] c.cmd = "CSCS" -> [pvt EXCEPT !.ucs2 = FALSE]
    [] c.cmd \in {"CMGR", "CMGD"} -> [pvt EXCEPT !.incoming_sms = FALSE]
    [] OTHER -> pvt

(* Mutant: nobody is told that the modem did not take the message *)
NotSent_Text == {"SMSTEXT", "CUSD"}

(* The message or code of the task at the head is not sent *)
NotSent == {"CMGS", "SMSTEXT", "CUSD"}

at_response_error ==
  /\ Got("ERROR")
  /\ LET c == HeadCmd
         last == Head(pvt.queue).cmds[Len(Head(pvt.queue).cmds)]
     IN  \/ Fatal(c) /\ Disconnect(modem)
         \/ /\ ~Fatal(c)
            /\ Final(AfterError(c), RES_ERROR)
            /\ CASE c.cmd \in {"CMGR", "CMGD"} -> pvt_try_restate(FALSE)
                 [] c.cmd \in {"CMGS", "SMSTEXT"} -> pvt_try_restate(pvt.incoming_sms)
                 [] OTHER -> UNCHANGED stop
            /\ outbox' = IF c.cmd \in NotSent THEN Over(outbox, last.arg) ELSE outbox
            /\ inbox' = IF c.cmd = "CMGR" THEN Over(inbox, c.arg) ELSE inbox
            /\ emptied' = (emptied /\ c.cmd \notin {"CMGR", "CMGD"})
            /\ UNCHANGED raced

(* Mutant: a graceful request is not looked at again *)
at_response_cmgr_Forgets ==
  /\ Got("CMGR") /\ HeadCmd.res = RES_CMGR
  /\ Final([pvt EXCEPT !.incoming_sms = FALSE], RES_CMGR)
  /\ inbox' = Over(inbox, HeadCmd.arg)
  /\ emptied' = FALSE /\ UNCHANGED <<stop, outbox, raced>>

(* the message goes to the dialplan *)
at_response_cmgr ==
  /\ Got("CMGR") /\ HeadCmd.res = RES_CMGR
  /\ Final([pvt EXCEPT !.incoming_sms = FALSE], RES_CMGR)
  /\ pvt_try_restate(FALSE)
  /\ inbox' = Over(inbox, HeadCmd.arg)
  /\ emptied' = FALSE /\ UNCHANGED <<outbox, raced>>

at_response_sms_prompt ==
  /\ Got("PROMPT") /\ HeadCmd.res = RES_SMS_PROMPT
  /\ Final(pvt, RES_SMS_PROMPT)
  /\ UNCHANGED <<stop, inbox, outbox, raced, emptied>>

(* a text from the network goes to the dialplan; errors are not fatal *)
at_response_cusd ==
  /\ Got("CUSD")
  /\ Handled(pvt)
  /\ UNCHANGED <<stop, answered, inbox, outbox, raced, emptied>>

(* PIN or PUK are not entered here: the device is given up *)
at_response_cpin == Got("CPIN") /\ Disconnect(modem)

(* +CMTI: ignored when disabled or when the device is about to stop *)
at_response_cmti ==
  /\ Got("CMTI")
  /\ LET m == Head(rx).arg
         wanted == ~conf.disablesms /\ pvt_enabled
     IN  /\ Handled(IF wanted THEN [at_enque_retrive_sms(pvt, m) EXCEPT !.incoming_sms = TRUE]
                    ELSE pvt)
         /\ inbox' = [inbox EXCEPT ![m] = IF wanted THEN "wanted" ELSE "over"]
  /\ UNCHANGED <<stop, answered, outbox, raced, emptied>>

(* +CREG: the provider is asked for, and call waiting set on registration *)
at_response_creg ==
  /\ Got("CREG")
  /\ LET d == Head(rx).arg = "registered"
         p == at_enque_cops(pvt)
         q == IF d /\ ~p.gsm_registered THEN at_enque_set_ccwa(p) ELSE p
     IN  Handled([q EXCEPT !.gsm_registered = d])
  /\ UNCHANGED <<stop, answered, inbox, outbox, raced, emptied>>

Monitor == \/ at_response_ok \/ at_response_error \/ at_response_cmgr
           \/ at_response_sms_prompt \/ at_response_cusd \/ at_response_cpin
           \/ at_response_cmti \/ at_response_creg

Next ==
  \/ Connect \/ Lost \/ Terminate \/ Reload
  \/ \E when \in {"gracefully", "convenient"} : RequestStop(when)
  \/ \E o \in Out : send2(o)
  \/ Ping \/ Execute \/ Refuse \/ Erased \/ Locked \/ Register
  \/ \E m \in In : Announce(m)
  \/ Monitor

(* Threads run, and the modem answers *)
Fairness == WF_vars(Monitor) /\ WF_vars(Execute \/ Refuse \/ Erased \/ Locked) /\ WF_vars(Terminate)

Spec == Init /\ [][Next]_vars /\ Fairness

-----------------------------------------------------------------------------
(* Properties *)

(* Every variable has its type; a device that is ready or registered is      *)
(* connected, and an answer is that of the command at the head.              *)
TypeOK ==
  /\ DOMAIN pvt = DOMAIN Disconnected /\ pvt.fmt \in {"text", "pdu"} /\ conf \in Confs
  /\ stop \in {"no", "gracefully", "convenient", "due", "done"}
  /\ {answered, raced, emptied} \subseteq BOOLEAN
  /\ pvt.initialized \/ pvt.gsm_registered => pvt.connected
  /\ answered => HeadSent(pvt.queue)

(* A device that is ready is what the driver believes it to be: the message  *)
(* format, the character set and voice support are the modem's, also when it *)
(* kept or lost its modes over a reconnect, and the registration is once all *)
(* reports of it were handled.  So it is whenever a message is               *)
(* decoded ("last chance to define encodings"), even if it was announced     *)
(* during the initialization; but a device without voice initializes in two  *)
(* parts, and the message may be read between them.  The format is excepted  *)
(* if the settings were replaced between AT+CMGF and its answer.             *)
BeliefsHold ==
  pvt.initialized \/ (Got("CMGR") /\ modem.voice) =>
    /\ pvt.has_sms
    /\ pvt.fmt = modem.fmt \/ raced
    /\ pvt.ucs2 = modem.ucs2
    /\ pvt.has_voice = modem.voice
    /\ (\A i \in DOMAIN rx : rx[i].t # "CREG") => pvt.gsm_registered = modem.reg


(* Everything that was accepted for sending is reported as sent or not sent, *)
(* and a message that is wanted is read or reported as unreadable, unless    *)
(* the device is lost first.                                                 *)
EveryMessageEnds ==
  /\ \A o \in Out : (outbox[o] = "queued") ~> (outbox[o] # "queued")
  /\ \A m \in In : (inbox[m] = "wanted") ~> (inbox[m] # "wanted")

(* A graceful request that waits for a message is carried out in the end:    *)
(* every way a message can end resets incoming_sms and looks at the request  *)
(* (but for an answer to AT+CMGR that brings none).                          *)
GracefulEnds ==
  (stop \in {"gracefully", "convenient"}) ~> (stop \in {"due", "done"} \/ emptied)
=============================================================================
