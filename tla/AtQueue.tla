------------------------------ MODULE AtQueue -------------------------------
(***************************************************************************)
(* The AT command queue of one device at work (at_queue.c), together with  *)
(* the two parties that drive it:                                          *)
(*   - every thread that holds the device lock may insert a task (channel  *)
(*     callbacks, CLI, manager, the monitor's own response handlers);      *)
(*   - the monitor thread (do_monitor_phone) reads the modem's answers,    *)
(*     moves the queue on and writes the next command.                     *)
(* The modem is external: it answers the commands written to it in order.  *)
(*                                                                         *)
(* Each action is what happens while the device lock is held, so actions   *)
(* of different threads interleave exactly at the lock.                    *)
(***************************************************************************)
EXTENDS AtQueueOps, FiniteSets

CONSTANTS
  Cpvt,         \* calls that may exist on the device
  SysChan,      \* pvt->sys_chan, the owner of the device's own tasks
  Scripts,      \* command lists callers may insert
  InitScript,   \* the list of at_enque_initialization
  PingScript,   \* the list of at_enque_ping
  MaxTasks,     \* bound on the tasks inserted in a behaviour
  EarlyUser,    \* may a task be inserted before the monitor thread runs?
  LateAnswers   \* may the modem answer a command after a reconnect?

VARIABLES
  queue,        \* pvt->at_queue
  at_tasks,     \* PVT_STATE(pvt, at_tasks)
  at_cmds,      \* PVT_STATE(pvt, at_cmds)
  wire,         \* commands written, not answered by the modem yet
  rx,           \* answers sent by the modem, not read by the driver yet
  mon,          \* where the monitor thread is
  live,         \* the calls that exist
  serial,       \* how many tasks were inserted (names the tasks)
  wfail         \* a write failed since the device was opened

qvars == <<queue, at_tasks, at_cmds>>
vars  == <<queue, at_tasks, at_cmds, wire, rx, mon, live, serial, wfail>>

Cmd     == [res : {RES_OK, RES_CMGR, RES_SMS_PROMPT}, ignore : BOOLEAN,
            crit : BOOLEAN, sent : BOOLEAN]
Task    == [serial : Nat, cpvt : Cpvt \cup {SysChan}, cindex : Nat, cmds : Seq(Cmd)]
Written == [serial : Nat, index : Nat, res : {RES_OK, RES_CMGR, RES_SMS_PROMPT}]
Answer  == [serial : Nat, index : Nat, res : Results]

(* Monitor: no thread; created, not scheduled yet; in at_wait or waiting   *)
(* for the lock; at_wait timed out, lock not taken yet; answer handled,    *)
(* at_queue_run still to come (the lock is held all the time).             *)
MonStates == {"stopped", "starting", "wait", "expired", "handled"}

(* A command list as a caller builds it: at least one command, none written *)
IsScript(s) == s \in Seq(Cmd) /\ s # << >> /\ \A i \in 1 .. Len(s) : ~s[i].sent

ASSUME QueueAssumption ==
  /\ SysChan \notin Cpvt
  /\ \A s \in Scripts \cup {InitScript, PingScript} : IsScript(s)
  /\ MaxTasks \in Nat
  /\ EarlyUser \in BOOLEAN /\ LateAnswers \in BOOLEAN

Init ==
  /\ queue = << >> /\ at_tasks = 0 /\ at_cmds = 0
  /\ wire = << >> /\ rx = << >>
  /\ mon = "stopped" /\ live = {} /\ serial = 0
  /\ wfail = FALSE

-----------------------------------------------------------------------------
(* Building blocks: each constrains queue', at_tasks', at_cmds', wire'      *)

(* The commands the tasks of q still have to execute *)
SumOfCmds(q) ==
  LET sum[i \in 0 .. Len(q)] ==
        IF i = 0 THEN 0 ELSE sum[i - 1] + Len(q[i].cmds) - q[i].cindex
  IN  sum[Len(q)]

NewTask(owner, script) ==
  [serial |-> serial + 1, cpvt |-> owner, cindex |-> 0, cmds |-> script]

(* Mutant: a command answered by an error is tried again *)
RemoveCmd_Retries(q, nt, nc, res) ==
  IF res = RES_ERROR
  THEN /\ queue' = <<[Head(q) EXCEPT !.cmds[Head(q).cindex + 1].sent = FALSE]>> \o Tail(q)
       /\ at_tasks' = nt /\ at_cmds' = nc
  ELSE /\ queue' = at_queue_remove_cmd(q, res)
       /\ at_tasks' = nt - (Len(q) - Len(at_queue_remove_cmd(q, res)))
       /\ at_cmds' = nc - CmdsRemoved(q, res)

(* at_queue_remove_cmd on the queue q with counters nt, nc *)
RemoveCmd(q, nt, nc, res) ==
  /\ queue' = at_queue_remove_cmd(q, res)
  /\ at_tasks' = nt - (Len(q) - Len(at_queue_remove_cmd(q, res)))
  /\ at_cmds' = nc - CmdsRemoved(q, res)

HeadDialog(q) ==
  [serial |-> Head(q).serial, index |-> Head(q).cindex,
   res |-> at_queue_task_cmd(Head(q)).res]

(* at_queue_run when there is nothing to write *)
RunIdle(q, nt, nc) ==
  /\ ~HeadUnsent(q)
  /\ queue' = q /\ at_tasks' = nt /\ at_cmds' = nc
  /\ UNCHANGED wire

(* at_queue_run, at_write succeeds *)
RunWrites(q, nt, nc) ==
  /\ HeadUnsent(q)
  /\ queue' = MarkSent(q) /\ at_tasks' = nt /\ at_cmds' = nc
  /\ wire' = Append(wire, HeadDialog(q))

(* at_queue_run, at_write fails: the command is cancelled *)
RunFails(q, nt, nc) ==
  /\ HeadUnsent(q)
  /\ RemoveCmd(q, nt, nc, RES_MISMATCH)
  /\ UNCHANGED wire

RunSucceeds(q, nt, nc) == RunIdle(q, nt, nc) \/ RunWrites(q, nt, nc)

(* at_queue_add followed by an at_queue_run that does not fail ... *)
AddAndRun(owner, script, prio) ==
  /\ serial < MaxTasks
  /\ serial' = serial + 1
  /\ RunSucceeds(at_queue_add(queue, NewTask(owner, script), prio),
                 at_tasks + 1, at_cmds + Len(script))
  /\ UNCHANGED wfail

(* ... or by one that fails: the caller is told the insertion failed *)
AddAndFail(owner, script, prio) ==
  /\ serial < MaxTasks
  /\ serial' = serial + 1
  /\ RunFails(at_queue_add(queue, NewTask(owner, script), prio),
              at_tasks + 1, at_cmds + Len(script))
  /\ wfail' = TRUE

-----------------------------------------------------------------------------
(* Any thread holding the lock of a connected device *)

MayInsert == \/ mon \in {"wait", "expired", "handled"}
             \/ mon = "starting" /\ EarlyUser

(* at_queue_insert, at_queue_insert_const, at_queue_insert_task *)
Insert(owner, script, prio) ==
  /\ MayInsert
  /\ owner \in live \cup {SysChan}
  /\ AddAndRun(owner, script, prio) \/ AddAndFail(owner, script, prio)
  /\ UNCHANGED <<rx, mon, live>>

(* at_queue_insert_task when at_queue_add could not allocate the task: the  *)
(* queue is run all the same                                                *)
InsertNoMemory ==
  /\ MayInsert
  /\ \/ RunSucceeds(queue, at_tasks, at_cmds) /\ UNCHANGED wfail
     \/ RunFails(queue, at_tasks, at_cmds) /\ wfail' = TRUE
  /\ UNCHANGED <<rx, mon, live, serial>>

(* cpvt_alloc *)
CpvtAlloc(c) ==
  /\ MayInsert
  /\ c \notin live
  /\ live' = live \cup {c}
  /\ UNCHANGED <<queue, at_tasks, at_cmds, wire, rx, mon, serial, wfail>>

(* cpvt_free *)
CpvtFree(c) ==
  /\ MayInsert
  /\ c \in live
  /\ live' = live \ {c}
  /\ queue' = Relink(queue, {c}, SysChan)
  /\ UNCHANGED <<at_tasks, at_cmds, wire, rx, mon, serial, wfail>>

-----------------------------------------------------------------------------
(* The modem (external): answers what was written, first come first served *)

MayAnswer(res) ==
  CASE res = RES_OK         -> {RES_OK, RES_ERROR}
    [] res = RES_CMGR       -> {RES_CMGR, RES_OK, RES_ERROR}
    [] res = RES_SMS_PROMPT -> {RES_SMS_PROMPT, RES_ERROR}

ModemAnswers ==
  /\ wire # << >>
  /\ \E r \in MayAnswer(Head(wire).res) :
       rx' = IF mon = "stopped" THEN rx
             ELSE Append(rx, [Head(wire) EXCEPT !.res = r])
  /\ wire' = Tail(wire)
  /\ UNCHANGED <<queue, at_tasks, at_cmds, mon, live, serial, wfail>>

-----------------------------------------------------------------------------
(* The monitor thread *)

(* at_hangup_immediality: AT+CHUP written past the queue, once per call *)
HangupDialogs ==
  [i \in 1 .. Cardinality(live) |-> [serial |-> 0, index |-> 0, res |-> RES_OK]]

(* disconnect_datacard: hang up and free every call, at_queue_flush, close *)
Disconnect ==
  /\ live' = {}
  /\ queue' = << >>
  /\ at_tasks' = at_tasks - Len(queue)
  /\ at_cmds' = at_cmds - SumOfCmds(queue)
  /\ rx' = << >>
  /\ wire' = IF LateAnswers THEN wire \o HangupDialogs ELSE << >>
  /\ mon' = "stopped"
  /\ UNCHANGED <<serial, wfail>>

(* pvt_start: the device is opened, connected = 1, the thread is created *)
PvtStart ==
  /\ mon = "stopped"
  /\ mon' = "starting"
  /\ wfail' = FALSE
  /\ UNCHANGED <<queue, at_tasks, at_cmds, wire, rx, live, serial>>

(* do_monitor_phone up to the loop: clean_read_data drops every answer that *)
(* has arrived, then at_enque_initialization                                *)
MonitorBegins ==
  /\ mon = "starting"
  /\ rx' = << >>
  /\ AddAndRun(SysChan, InitScript, FALSE)
  /\ mon' = "wait"
  /\ UNCHANGED live

(* Mutant: OK is no answer to a command that expects +CMGR *)
Takes_StrictOk(cmd, res) == IF res = RES_ERROR THEN TRUE ELSE cmd.res = res

(* at_response_ok, _error, _cmgr, _sms_prompt: is the result code taken as  *)
(* the answer to the command at the head?                                   *)
Takes(cmd, res) ==
  CASE res = RES_OK         -> cmd.res \in {RES_OK, RES_CMGR}
    [] res = RES_ERROR      -> TRUE
    [] res = RES_CMGR       -> cmd.res = RES_CMGR
    [] res = RES_SMS_PROMPT -> cmd.res = RES_SMS_PROMPT

(* at_response for a final result code: at_queue_handle_result, or ignored *)
ResultTaken == queue # << >> /\ Takes(at_queue_task_cmd(Head(queue)), Head(rx).res)

(* an error that means "disconnected from device" ends the monitor *)
ResultFatal == /\ ResultTaken
               /\ Head(rx).res = RES_ERROR
               /\ at_queue_task_cmd(Head(queue)).crit

ReadResult ==
  /\ mon = "wait"
  /\ rx # << >>
  /\ ~ResultFatal
  /\ rx' = Tail(rx)
  /\ IF ResultTaken
     THEN RemoveCmd(queue, at_tasks, at_cmds, Head(rx).res)
     ELSE UNCHANGED qvars
  /\ mon' = "handled"
  /\ UNCHANGED <<wire, live, serial, wfail>>

ReadFatal ==
  /\ mon = "wait"
  /\ rx # << >>
  /\ ResultFatal
  /\ Disconnect

(* Mutant: an unsolicited code is taken for an answer *)
ReadUrc_TakesHead ==
  /\ mon = "wait"
  /\ mon' = "handled"
  /\ RemoveCmd(queue, at_tasks, at_cmds, RES_OK)
  /\ UNCHANGED <<wire, rx, live, serial, wfail>>

(* at_response for an unsolicited code that leaves the queue alone *)
ReadUrc ==
  /\ mon = "wait"
  /\ mon' = "handled"
  /\ UNCHANGED <<queue, at_tasks, at_cmds, wire, rx, live, serial, wfail>>

(* Mutant: at_queue_run is forgotten *)
QueueRun_Forgotten ==
  /\ mon = "handled"
  /\ mon' = "wait"
  /\ UNCHANGED <<queue, at_tasks, at_cmds, wire, rx, live, serial, wfail>>

(* the at_queue_run that follows every at_response *)
QueueRun ==
  /\ mon = "handled"
  /\ RunSucceeds(queue, at_tasks, at_cmds)
  /\ mon' = "wait"
  /\ UNCHANGED <<rx, live, serial, wfail>>

(* at_wait returns 0 because nothing came in time ... *)
AtWaitExpires ==
  /\ mon = "wait"
  /\ rx = << >>
  /\ mon' = "expired"
  /\ UNCHANGED <<queue, at_tasks, at_cmds, wire, rx, live, serial, wfail>>

(* Mutant: a queued command is no reason to give the device up *)
Ping_NeverGivesUp ==
  /\ mon = "expired"
  /\ \/ /\ queue = << >>
        /\ AddAndRun(SysChan, PingScript, TRUE) \/ AddAndFail(SysChan, PingScript, TRUE)
     \/ /\ queue # << >>
        /\ UNCHANGED <<queue, at_tasks, at_cmds, wire, serial, wfail>>
  /\ mon' = "wait"
  /\ UNCHANGED <<rx, live>>

(* ... and once the lock is taken an idle device is pinged *)
Ping ==
  /\ mon = "expired"
  /\ queue = << >>
  /\ AddAndRun(SysChan, PingScript, TRUE) \/ AddAndFail(SysChan, PingScript, TRUE)
  /\ mon' = "wait"
  /\ UNCHANGED <<rx, live>>

(* The other jumps to e_cleanup and e_restart: initialization not queued;   *)
(* port gone, told to stop, read or handler of an unsolicited code failed;   *)
(* at_queue_run failed; a command is queued when at_wait has timed out       *)
MonitorEnds ==
  /\ \/ mon \in {"starting", "wait"}
     \/ mon = "handled" /\ HeadUnsent(queue)
     \/ mon = "expired" /\ queue # << >>
  /\ Disconnect

Next ==
  \/ \E o \in Cpvt \cup {SysChan}, s \in Scripts, p \in BOOLEAN : Insert(o, s, p)
  \/ InsertNoMemory
  \/ \E c \in Cpvt : CpvtAlloc(c) \/ CpvtFree(c)
  \/ ModemAnswers
  \/ PvtStart \/ MonitorBegins \/ ReadResult \/ ReadFatal \/ ReadUrc \/ QueueRun
  \/ AtWaitExpires \/ Ping \/ MonitorEnds

Spec == Init /\ [][Next]_vars

(* The threads and the modem keep running: the monitor's loop always comes   *)
(* back, at_wait has a finite timeout, the modem answers what it was sent.   *)
(* Reading is strongly fair because an answer is ahead, in the byte stream,  *)
(* of every unsolicited code that the modem sends after it.                  *)
Fairness ==
  /\ WF_vars(ModemAnswers)
  /\ SF_vars(ReadResult \/ ReadFatal)
  /\ WF_vars(QueueRun)
  /\ WF_vars(AtWaitExpires)
  /\ WF_vars(mon \in {"handled", "expired"} /\ MonitorEnds)
  /\ WF_vars(MonitorBegins)

FairSpec == Spec /\ Fairness

-----------------------------------------------------------------------------
(* Properties *)

(* Every variable has its type; at_cmds is not used by any step. *)
TypeOK ==
  /\ queue \in Seq(Task)
  /\ \A i \in 1 .. Len(queue) : queue[i].cindex < Len(queue[i].cmds)
  /\ at_tasks \in Int
  /\ wire \in Seq(Written) /\ rx \in Seq(Answer)
  /\ mon \in MonStates
  /\ live \in SUBSET Cpvt
  /\ serial \in Nat
  /\ wfail \in BOOLEAN

(* Only the command at the head may be on the device: tasks behind the head  *)
(* are untouched and so are the later commands of the head task.             *)
SentOnlyAtHead ==
  \A i \in 1 .. Len(queue) : \A j \in 1 .. Len(queue[i].cmds) :
    queue[i].cmds[j].sent => i = 1 /\ j <= queue[i].cindex + 1

Dialogs == wire \o rx

(* At most one command is outstanding, and it is the one at the head of the  *)
(* queue: the result code the monitor reads next belongs to the command      *)
(* at_response will take it for.                                             *)
ResultOwned ==
  Dialogs # << >> =>
    /\ Len(Dialogs) = 1
    /\ HeadSent(queue)
    /\ Dialogs[1].serial = Head(queue).serial
    /\ Dialogs[1].index = Head(queue).cindex

(* A command that was written still has its answer to come: nobody consumed  *)
(* or dropped it, so the monitor's time-out is never the driver's own fault. *)
AnswerPending == HeadSent(queue) => Dialogs # << >>

(* Unless a write failed, a queued command never waits for somebody else to  *)
(* write it when the lock is free.                                           *)
NoStall == mon \in {"starting", "wait", "expired"} /\ ~wfail => ~HeadUnsent(queue)

(* No task points to a call that was freed. *)
CpvtAlive == \A i \in 1 .. Len(queue) : queue[i].cpvt \in live \cup {SysChan}

Serials(q) == {q[i].serial : i \in 1 .. Len(q)}

(* The queue implements the serial executor AtSerial: the task at the head   *)
(* is the one in execution as soon as one of its commands was tried.         *)
Begun == queue # << >> /\ (Head(queue).cindex > 0 \/ HeadSent(queue))
CurrentTask == IF Begun THEN Head(queue).serial ELSE 0
CurrentStep ==
  IF Begun THEN Head(queue).cindex + (IF HeadSent(queue) THEN 1 ELSE 0) ELSE 0

Serial == INSTANCE AtSerial WITH
  Tasks   <- 1 .. MaxTasks,
  waiting <- Serials(queue) \ {CurrentTask},
  current <- CurrentTask,
  step    <- CurrentStep

(* Every command the callers queue is executed as AtSerial allows.           *)
ImplementsSerial == Serial!Spec

(* Every task leaves the queue: executed, aborted, cancelled or flushed. *)
EveryTaskLeaves ==
  \A s \in 1 .. MaxTasks : s \in Serials(queue) ~> s \notin Serials(queue)
=============================================================================
