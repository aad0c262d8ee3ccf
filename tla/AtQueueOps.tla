----------------------------- MODULE AtQueueOps -----------------------------
(***************************************************************************)
(* The AT command queue of one device as a value: a sequence of tasks.     *)
(*                                                                         *)
(* A task (struct at_queue_task) is a list of AT commands that belong      *)
(* together, the index cindex of the command being executed, and the call  *)
(* (struct cpvt) on whose behalf it runs.  A command (struct at_queue_cmd) *)
(* carries the result code it waits for, the flag ATQ_CMD_FLAG_IGNORE ("go *)
(* on with the task whatever the answer was") and whether its text was     *)
(* already written to the device: the C code sets length to 0 for that.    *)
(*                                                                         *)
(* cindex counts from 0 as in C; TLA+ sequences count from 1.              *)
(***************************************************************************)
EXTENDS Integers, Sequences

(* Final result codes a command may wait for, and the failure code.  Every *)
(* failure code (ERROR, +CMS ERROR, ...) is handled by the same function.  *)
RES_OK         == "OK"
RES_CMGR       == "CMGR"
RES_SMS_PROMPT == "PROMPT"
RES_ERROR      == "ERROR"
(* The value "cmd->res + 1" of a cancelled write: it never equals cmd->res *)
RES_MISMATCH   == "MISMATCH"

Results == {RES_OK, RES_CMGR, RES_SMS_PROMPT, RES_ERROR}

(* at_queue_head_cmd: the command the first task is at *)
at_queue_task_cmd(task) == task.cmds[task.cindex + 1]

(* Mutant: priority is a plain insertion at the head *)
at_queue_add_AtHead(q, e, prio) == IF prio THEN <<e>> \o q ELSE Append(q, e)

(* at_queue_add: with priority the task goes behind the running one *)
at_queue_add(q, e, prio) ==
  IF prio /\ q # << >> THEN <<Head(q)>> \o (<<e>> \o Tail(q)) ELSE Append(q, e)

(* Mutant: off by one, a task outlives its last command *)
TaskEnds_OffByOne(task, res) ==
  LET cmd == at_queue_task_cmd(task)
  IN  \/ task.cindex + 1 > Len(task.cmds)
      \/ cmd.res # res /\ ~cmd.ignore

(* Does the answer res to the head command end the whole task? *)
TaskEnds(task, res) ==
  LET cmd == at_queue_task_cmd(task)
  IN  \/ task.cindex + 1 >= Len(task.cmds)
      \/ cmd.res # res /\ ~cmd.ignore

(* at_queue_remove_cmd: move the head task on, or drop it *)
at_queue_remove_cmd(q, res) ==
  IF q = << >> THEN q
  ELSE IF TaskEnds(Head(q), res)
       THEN Tail(q)
       ELSE <<[Head(q) EXCEPT !.cindex = @ + 1]>> \o Tail(q)

(* How many commands at_queue_remove_cmd subtracts from the counter at_cmds *)
CmdsRemoved(q, res) ==
  IF q = << >> THEN 0
  ELSE IF TaskEnds(Head(q), res) THEN Len(Head(q).cmds) - Head(q).cindex ELSE 1

(* A command waits to be written at the head of the queue *)
HeadUnsent(q) == q # << >> /\ ~at_queue_task_cmd(Head(q)).sent

(* The head command is written and its answer outstanding *)
HeadSent(q) == q # << >> /\ at_queue_task_cmd(Head(q)).sent

(* at_queue_run after a successful write: at_queue_free_data zeroes length *)
MarkSent(q) ==
  <<[Head(q) EXCEPT !.cmds[Head(q).cindex + 1].sent = TRUE]>> \o Tail(q)

(* Mutant: the tasks of a call that dies keep their owner *)
Relink_Keeps(q, dead, sys) == q

(* cpvt_free: tasks of a call that dies are handed to the device's sys_chan *)
Relink(q, dead, sys) ==
  [i \in 1 .. Len(q) |->
     IF q[i].cpvt \in dead THEN [q[i] EXCEPT !.cpvt = sys] ELSE q[i]]
=============================================================================
