--------------------------- MODULE MonitorTimeout ---------------------------
(***************************************************************************)
(* Time in the monitor loop (do_monitor_phone): how long it sleeps in      *)
(* at_wait and when it declares a command timed out.                       *)
(*                                                                         *)
(* The queue is reduced to its head command and the age of that command:   *)
(* the time since it was written (the code keeps the expiry instant, so    *)
(* at_queue_timeout is CmdTimeout - age and negative once it has expired). *)
(* Time advances in ticks.  A thread that is ready to run is delayed, by   *)
(* the scheduler or by the lock, for at most MaxLag ticks.                 *)
(***************************************************************************)
EXTENDS Integers

CONSTANTS
  CmdTimeout,   \* cmd->timeout, ATQ_CMD_TIMEOUT_2S for most commands
  IdleTimeout,  \* pvt->timeout, DATA_READ_TIMEOUT
  MaxLag,       \* longest delay of a runnable thread
  MaxUrcs       \* bound on the unsolicited codes between two commands

VARIABLES
  head,    \* "none", "sent", or "unsent" (left over by a failed write)
  age,     \* ticks since the head command was written, up to MaxAge
  phase,   \* where the monitor is
  left,    \* ticks left in at_wait
  ans,     \* the answer to the head command can be read
  urc,     \* an unsolicited code can be read
  lag,     \* ticks the runnable monitor has been delayed
  late,    \* the head command was written after at_wait was given its time
  urcs     \* unsolicited codes since the head command was written

clockVars == <<head, age, phase, left, ans, urc, lag, late, urcs>>

ASSUME TimeoutAssumption ==
  /\ CmdTimeout \in Nat \ {0} /\ IdleTimeout \in Nat \ {0} /\ MaxLag \in Nat /\ MaxUrcs \in Nat
  /\ CmdTimeout <= IdleTimeout

(* The longest a command can stay unanswered: it is written at the start of  *)
(* an idle sleep, and every line that comes in (n of them) may start another *)
(* idle sleep once the command has expired.  Ages beyond are not told apart. *)
WorstAge(n) == (n + 1) * (IdleTimeout + 2 * MaxLag)
MaxAge == WorstAge(MaxUrcs) + 1

(* "loop": about to take the lock at the top of the loop; "wait": in at_wait;*)
(* "expired": at_wait returned 0; "handle": data is readable; "dead": the    *)
(* loop was left: the head command timed out or the device was lost.         *)
ClockInit ==
  /\ head = "sent" /\ age = 0
  /\ phase = "loop" /\ left = 0
  /\ ans = FALSE /\ urc = FALSE /\ lag = 0
  /\ late = FALSE /\ urcs = 0

(* a command is written: its time starts *)
Restart(n) == age' = 0 /\ urcs' = n
PendingUrcs == IF urc THEN 1 ELSE 0

(* at_queue_timeout *)
at_queue_timeout == IF head = "sent" THEN CmdTimeout - age ELSE -1

(* Mutant: one tick short *)
LoopTop_Short ==
  /\ phase = "loop"
  /\ left' = IF at_queue_timeout <= 0 THEN IdleTimeout ELSE at_queue_timeout - 1
  /\ phase' = "wait" /\ lag' = 0 /\ late' = FALSE
  /\ UNCHANGED <<head, age, ans, urc, urcs>>

(* The top of the loop: how long to wait *)
LoopTop ==
  /\ phase = "loop"
  /\ left' = IF at_queue_timeout < 0 THEN IdleTimeout ELSE at_queue_timeout
  /\ phase' = "wait" /\ lag' = 0 /\ late' = FALSE
  /\ UNCHANGED <<head, age, ans, urc, urcs>>

(* at_wait finds something to read *)
WaitReady ==
  /\ phase = "wait"
  /\ ans \/ urc
  /\ phase' = "handle" /\ lag' = 0
  /\ UNCHANGED <<head, age, left, ans, urc, late, urcs>>

(* Mutant: at_wait is started again while a command is queued *)
WaitExpires_Again ==
  /\ phase = "wait" /\ left = 0
  /\ ~ans /\ ~urc
  /\ phase' = (IF head = "none" THEN "expired" ELSE "loop") /\ lag' = 0
  /\ UNCHANGED <<head, age, left, ans, urc, late, urcs>>

WaitExpires ==
  /\ phase = "wait" /\ left = 0
  /\ ~ans /\ ~urc
  /\ phase' = "expired" /\ lag' = 0
  /\ UNCHANGED <<head, age, left, ans, urc, late, urcs>>

(* "timedout while waiting": any command at the head is held responsible *)
DeclareTimeout ==
  /\ phase = "expired"
  /\ head # "none"
  /\ phase' = "dead" /\ lag' = 0
  /\ UNCHANGED <<head, age, left, ans, urc, late, urcs>>

(* at_enque_ping on an idle device; a failed write removes the command *)
Ping ==
  /\ phase = "expired"
  /\ head = "none"
  /\ head' \in {"sent", "none"}
  /\ Restart(PendingUrcs)
  /\ phase' = "loop" /\ lag' = 0
  /\ UNCHANGED <<left, ans, urc, late>>

(* The inner loop goes on while at_read_result_iov finds another line *)
Handled(more) == phase' = (IF more THEN "handle" ELSE "loop") /\ lag' = 0

(* at_response takes the answer, at_queue_run writes the next command if any *)
HandleAnswer ==
  /\ phase = "handle" /\ ans
  /\ ans' = FALSE
  /\ head' \in {"none", "sent"} /\ Restart(PendingUrcs)
  /\ Handled(urc)
  /\ UNCHANGED <<left, urc, late>>

(* at_response handles an unsolicited code, at_queue_run writes a leftover *)
HandleUrc ==
  /\ phase = "handle" /\ urc
  /\ urc' = FALSE
  /\ head' = IF head = "unsent" THEN "sent" ELSE head
  /\ Handled(ans)
  /\ UNCHANGED <<age, left, ans, late, urcs>>

(* The other ways out of the loop: the port is gone or the monitor is told to *)
(* stop (loop top), a read, a handler or at_queue_run failed (handling)       *)
LostDevice ==
  /\ phase \in {"loop", "handle"}
  /\ head' = "none" /\ Restart(PendingUrcs)
  /\ phase' = "dead" /\ lag' = 0
  /\ UNCHANGED <<left, ans, urc, late>>

(* Another thread inserts a task while the monitor does not hold the lock: *)
(* written at once if the queue was empty                                  *)
ForeignInsert ==
  /\ phase # "dead"
  /\ head = "none"
  /\ head' \in {"sent", "unsent"}
  /\ Restart(PendingUrcs)
  /\ late' = (phase \in {"wait", "expired"})
  /\ UNCHANGED <<phase, left, ans, urc, lag>>

(* The modem (external) *)
ModemAnswers ==
  /\ head = "sent" /\ ~ans /\ phase # "dead"
  /\ ans' = TRUE
  /\ UNCHANGED <<head, age, phase, left, urc, lag, late, urcs>>

ModemUrc ==
  /\ urcs < MaxUrcs /\ ~urc /\ phase # "dead"
  /\ urc' = TRUE /\ urcs' = urcs + 1
  /\ UNCHANGED <<head, age, phase, left, ans, lag, late>>

(* One tick passes.  at_wait returns at once when it can. *)
Tick ==
  /\ \/ /\ phase = "wait" /\ left > 0 /\ ~ans /\ ~urc
        /\ left' = left - 1 /\ UNCHANGED lag
     \/ /\ phase \in {"loop", "handle", "expired"} /\ lag < MaxLag
        /\ lag' = lag + 1 /\ UNCHANGED left
  /\ age' = IF head = "sent" /\ age < MaxAge THEN age + 1 ELSE age
  /\ UNCHANGED <<head, phase, ans, urc, late, urcs>>

(* disconnect_datacard and, later, a new monitor with its first command *)
Reconnect ==
  /\ phase = "dead"
  /\ head' = "sent" /\ Restart(0)
  /\ phase' = "loop" /\ left' = 0
  /\ ans' = FALSE /\ urc' = FALSE /\ lag' = 0 /\ late' = FALSE

Monitor == \/ LoopTop \/ WaitReady \/ WaitExpires \/ DeclareTimeout \/ Ping
           \/ HandleAnswer \/ HandleUrc

ClockNext == Monitor \/ LostDevice \/ ForeignInsert \/ ModemAnswers \/ ModemUrc \/ Tick \/ Reconnect

ClockSpec == ClockInit /\ [][ClockNext]_clockVars

(* The monitor thread is scheduled and time passes; nothing is asked of the *)
(* modem: it may fall silent.                                               *)
FairClockSpec == ClockSpec /\ WF_clockVars(Monitor) /\ WF_clockVars(Tick)

-----------------------------------------------------------------------------
(* Every variable has its type. *)
ClockTypeOK ==
  /\ head \in {"none", "sent", "unsent"} /\ age \in 0 .. MaxAge
  /\ phase \in {"loop", "wait", "expired", "handle", "dead"}
  /\ left \in 0 .. IdleTimeout /\ lag \in 0 .. MaxLag
  /\ ans \in BOOLEAN /\ urc \in BOOLEAN /\ late \in BOOLEAN /\ urcs \in 0 .. MaxUrcs

(* A command is declared timed out only when its own timeout, "started at   *)
(* time when command actually written on device", has run out; the only     *)
(* exception is a command another thread wrote after the monitor had chosen *)
(* how long to sleep.  And it is declared in time: no written command stays *)
(* unanswered longer than one sleep of at_wait plus one for every line that *)
(* came in.                                                                 *)
TimeoutInTime ==
  head = "sent" => /\ phase = "dead" => age >= CmdTimeout \/ late
                   /\ age <= WorstAge(urcs)

(* A written command does not wait for ever: it is answered or the device   *)
(* is declared dead, although lines that answer nothing come in.            *)
SilenceDetected == (head = "sent" /\ ~ans) ~> (ans \/ phase = "dead")
=============================================================================
