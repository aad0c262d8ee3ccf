------------------------------ MODULE AtSerial ------------------------------
(***************************************************************************)
(* What the AT command queue promises to its callers: a device executes    *)
(* one task at a time.  A task that has begun runs its commands in order   *)
(* and nobody else's command comes between them; it ends by finishing or   *)
(* by being abandoned; which waiting task begins next is left open.        *)
(***************************************************************************)
EXTENDS Integers

CONSTANT Tasks        \* names of tasks, 0 is none of them

VARIABLES waiting,    \* tasks accepted, none of whose commands was tried
          current,    \* the task in execution, 0 if there is none
          step        \* how many commands of it were tried

svars == <<waiting, current, step>>

Init == waiting = {} /\ current = 0 /\ step = 0

(* Nothing starts: the accepted task waits its turn *)
Wait(w) == waiting' = w /\ UNCHANGED <<current, step>>

(* An idle device begins a task *)
Begin(w) ==
  /\ current = 0
  /\ \E t \in w : current' = t /\ waiting' = w \ {t}
  /\ step' = 1

(* The task in execution tries its next command *)
Continue(w) ==
  /\ current # 0
  /\ step' = step + 1
  /\ waiting' = w
  /\ UNCHANGED current

(* The task in execution is finished or abandoned *)
Finish(w) ==
  /\ current # 0
  /\ current' = 0 /\ step' = 0
  /\ waiting' = w

(* The first command of a waiting task cannot be written: it is abandoned *)
Drop(w) ==
  /\ current = 0
  /\ \E t \in w : waiting' = w \ {t}
  /\ UNCHANGED <<current, step>>

Progress(w) == Wait(w) \/ Begin(w) \/ Continue(w) \/ Finish(w) \/ Drop(w)

(* A new task is accepted and, in the same step, the device moves on *)
Accept == \E t \in Tasks \ (waiting \cup {current}) : Progress(waiting \cup {t})

(* The device is disconnected: everything is forgotten *)
Reset == waiting' = {} /\ current' = 0 /\ step' = 0

Next == Accept \/ Progress(waiting) \/ Reset

Spec == Init /\ [][Next]_svars
=============================================================================
