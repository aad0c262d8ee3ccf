--------------------------- MODULE AtQueueProofs ----------------------------
(***************************************************************************)
(* Proofs about AtQueue, for every set of calls, every set of command      *)
(* lists and every bound.                                                  *)
(*                                                                         *)
(* The key is the shape of the queue: behind the head only tasks of which  *)
(* nothing was written, and at the head a task of which nothing beyond the *)
(* current command was written.  The shape is relative to the set A of     *)
(* calls that tasks may belong to.                                         *)
(***************************************************************************)
EXTENDS AtQueue, TLAPS, SequenceTheorems, FiniteSetTheorems

TaskOf(A) == {t \in Task : t.cpvt \in A}
(* Tasks of which nothing was written yet *)
FreshTask(A) == {t \in TaskOf(A) : /\ t.cmds # << >> /\ t.cindex = 0
                                   /\ \A j \in 1 .. Len(t.cmds) : ~t.cmds[j].sent}
(* Tasks that may be at the head *)
HeadTask(A) == {t \in TaskOf(A) :
                  /\ t.cindex < Len(t.cmds)
                  /\ \A j \in 1 .. Len(t.cmds) : t.cmds[j].sent => j <= t.cindex + 1}

Shape(q, A) == /\ q \in Seq(TaskOf(A))
               /\ q # << >> => Head(q) \in HeadTask(A) /\ Tail(q) \in Seq(FreshTask(A))

-----------------------------------------------------------------------------
(* The operators of AtQueueOps preserve the shape *)

(* A fresh task may become the head. *)
LEMMA FreshIsHead == \A A : FreshTask(A) \subseteq HeadTask(A)
  BY DEF FreshTask, HeadTask, TaskOf, Task

(* A head in front of fresh tasks is a queue of the right shape. *)
LEMMA ConsShape ==
  ASSUME NEW A, NEW t \in HeadTask(A), NEW s \in Seq(FreshTask(A))
  PROVE  /\ Shape(<<t>> \o s, A)
         /\ <<t>> \o s # << >>
         /\ Head(<<t>> \o s) = t
         /\ Tail(<<t>> \o s) = s
         /\ Len(<<t>> \o s) = Len(s) + 1
<1> DEFINE q == <<t>> \o s
<1>1. <<t>> \in Seq(TaskOf(A)) /\ Len(<<t>>) = 1 /\ <<t>>[1] = t
  BY DEF HeadTask
<1>2. s \in Seq(TaskOf(A))
  BY SeqMonotonic, FreshTask(A) \subseteq TaskOf(A) DEF FreshTask
<1>3. /\ q \in Seq(TaskOf(A)) /\ Len(q) = Len(s) + 1
      /\ \A i \in 1 .. Len(s) + 1 : q[i] = IF i <= 1 THEN t ELSE s[i - 1]
  BY <1>1, <1>2, ConcatProperties, LenProperties
<1>4. q # << >> /\ Head(q) = t
  BY <1>3, LenProperties
<1>5. Tail(q) = s
  <2>1. /\ Tail(q) \in Seq(TaskOf(A)) /\ Len(Tail(q)) = Len(s)
        /\ \A i \in 1 .. Len(Tail(q)) : Tail(q)[i] = q[i + 1]
    BY <1>3, <1>4, HeadTailProperties, LenProperties
  <2>2. \A i \in 1 .. Len(s) : Tail(q)[i] = s[i]
    BY <2>1, <1>3, LenProperties
  <2> QED BY <2>1, <2>2, <1>2, SeqEqual
<1> QED BY <1>3, <1>4, <1>5 DEF Shape

(* Fresh tasks are a queue of the right shape, with nothing written. *)
LEMMA FreshShape ==
  ASSUME NEW A, NEW s \in Seq(FreshTask(A))
  PROVE  Shape(s, A) /\ ~HeadSent(s)
<1>1. s \in Seq(TaskOf(A))
  BY SeqMonotonic, FreshTask(A) \subseteq TaskOf(A) DEF FreshTask
<1>2. s # << >> => Head(s) \in FreshTask(A) /\ Tail(s) \in Seq(FreshTask(A))
  BY HeadTailProperties
<1>3. ASSUME NEW t \in FreshTask(A)
      PROVE  ~at_queue_task_cmd(t).sent
  <2>1. Len(t.cmds) \in Nat \ {0} /\ t.cindex = 0 /\ \A j \in 1 .. Len(t.cmds) : ~t.cmds[j].sent
    BY EmptySeq DEF FreshTask, TaskOf, Task
  <2> QED BY <2>1 DEF at_queue_task_cmd
<1> QED BY <1>1, <1>2, <1>3, FreshIsHead DEF Shape, HeadSent

(* at_queue_add never touches the head of a queue that has one. *)
LEMMA AddShape ==
  ASSUME NEW A, NEW q, Shape(q, A), NEW e \in FreshTask(A), NEW prio \in BOOLEAN
  PROVE  LET r == at_queue_add(q, e, prio)
         IN  /\ Shape(r, A) /\ r # << >>
             /\ Head(r) = IF q = << >> THEN e ELSE Head(q)
             /\ Len(r) = Len(q) + 1
<1> DEFINE r == at_queue_add(q, e, prio)
<1>0. q \in Seq(TaskOf(A)) /\ Len(q) \in Nat /\ e \in TaskOf(A)
  BY LenProperties DEF Shape, FreshTask
<1>1. CASE q = << >>
  <2>1. r = <<e>> \o << >>
    BY <1>1, <1>0, AppendIsConcat, ConcatEmptySeq DEF at_queue_add
  <2>2. << >> \in Seq(FreshTask(A)) /\ Len(<< >>) = 0 /\ e \in HeadTask(A)
    BY EmptySeq, FreshIsHead
  <2> QED BY <1>1, <2>1, <2>2, ConsShape, ZenonT(60)
<1>2. CASE q # << >> /\ prio
  <2>1. Head(q) \in HeadTask(A) /\ Tail(q) \in Seq(FreshTask(A)) /\ Len(Tail(q)) = Len(q) - 1
    BY <1>2, <1>0, HeadTailProperties DEF Shape
  <2>2. <<e>> \in Seq(FreshTask(A)) /\ Len(<<e>>) = 1
    OBVIOUS
  <2>3. /\ <<e>> \o Tail(q) \in Seq(FreshTask(A))
        /\ Len(<<e>> \o Tail(q)) = Len(q)
    BY <2>1, <2>2, <1>0, ConcatProperties
  <2>4. r = <<Head(q)>> \o (<<e>> \o Tail(q))
    BY <1>2 DEF at_queue_add
  <2> HIDE DEF r
  <2> QED BY <1>2, <2>1, <2>3, <2>4, ConsShape, ZenonT(60) DEF r
<1>3. CASE q # << >> /\ ~prio
  <2>1. Head(q) \in HeadTask(A) /\ Tail(q) \in Seq(FreshTask(A))
    BY <1>3 DEF Shape
  <2>2. r = Append(q, e)
    BY <1>3 DEF at_queue_add
  <2>3. r \in Seq(TaskOf(A)) /\ r # << >> /\ Len(r) = Len(q) + 1
    BY <1>0, <2>2, AppendProperties
  <2>4. Head(r) = Head(q) /\ Tail(r) = Append(Tail(q), e)
    BY <1>0, <1>3, <2>2, HeadTailAppend
  <2> HIDE DEF r
  <2>5. Append(Tail(q), e) \in Seq(FreshTask(A))
    BY <2>1, AppendProperties
  <2> QED BY <1>3, <2>1, <2>3, <2>4, <2>5 DEF Shape, r
<1> QED BY <1>1, <1>2, <1>3

(* at_queue_remove_cmd: the command that is next at the head was not written. *)
LEMMA RemoveShape ==
  ASSUME NEW A, NEW q, Shape(q, A), q # << >>, NEW res
  PROVE  LET r == at_queue_remove_cmd(q, res)
         IN  Shape(r, A) /\ ~HeadSent(r) /\ Len(r) \in Nat
<1> DEFINE r == at_queue_remove_cmd(q, res)
           t == [Head(q) EXCEPT !.cindex = @ + 1]
<1>1. Head(q) \in HeadTask(A) /\ Tail(q) \in Seq(FreshTask(A))
  BY DEF Shape
<1>2. CASE TaskEnds(Head(q), res)
  <2>1. r = Tail(q)
    BY <1>2 DEF at_queue_remove_cmd
  <2> QED BY <1>1, <2>1, FreshShape, LenProperties
<1>3. CASE ~TaskEnds(Head(q), res)
  <2>1. r = <<t>> \o Tail(q)
    BY <1>3 DEF at_queue_remove_cmd
  <2>2. Len(Head(q).cmds) \in Nat /\ Head(q).cindex \in Nat /\ Head(q) \in Task
    BY <1>1, LenProperties DEF HeadTask, TaskOf, Task
  <2>3. Head(q).cindex + 1 < Len(Head(q).cmds)
    BY <1>3, <2>2 DEF TaskEnds
  <2>4. /\ t \in Task /\ t.cindex = Head(q).cindex + 1 /\ t.cmds = Head(q).cmds
        /\ t.cpvt = Head(q).cpvt
    BY <2>2 DEF Task
  <2> HIDE DEF t, r
  <2>5. t \in HeadTask(A)
    BY <1>1, <2>2, <2>3, <2>4 DEF HeadTask, TaskOf
  <2>6. ~at_queue_task_cmd(t).sent
    <3>1. \A j \in 1 .. Len(Head(q).cmds) : Head(q).cmds[j].sent => j <= Head(q).cindex + 1
      BY <1>1 DEF HeadTask
    <3>2. t.cindex + 1 \in 1 .. Len(Head(q).cmds) /\ ~(t.cindex + 1 <= Head(q).cindex + 1)
      BY <2>2, <2>3, <2>4
    <3> QED BY <3>1, <3>2, <2>4 DEF at_queue_task_cmd
  <2>7. Shape(r, A) /\ Head(r) = t
    BY <1>1, <2>1, <2>5, ConsShape
  <2> QED BY <2>6, <2>7, LenProperties DEF Shape, HeadSent, r
<1> QED BY <1>2, <1>3

(* Writing the head command changes nothing but its mark. *)
LEMMA MarkShape ==
  ASSUME NEW A, NEW q, Shape(q, A), q # << >>
  PROVE  LET r == MarkSent(q)
         IN  /\ Shape(r, A) /\ r # << >> /\ Len(r) = Len(q)
             /\ HeadSent(r) /\ HeadDialog(r) = HeadDialog(q)
<1> DEFINE h == Head(q)
           k == h.cindex + 1
           c == [h.cmds[k] EXCEPT !.sent = TRUE]
           t == [h EXCEPT !.cmds[k].sent = TRUE]
           r == MarkSent(q)
<1>1. h \in HeadTask(A) /\ Tail(q) \in Seq(FreshTask(A)) /\ Len(Tail(q)) = Len(q) - 1
  BY HeadTailProperties DEF Shape
<1>2. /\ h \in Task /\ h.cmds \in Seq(Cmd) /\ Len(h.cmds) \in Nat /\ k \in 1 .. Len(h.cmds)
      /\ h.cpvt \in A /\ h.cindex < Len(h.cmds)
  BY <1>1, LenProperties DEF HeadTask, TaskOf, Task
<1>3. h.cmds[k] \in Cmd
  BY <1>2, ElementOfSeq
<1>4. c \in Cmd /\ c.sent /\ c.res = h.cmds[k].res
  BY <1>3 DEF Cmd
<1>5. t = [h EXCEPT !.cmds = [h.cmds EXCEPT ![k] = c]]
  BY <1>2, <1>3, LenProperties DEF Task
<1> HIDE DEF c
<1>6. /\ [h.cmds EXCEPT ![k] = c] \in Seq(Cmd)
      /\ Len([h.cmds EXCEPT ![k] = c]) = Len(h.cmds)
      /\ \A j \in 1 .. Len(h.cmds) :
           [h.cmds EXCEPT ![k] = c][j] = IF j = k THEN c ELSE h.cmds[j]
  BY <1>2, <1>4, ExceptSeq
<1>7. /\ t \in Task /\ t.cindex = h.cindex /\ t.cpvt = h.cpvt /\ t.serial = h.serial
      /\ t.cmds = [h.cmds EXCEPT ![k] = c]
  BY <1>2, <1>5, <1>6 DEF Task
<1>8. Len(t.cmds) = Len(h.cmds) /\ \A j \in 1 .. Len(t.cmds) : t.cmds[j] = IF j = k THEN c ELSE h.cmds[j]
  BY <1>6, <1>7
<1>9. r = <<t>> \o Tail(q)
  BY DEF MarkSent
<1> HIDE DEF t, r
<1>10. t \in HeadTask(A)
  <2>1. \A j \in 1 .. Len(h.cmds) : h.cmds[j].sent => j <= h.cindex + 1
    BY <1>1 DEF HeadTask
  <2>2. \A j \in 1 .. Len(t.cmds) : t.cmds[j].sent => j <= t.cindex + 1
    BY <2>1, <1>2, <1>7, <1>8
  <2>3. t.cpvt \in A /\ t.cindex < Len(t.cmds) /\ t \in Task
    BY <1>2, <1>7, <1>8
  <2> HIDE DEF h, k
  <2> QED BY <2>2, <2>3 DEF HeadTask, TaskOf
<1>11. at_queue_task_cmd(t) = c /\ at_queue_task_cmd(h) = h.cmds[k]
  BY <1>2, <1>7, <1>8 DEF at_queue_task_cmd
<1>12. /\ Shape(r, A) /\ r # << >> /\ Head(r) = t /\ Len(r) = Len(Tail(q)) + 1
  BY <1>1, <1>9, <1>10, ConsShape
<1>13. HeadSent(r) /\ HeadDialog(r) = HeadDialog(q)
  BY <1>4, <1>7, <1>11, <1>12 DEF HeadSent, HeadDialog
<1>14. Len(q) \in Nat
  BY LenProperties DEF Shape
<1> QED BY <1>1, <1>12, <1>13, <1>14 DEF r

(* Of the owners A, those outside D are left in B, and sys_chan, who inherits *)
Survive(A, D, B) == A \ D \subseteq B /\ B \subseteq Cpvt \cup {SysChan} /\ SysChan \in B

(* Relinking the tasks of a call that dies changes nothing but their owner. *)
LEMMA RelinkShape ==
  ASSUME NEW A, NEW q, Shape(q, A), NEW D, NEW B, Survive(A, D, B)
  PROVE  LET r == Relink(q, D, SysChan)
         IN  /\ Shape(r, B) /\ Len(r) = Len(q)
             /\ HeadSent(r) <=> HeadSent(q)
             /\ HeadUnsent(r) <=> HeadUnsent(q)
             /\ q # << >> => HeadDialog(r) = HeadDialog(q)
<1> USE DEF Survive
<1> DEFINE f(t) == IF t.cpvt \in D THEN [t EXCEPT !.cpvt = SysChan] ELSE t
           r == Relink(q, D, SysChan)
<1>1. q \in Seq(TaskOf(A)) /\ Len(q) \in Nat /\ \A i \in 1 .. Len(q) : q[i] \in TaskOf(A)
  BY LenProperties, ElementOfSeq DEF Shape
<1>2. ASSUME NEW t \in TaskOf(A)
      PROVE  /\ f(t) \in TaskOf(B) /\ f(t).cmds = t.cmds /\ f(t).cindex = t.cindex
             /\ f(t).serial = t.serial
  BY <1>2 DEF TaskOf, Task
<1>3. ASSUME NEW t \in FreshTask(A) PROVE f(t) \in FreshTask(B)
  <2>1. t \in TaskOf(A)
    BY DEF FreshTask
  <2> HIDE DEF f
  <2> QED BY <2>1, <1>2 DEF FreshTask
<1>4. ASSUME NEW t \in HeadTask(A) PROVE f(t) \in HeadTask(B)
  <2>1. t \in TaskOf(A)
    BY DEF HeadTask
  <2> HIDE DEF f
  <2> QED BY <2>1, <1>2 DEF HeadTask
<1>5. r = [i \in 1 .. Len(q) |-> f(q[i])]
  BY DEF Relink
<1> HIDE DEF f, r
<1>6. r \in Seq(TaskOf(B)) /\ Len(r) = Len(q) /\ \A i \in 1 .. Len(q) : r[i] = f(q[i])
  BY <1>1, <1>2, <1>5, SeqDef
<1>7. CASE q = << >>
  <2>1. Len(r) = 0
    BY <1>6, <1>7, EmptySeq
  <2>2. r = << >>
    BY <2>1, <1>6, EmptySeq
  <2> QED BY <2>2, <1>6, <1>7 DEF Shape, HeadSent, HeadUnsent, r
<1>8. CASE q # << >>
  <2>1. /\ Len(q) \in Nat \ {0} /\ Head(q) = q[1] /\ Head(q) \in HeadTask(A)
        /\ Tail(q) \in Seq(FreshTask(A)) /\ Len(Tail(q)) = Len(q) - 1
        /\ \A i \in 1 .. Len(Tail(q)) : Tail(q)[i] = q[i + 1]
    BY <1>1, <1>8, HeadTailProperties, EmptySeq DEF Shape
  <2>2. /\ r # << >> /\ Head(r) = r[1]
        /\ Tail(r) \in Seq(TaskOf(B)) /\ Len(Tail(r)) = Len(r) - 1
        /\ \A i \in 1 .. Len(Tail(r)) : Tail(r)[i] = r[i + 1]
    <3>1. r # << >>
      BY <1>6, <2>1, EmptySeq
    <3> QED BY <3>1, <1>6, HeadTailProperties
  <2>3. Head(r) = f(Head(q))
    BY <1>6, <2>1, <2>2
  <2>4. \A i \in 1 .. Len(Tail(r)) : Tail(r)[i] \in FreshTask(B)
    <3> SUFFICES ASSUME NEW i \in 1 .. Len(Tail(r)) PROVE Tail(r)[i] \in FreshTask(B)
      OBVIOUS
    <3>1. i \in 1 .. Len(Tail(q)) /\ i + 1 \in 1 .. Len(q)
      BY <1>6, <2>1, <2>2
    <3>2. Tail(r)[i] = f(Tail(q)[i])
      BY <3>1, <1>6, <2>1, <2>2
    <3>3. Tail(q)[i] \in FreshTask(A)
      BY <3>1, <2>1, ElementOfSeq
    <3> QED BY <3>2, <3>3, <1>3
  <2>5. Tail(r) \in Seq(FreshTask(B))
    <3>1. Len(Tail(r)) \in Nat /\ Tail(r) \in [1 .. Len(Tail(r)) -> TaskOf(B)]
      BY <2>2, LenProperties
    <3>2. Tail(r) \in [1 .. Len(Tail(r)) -> FreshTask(B)]
      BY <3>1, <2>4
    <3> QED BY <3>1, <3>2, SeqDef, ZenonT(60)
  <2>6. Head(q) \in TaskOf(A)
    BY <2>1 DEF HeadTask
  <2>7. /\ f(Head(q)).cmds = Head(q).cmds /\ f(Head(q)).cindex = Head(q).cindex
        /\ f(Head(q)).serial = Head(q).serial /\ f(Head(q)) \in HeadTask(B)
    BY <1>2, <1>4, <2>1, <2>6
  <2>8. at_queue_task_cmd(Head(r)) = at_queue_task_cmd(Head(q))
    BY <2>3, <2>7 DEF at_queue_task_cmd
  <2>9. Shape(r, B)
    BY <1>6, <2>3, <2>5, <2>7 DEF Shape
  <2> QED BY <1>6, <1>8, <2>2, <2>3, <2>7, <2>8, <2>9 DEF HeadSent, HeadUnsent, HeadDialog, r
<1> QED BY <1>7, <1>8

-----------------------------------------------------------------------------
(* The building blocks of AtQueue *)

Owners == live \cup {SysChan}

(* What a caller inserts is a fresh task. *)
LEMMA NewTaskFresh ==
  ASSUME NEW owner \in Owners, live \subseteq Cpvt, serial \in Nat,
         NEW script, IsScript(script)
  PROVE  NewTask(owner, script) \in FreshTask(Owners)
  BY DEF NewTask, IsScript, FreshTask, TaskOf, Task, Owners

(* The head of a queue has a current command. *)
LEMMA HeadCmdType ==
  ASSUME NEW A, NEW q, Shape(q, A), q # << >>
  PROVE  Head(q) \in Task /\ at_queue_task_cmd(Head(q)) \in Cmd
<1>1. Head(q) \in HeadTask(A)
  BY DEF Shape
<1>2. /\ Head(q) \in Task /\ Len(Head(q).cmds) \in Nat /\ Head(q).cmds \in Seq(Cmd)
      /\ Head(q).cindex + 1 \in 1 .. Len(Head(q).cmds)
  BY <1>1, LenProperties DEF HeadTask, TaskOf, Task
<1>3. at_queue_task_cmd(Head(q)) \in Cmd
  BY <1>2, ElementOfSeq DEF at_queue_task_cmd
<1> QED BY <1>2, <1>3

(* The message a command is answered by is well typed. *)
LEMMA DialogType ==
  ASSUME NEW A, NEW q, Shape(q, A), q # << >>
  PROVE  HeadDialog(q) \in Written
  BY HeadCmdType DEF HeadDialog, Written, Cmd, Task

(* at_queue_run that does not fail keeps the shape and leaves nothing to write. *)
LEMMA RunSucceedsShape ==
  ASSUME NEW A, NEW q, Shape(q, A), wire \in Seq(Written), NEW nc,
         RunSucceeds(q, Len(q), nc)
  PROVE  /\ Shape(queue', A) /\ at_tasks' = Len(queue') /\ wire' \in Seq(Written)
         /\ ~HeadUnsent(queue')
<1>1. CASE RunIdle(q, Len(q), nc)
  BY <1>1 DEF RunIdle
<1>2. CASE RunWrites(q, Len(q), nc)
  <2>1. q # << >> /\ queue' = MarkSent(q) /\ at_tasks' = Len(q) /\ wire' = Append(wire, HeadDialog(q))
    BY <1>2 DEF RunWrites, HeadUnsent
  <2>2. Shape(queue', A) /\ Len(queue') = Len(q) /\ HeadSent(queue')
    BY <2>1, MarkShape
  <2>3. wire' \in Seq(Written)
    BY <2>1, DialogType, AppendProperties
  <2> QED BY <2>1, <2>2, <2>3 DEF HeadSent, HeadUnsent
<1> QED BY <1>1, <1>2 DEF RunSucceeds

(* at_queue_run whose write fails drops the command. *)
LEMMA RunFailsShape ==
  ASSUME NEW A, NEW q, Shape(q, A), NEW nc, RunFails(q, Len(q), nc)
  PROVE  /\ Shape(queue', A) /\ at_tasks' = Len(queue') /\ wire' = wire
         /\ ~HeadSent(queue') /\ ~HeadSent(q)
<1>1. /\ q # << >> /\ wire' = wire /\ queue' = at_queue_remove_cmd(q, RES_MISMATCH)
      /\ at_tasks' = Len(q) - (Len(q) - Len(queue')) /\ ~HeadSent(q)
  BY DEF RunFails, RemoveCmd, HeadUnsent, HeadSent
<1>2. Shape(queue', A) /\ ~HeadSent(queue') /\ Len(queue') \in Nat
  BY <1>1, RemoveShape
<1>3. Len(q) \in Nat
  BY LenProperties DEF Shape
<1> QED BY <1>1, <1>2, <1>3

-----------------------------------------------------------------------------
(* The inductive invariant: types, the shape of the queue, and that a queued *)
(* command is written whenever the lock is free unless a write failed.       *)

Types ==
  /\ wire \in Seq(Written) /\ rx \in Seq(Answer)
  /\ mon \in MonStates
  /\ live \subseteq Cpvt /\ IsFiniteSet(live)
  /\ serial \in Nat /\ wfail \in BOOLEAN

QueueInv ==
  /\ Shape(queue, Owners)
  /\ at_tasks = Len(queue)
  /\ mon = "stopped" => queue = << >>

IndInv == Types /\ QueueInv /\ NoStall

(* The empty queue has the right shape. *)
LEMMA EmptyShape == \A A : Shape(<< >>, A) /\ ~HeadUnsent(<< >>) /\ ~HeadSent(<< >>)
  BY EmptySeq DEF Shape, HeadUnsent, HeadSent

(* The invariant holds initially. *)
LEMMA InitIndInv == ASSUME Init PROVE IndInv
<1>1. << >> \in Seq(Written) /\ << >> \in Seq(Answer) /\ Len(<< >>) = 0
  BY EmptySeq
<1>2. Types
  BY <1>1, FS_EmptySet DEF Init, Types, MonStates
<1>3. QueueInv
  BY <1>1, EmptyShape DEF Init, QueueInv
<1> QED BY <1>2, <1>3 DEF Init, IndInv, NoStall

(* Inserting a task and running the queue. *)
LEMMA AddAndRunInv ==
  ASSUME IndInv, NEW owner \in Owners, NEW script, IsScript(script), NEW prio \in BOOLEAN,
         AddAndRun(owner, script, prio)
  PROVE  /\ Shape(queue', Owners) /\ at_tasks' = Len(queue') /\ wire' \in Seq(Written)
         /\ ~HeadUnsent(queue') /\ serial' \in Nat /\ UNCHANGED wfail
<1> DEFINE q == at_queue_add(queue, NewTask(owner, script), prio)
<1>1. NewTask(owner, script) \in FreshTask(Owners)
  BY NewTaskFresh DEF IndInv, Types
<1>2. Shape(q, Owners) /\ Len(q) = Len(queue) + 1
  BY <1>1, AddShape DEF IndInv, QueueInv
<1>3. RunSucceeds(q, at_tasks + 1, at_cmds + Len(script)) /\ at_tasks = Len(queue)
      /\ serial' = serial + 1 /\ UNCHANGED wfail /\ wire \in Seq(Written) /\ serial \in Nat
  BY DEF AddAndRun, IndInv, QueueInv, Types
<1> HIDE DEF q
<1> QED BY <1>2, <1>3, RunSucceedsShape

(* Inserting a task when the write that follows fails. *)
LEMMA AddAndFailInv ==
  ASSUME IndInv, NEW owner \in Owners, NEW script, IsScript(script), NEW prio \in BOOLEAN,
         AddAndFail(owner, script, prio)
  PROVE  /\ Shape(queue', Owners) /\ at_tasks' = Len(queue') /\ wire' \in Seq(Written)
         /\ wfail' = TRUE /\ serial' \in Nat
<1> DEFINE q == at_queue_add(queue, NewTask(owner, script), prio)
<1>1. NewTask(owner, script) \in FreshTask(Owners)
  BY NewTaskFresh DEF IndInv, Types
<1>2. Shape(q, Owners) /\ Len(q) = Len(queue) + 1
  BY <1>1, AddShape DEF IndInv, QueueInv
<1>3. RunFails(q, at_tasks + 1, at_cmds + Len(script)) /\ at_tasks = Len(queue)
      /\ serial' = serial + 1 /\ wfail' = TRUE
      /\ wire \in Seq(Written) /\ serial \in Nat
  BY DEF AddAndFail, IndInv, QueueInv, Types
<1> HIDE DEF q
<1>4. Shape(queue', Owners) /\ at_tasks' = Len(queue') /\ wire' = wire
  BY <1>2, <1>3, RunFailsShape
<1> QED BY <1>3, <1>4

(* Disconnecting a device resets everything. *)
LEMMA DisconnectInv ==
  ASSUME IndInv, Disconnect
  PROVE  IndInv'
<1>1. /\ live' = {} /\ queue' = << >> /\ at_tasks' = at_tasks - Len(queue) /\ rx' = << >>
      /\ mon' = "stopped" /\ UNCHANGED <<serial, wfail>>
      /\ wire' = IF LateAnswers THEN wire \o HangupDialogs ELSE << >>
  BY DEF Disconnect
<1>2. wire' \in Seq(Written)
  <2>1. Cardinality(live) \in Nat
    BY FS_CardinalityType DEF IndInv, Types
  <2>2. HangupDialogs \in Seq(Written)
    <3>1. [serial |-> 0, index |-> 0, res |-> RES_OK] \in Written
      BY DEF Written
    <3> DEFINE w == [serial |-> 0, index |-> 0, res |-> RES_OK]
               n == Cardinality(live)
    <3> HIDE DEF w, n
    <3>2. [i \in 1 .. n |-> w] \in Seq(Written)
      BY <2>1, <3>1, SeqDef DEF w, n
    <3> QED BY <3>2 DEF HangupDialogs, w, n
  <2> QED BY <1>1, <2>2, ConcatProperties, EmptySeq DEF IndInv, Types
<1>3. Types'
  BY <1>1, <1>2, FS_EmptySet, EmptySeq DEF IndInv, Types, MonStates
<1>4. Len(queue) \in Nat /\ at_tasks = Len(queue)
  BY LenProperties DEF IndInv, QueueInv, Shape
<1>5. QueueInv'
  BY <1>1, <1>4, EmptyShape, EmptySeq DEF QueueInv
<1> QED BY <1>1, <1>3, <1>5 DEF IndInv, NoStall

(* Owners only grow, so the shape stays right, when a call is created. *)
LEMMA ShapeMonotone ==
  ASSUME NEW A, NEW B, A \subseteq B, NEW q, Shape(q, A)
  PROVE  Shape(q, B)
<1>1. /\ TaskOf(A) \subseteq TaskOf(B) /\ FreshTask(A) \subseteq FreshTask(B)
      /\ HeadTask(A) \subseteq HeadTask(B)
  BY DEF TaskOf, FreshTask, HeadTask
<1>2. q \in Seq(TaskOf(B))
  BY <1>1, SeqMonotonic DEF Shape
<1>3. q # << >> => Tail(q) \in Seq(FreshTask(B))
  BY <1>1, SeqMonotonic DEF Shape
<1> QED BY <1>1, <1>2, <1>3 DEF Shape

(* An answer the modem gives is well typed. *)
LEMMA AnswerType ==
  ASSUME NEW w \in Written, NEW r \in MayAnswer(w.res)
  PROVE  [w EXCEPT !.res = r] \in Answer
<1>1. r \in Results
  BY DEF Written, MayAnswer, Results, RES_OK, RES_CMGR, RES_SMS_PROMPT, RES_ERROR
<1> QED BY <1>1 DEF Written, Answer

(* Every step preserves the invariant. *)
LEMMA NextIndInv == ASSUME IndInv, [Next]_vars PROVE IndInv'
<1> USE DEF IndInv
<1>1. ASSUME NEW o \in Cpvt \cup {SysChan}, NEW s \in Scripts, NEW p \in BOOLEAN, Insert(o, s, p)
      PROVE  IndInv'
  <2>1. o \in Owners /\ IsScript(s) /\ UNCHANGED <<rx, mon, live>> /\ mon # "stopped"
    BY <1>1, QueueAssumption DEF Insert, Owners, MayInsert
  <2>2. /\ Shape(queue', Owners) /\ at_tasks' = Len(queue') /\ wire' \in Seq(Written)
        /\ ~HeadUnsent(queue') \/ wfail' = TRUE
        /\ serial' \in Nat /\ wfail' \in BOOLEAN
    <3>1. CASE AddAndRun(o, s, p)
      BY <2>1, <3>1, AddAndRunInv DEF Types
    <3>2. CASE AddAndFail(o, s, p)
      BY <2>1, <3>2, AddAndFailInv
    <3> QED BY <1>1, <3>1, <3>2 DEF Insert
  <2>3. Types'
    BY <2>1, <2>2 DEF Types
  <2>4. QueueInv'
    BY <2>1, <2>2 DEF QueueInv, Owners
  <2> QED BY <2>2, <2>3, <2>4 DEF NoStall
<1>2. ASSUME InsertNoMemory PROVE IndInv'
  <2>1. /\ UNCHANGED <<rx, mon, live, serial>> /\ mon # "stopped" /\ at_tasks = Len(queue)
        /\ wire \in Seq(Written) /\ Shape(queue, Owners)
    BY <1>2 DEF InsertNoMemory, MayInsert, QueueInv, Types
  <2>2. /\ Shape(queue', Owners) /\ at_tasks' = Len(queue') /\ wire' \in Seq(Written)
        /\ ~HeadUnsent(queue') \/ wfail' = TRUE
        /\ wfail' \in BOOLEAN
    <3>1. CASE RunSucceeds(queue, at_tasks, at_cmds) /\ UNCHANGED wfail
      BY <2>1, <3>1, RunSucceedsShape DEF Types
    <3>2. CASE RunFails(queue, at_tasks, at_cmds) /\ wfail' = TRUE
      BY <2>1, <3>2, RunFailsShape
    <3> QED BY <1>2, <3>1, <3>2 DEF InsertNoMemory
  <2>3. Types'
    BY <2>1, <2>2 DEF Types
  <2>4. QueueInv'
    BY <2>1, <2>2 DEF QueueInv, Owners
  <2> QED BY <2>2, <2>3, <2>4 DEF NoStall
<1>3. ASSUME NEW c \in Cpvt, CpvtAlloc(c) PROVE IndInv'
  <2>1. /\ live' = live \cup {c}
        /\ UNCHANGED <<queue, at_tasks, at_cmds, wire, rx, mon, serial, wfail>>
    BY <1>3 DEF CpvtAlloc
  <2>2. IsFiniteSet(live')
    BY <2>1, FS_AddElement DEF Types
  <2>3. Shape(queue', Owners')
    BY <2>1, ShapeMonotone DEF QueueInv, Owners
  <2>4. Types'
    BY <2>1, <2>2 DEF Types
  <2>5. QueueInv'
    BY <2>1, <2>3 DEF QueueInv
  <2> QED BY <2>1, <2>4, <2>5 DEF NoStall
<1>4. ASSUME NEW c \in Cpvt, CpvtFree(c) PROVE IndInv'
  <2>1. /\ live' = live \ {c} /\ queue' = Relink(queue, {c}, SysChan) /\ mon # "stopped"
        /\ UNCHANGED <<at_tasks, at_cmds, wire, rx, mon, serial, wfail>>
    BY <1>4 DEF CpvtFree, MayInsert
  <2>2. IsFiniteSet(live')
    BY <2>1, FS_RemoveElement DEF Types
  <2>3. Owners \ {c} \subseteq Owners' /\ Owners' \subseteq Cpvt \cup {SysChan} /\ SysChan \in Owners'
    BY <2>1 DEF Owners, Types
  <2>4. Shape(queue', Owners') /\ Len(queue') = Len(queue) /\ (HeadUnsent(queue') <=> HeadUnsent(queue))
    <3> DEFINE A == Owners  B == Owners'
    <3>1. Shape(queue, A)
      BY DEF QueueInv
    <3>2. Survive(A, {c}, B)
      BY <2>3 DEF Survive
    <3> HIDE DEF A, B, IndInv
    <3>3. LET r == Relink(queue, {c}, SysChan)
          IN  Shape(r, B) /\ Len(r) = Len(queue) /\ (HeadUnsent(r) <=> HeadUnsent(queue))
      BY <3>1, <3>2, RelinkShape
    <3> QED BY <2>1, <3>3 DEF B
  <2>5. Types'
    BY <2>1, <2>2 DEF Types
  <2>6. QueueInv'
    BY <2>1, <2>4 DEF QueueInv
  <2> QED BY <2>1, <2>4, <2>5, <2>6 DEF NoStall
<1>5. ASSUME ModemAnswers PROVE IndInv'
  <2>1. /\ wire # << >> /\ wire \in Seq(Written) /\ rx \in Seq(Answer) /\ wire' = Tail(wire)
        /\ UNCHANGED <<queue, at_tasks, at_cmds, mon, live, serial, wfail>>
    BY <1>5 DEF ModemAnswers, Types
  <2>2. Head(wire) \in Written /\ wire' \in Seq(Written)
    BY <2>1, HeadTailProperties
  <2>3. PICK r \in MayAnswer(Head(wire).res) :
          rx' = IF mon = "stopped" THEN rx ELSE Append(rx, [Head(wire) EXCEPT !.res = r])
    BY <1>5 DEF ModemAnswers
  <2>4. rx' \in Seq(Answer)
    BY <2>1, <2>2, <2>3, AnswerType, AppendProperties
  <2>5. Types'
    BY <2>1, <2>2, <2>4 DEF Types
  <2> QED BY <2>1, <2>5 DEF QueueInv, NoStall, Owners
<1>6. ASSUME PvtStart PROVE IndInv'
  <2>1. /\ mon = "stopped" /\ mon' = "starting" /\ wfail' = FALSE
        /\ UNCHANGED <<queue, at_tasks, at_cmds, wire, rx, live, serial>>
    BY <1>6 DEF PvtStart
  <2>2. queue' = << >>
    BY <2>1 DEF QueueInv
  <2> QED BY <2>1, <2>2, EmptyShape DEF Types, MonStates, QueueInv, NoStall, Owners
<1>7. ASSUME MonitorBegins PROVE IndInv'
  <2>1. /\ rx' = << >> /\ mon' = "wait" /\ live' = live /\ AddAndRun(SysChan, InitScript, FALSE)
        /\ << >> \in Seq(Answer)
    BY <1>7, EmptySeq DEF MonitorBegins
  <2>2. /\ Shape(queue', Owners) /\ at_tasks' = Len(queue') /\ wire' \in Seq(Written)
        /\ ~HeadUnsent(queue') /\ serial' \in Nat /\ UNCHANGED wfail
    <3>1. SysChan \in Owners /\ IsScript(InitScript)
      BY QueueAssumption DEF Owners
    <3> QED BY <2>1, <3>1, AddAndRunInv
  <2>3. Types'
    BY <2>1, <2>2 DEF Types, MonStates
  <2>4. QueueInv'
    BY <2>1, <2>2 DEF QueueInv, Owners
  <2> QED BY <2>2, <2>3, <2>4 DEF NoStall
<1>8. ASSUME ReadResult PROVE IndInv'
  <2>1. /\ rx # << >> /\ rx' = Tail(rx) /\ mon' = "handled" /\ UNCHANGED <<wire, live, serial, wfail>>
        /\ IF ResultTaken THEN RemoveCmd(queue, at_tasks, at_cmds, Head(rx).res) ELSE UNCHANGED qvars
    BY <1>8 DEF ReadResult
  <2>2. rx' \in Seq(Answer)
    BY <2>1, HeadTailProperties DEF Types
  <2>3. Shape(queue', Owners) /\ at_tasks' = Len(queue')
    <3>1. CASE ResultTaken
      <4>1. /\ queue # << >> /\ queue' = at_queue_remove_cmd(queue, Head(rx).res)
            /\ at_tasks' = at_tasks - (Len(queue) - Len(queue')) /\ at_tasks = Len(queue)
            /\ Shape(queue, Owners)
        BY <2>1, <3>1 DEF RemoveCmd, ResultTaken, QueueInv
      <4>2. Shape(queue', Owners) /\ Len(queue') \in Nat
        BY <4>1, RemoveShape
      <4>3. Len(queue) \in Nat
        BY <4>1, LenProperties DEF Shape
      <4> QED BY <4>1, <4>2, <4>3
    <3>2. CASE ~ResultTaken
      BY <2>1, <3>2 DEF qvars, QueueInv
    <3> QED BY <3>1, <3>2
  <2>4. Types'
    BY <2>1, <2>2 DEF Types, MonStates
  <2>5. QueueInv'
    BY <2>1, <2>3 DEF QueueInv, Owners
  <2> QED BY <2>1, <2>4, <2>5 DEF NoStall
<1>9. ASSUME QueueRun PROVE IndInv'
  <2>1. /\ RunSucceeds(queue, at_tasks, at_cmds) /\ mon' = "wait" /\ UNCHANGED <<rx, live, serial, wfail>>
        /\ Shape(queue, Owners) /\ at_tasks = Len(queue) /\ wire \in Seq(Written)
    BY <1>9 DEF QueueRun, QueueInv, Types
  <2>2. Shape(queue', Owners) /\ at_tasks' = Len(queue') /\ wire' \in Seq(Written) /\ ~HeadUnsent(queue')
    BY <2>1, RunSucceedsShape
  <2>3. Types'
    BY <2>1, <2>2 DEF Types, MonStates
  <2>4. QueueInv'
    BY <2>1, <2>2 DEF QueueInv, Owners
  <2> QED BY <2>2, <2>3, <2>4 DEF NoStall
<1>10. ASSUME ReadUrc \/ AtWaitExpires PROVE IndInv'
  <2>1. /\ mon = "wait" /\ mon' \in {"handled", "expired"}
        /\ UNCHANGED <<queue, at_tasks, at_cmds, wire, rx, live, serial, wfail>>
    BY <1>10 DEF ReadUrc, AtWaitExpires
  <2> QED BY <2>1 DEF Types, MonStates, QueueInv, NoStall, Owners
<1>11. ASSUME Ping PROVE IndInv'
  <2>1. /\ mon' = "wait" /\ UNCHANGED <<rx, live>> /\ SysChan \in Owners /\ IsScript(PingScript)
    BY <1>11, QueueAssumption DEF Ping, Owners
  <2>2. /\ Shape(queue', Owners) /\ at_tasks' = Len(queue') /\ wire' \in Seq(Written)
        /\ ~HeadUnsent(queue') \/ wfail' = TRUE
        /\ serial' \in Nat /\ wfail' \in BOOLEAN
    <3>1. CASE AddAndRun(SysChan, PingScript, TRUE)
      BY <2>1, <3>1, AddAndRunInv DEF Types
    <3>2. CASE AddAndFail(SysChan, PingScript, TRUE)
      BY <2>1, <3>2, AddAndFailInv
    <3> QED BY <1>11, <3>1, <3>2 DEF Ping
  <2>3. Types'
    BY <2>1, <2>2 DEF Types, MonStates
  <2>4. QueueInv'
    BY <2>1, <2>2 DEF QueueInv, Owners
  <2> QED BY <2>2, <2>3, <2>4 DEF NoStall
<1>12. ASSUME ReadFatal \/ MonitorEnds PROVE IndInv'
  <2>1. Disconnect
    BY <1>12 DEF ReadFatal, MonitorEnds
  <2> QED BY <2>1, DisconnectInv
<1>13. ASSUME UNCHANGED vars PROVE IndInv'
  BY <1>13 DEF vars, Types, QueueInv, NoStall, Owners
<1> HIDE DEF IndInv
<1> QED BY <1>1, <1>2, <1>3, <1>4, <1>5, <1>6, <1>7, <1>8, <1>9, <1>10, <1>11, <1>12, <1>13
        DEF Next

(* The invariant holds in every reachable state. *)
LEMMA AlwaysIndInv == Spec => []IndInv
  BY InitIndInv, NextIndInv, PTL DEF Spec

(* Where a task stands in a queue of the right shape. *)
LEMMA QueuePlaces ==
  ASSUME NEW A, NEW q, Shape(q, A), NEW i \in 1 .. Len(q)
  PROVE  /\ i = 1 => q[i] \in HeadTask(A)
         /\ i # 1 => q[i] \in FreshTask(A)
<1>1. q \in Seq(TaskOf(A)) /\ Len(q) \in Nat
  BY LenProperties DEF Shape
<1>2. q # << >>
  BY <1>1, EmptySeq
<1>3. /\ Head(q) = q[1] /\ Len(Tail(q)) = Len(q) - 1
      /\ \A k \in 1 .. Len(Tail(q)) : Tail(q)[k] = q[k + 1]
  BY <1>1, <1>2, HeadTailProperties
<1>4. i # 1 => i - 1 \in 1 .. Len(Tail(q)) /\ Tail(q)[i - 1] = q[i]
  BY <1>1, <1>3
<1>5. Head(q) \in HeadTask(A) /\ Tail(q) \in Seq(FreshTask(A))
  BY <1>2 DEF Shape
<1> QED BY <1>3, <1>4, <1>5, ElementOfSeq

(* Type correctness, for every device, every command list and every bound.   *)
THEOREM TypeCorrect == Spec => []TypeOK
<1>1. IndInv => TypeOK
  <2> SUFFICES ASSUME IndInv PROVE TypeOK
    OBVIOUS
  <2>1. /\ queue \in Seq(TaskOf(Owners)) /\ Len(queue) \in Nat /\ at_tasks = Len(queue)
        /\ \A i \in 1 .. Len(queue) : queue[i] \in TaskOf(Owners)
    BY LenProperties, ElementOfSeq DEF IndInv, QueueInv, Shape
  <2>2. queue \in Seq(Task)
    BY <2>1, SeqMonotonic, TaskOf(Owners) \subseteq Task DEF TaskOf
  <2>3. \A i \in 1 .. Len(queue) : queue[i].cindex < Len(queue[i].cmds)
    <3> SUFFICES ASSUME NEW i \in 1 .. Len(queue) PROVE queue[i].cindex < Len(queue[i].cmds)
      OBVIOUS
    <3>1. queue[i] \in HeadTask(Owners)
      BY QueuePlaces, FreshIsHead DEF IndInv, QueueInv
    <3> QED BY <3>1 DEF HeadTask
  <2> QED BY <2>1, <2>2, <2>3 DEF IndInv, Types, TypeOK
<1> QED BY <1>1, AlwaysIndInv, PTL

(* At any time only the command at the head of the queue may have been       *)
(* written to the device (at_queue_run, at_queue_add).                       *)
THEOREM HeadOnly == Spec => []SentOnlyAtHead
<1>1. IndInv => SentOnlyAtHead
  <2> SUFFICES ASSUME IndInv, NEW i \in 1 .. Len(queue), NEW j \in 1 .. Len(queue[i].cmds),
                      queue[i].cmds[j].sent
               PROVE  i = 1 /\ j <= queue[i].cindex + 1
    BY DEF SentOnlyAtHead
  <2>1. queue[i] \in HeadTask(Owners) /\ (i = 1 \/ queue[i] \in FreshTask(Owners))
    BY QueuePlaces, FreshIsHead DEF IndInv, QueueInv
  <2>2. queue[i] \notin FreshTask(Owners)
    BY DEF FreshTask
  <2> QED BY <2>1, <2>2 DEF HeadTask
<1> QED BY <1>1, AlwaysIndInv, PTL

(* No task refers to a call that cpvt_free has freed. *)
THEOREM OwnersAlive == Spec => []CpvtAlive
<1>1. IndInv => CpvtAlive
  <2> SUFFICES ASSUME IndInv, NEW i \in 1 .. Len(queue) PROVE queue[i].cpvt \in live \cup {SysChan}
    BY DEF CpvtAlive
  <2>1. queue[i] \in TaskOf(Owners)
    BY ElementOfSeq DEF IndInv, QueueInv, Shape
  <2> QED BY <2>1 DEF TaskOf, Owners
<1> QED BY <1>1, AlwaysIndInv, PTL

(* A queued command is written whenever the lock is free, unless a write     *)
(* failed: every path that changes the queue ends with at_queue_run.         *)
THEOREM NeverStalls == Spec => []NoStall
<1>1. IndInv => NoStall
  BY DEF IndInv
<1> QED BY <1>1, AlwaysIndInv, PTL

-----------------------------------------------------------------------------
(* The dialogue with the modem, when nobody writes before the monitor runs   *)
(* and a closed device does not answer later.                                *)

Dlg(q, w, x) ==
  \/ ~HeadSent(q) /\ w = << >> /\ x = << >>
  \/ HeadSent(q) /\ w = <<HeadDialog(q)>> /\ x = << >>
  \/ HeadSent(q) /\ w = << >> /\ \E r \in MayAnswer(HeadDialog(q).res) :
                                    x = <<[HeadDialog(q) EXCEPT !.res = r]>>

DlgInv == /\ IndInv
          /\ Dlg(queue, wire, rx)
          /\ mon = "starting" => queue = << >>
          /\ mon = "stopped" => wire = << >>

(* at_queue_add leaves the dialogue alone. *)
LEMMA AddDlg ==
  ASSUME NEW A, NEW q, Shape(q, A), NEW e \in FreshTask(A), NEW prio \in BOOLEAN, Dlg(q, wire, rx)
  PROVE  Dlg(at_queue_add(q, e, prio), wire, rx)
<1> DEFINE r == at_queue_add(q, e, prio)
<1>1. r # << >> /\ Head(r) = (IF q = << >> THEN e ELSE Head(q))
  BY AddShape
<1> HIDE DEF r
<1>2. CASE q = << >>
  <2>1. ~HeadSent(q) /\ wire = << >> /\ rx = << >>
    BY <1>2 DEF Dlg, HeadSent
  <2>2. <<e>> \in Seq(FreshTask(A)) /\ Head(<<e>>) = e /\ <<e>> # << >>
    OBVIOUS
  <2>3. ~HeadSent(<<e>>)
    BY <2>2, FreshShape
  <2>4. ~HeadSent(r)
    BY <1>1, <1>2, <2>2, <2>3 DEF HeadSent
  <2> QED BY <2>1, <2>4 DEF Dlg, r
<1>3. CASE q # << >>
  <2>1. (HeadSent(r) <=> HeadSent(q)) /\ HeadDialog(r) = HeadDialog(q)
    BY <1>1, <1>3 DEF HeadSent, HeadDialog
  <2> QED BY <2>1 DEF Dlg, r
<1> QED BY <1>2, <1>3

(* at_queue_run that does not fail opens a dialogue only when none is open. *)
LEMMA RunDlg ==
  ASSUME NEW A, NEW q, Shape(q, A), NEW nt, NEW nc, Dlg(q, wire, rx), RunSucceeds(q, nt, nc)
  PROVE  Dlg(queue', wire', rx)
<1>1. CASE RunIdle(q, nt, nc)
  BY <1>1 DEF RunIdle
<1>2. CASE RunWrites(q, nt, nc)
  <2>1. /\ q # << >> /\ ~HeadSent(q) /\ queue' = MarkSent(q) /\ wire' = Append(wire, HeadDialog(q))
    BY <1>2 DEF RunWrites, HeadUnsent, HeadSent
  <2>2. wire = << >> /\ rx = << >>
    BY <2>1 DEF Dlg
  <2>3. HeadSent(queue') /\ HeadDialog(queue') = HeadDialog(q)
    BY <2>1, MarkShape
  <2>4. wire' = <<HeadDialog(queue')>>
    BY <2>1, <2>2, <2>3
  <2> QED BY <2>2, <2>3, <2>4 DEF Dlg
<1> QED BY <1>1, <1>2 DEF RunSucceeds

(* at_queue_run whose write fails leaves no dialogue open. *)
LEMMA FailDlg ==
  ASSUME NEW A, NEW q, Shape(q, A), NEW nc, Dlg(q, wire, rx), RunFails(q, Len(q), nc)
  PROVE  Dlg(queue', wire', rx)
<1>1. wire' = wire /\ ~HeadSent(queue') /\ ~HeadSent(q)
  BY RunFailsShape
<1> QED BY <1>1 DEF Dlg

(* The same for an insertion. *)
LEMMA InsertDlg ==
  ASSUME DlgInv, NEW owner \in Owners, NEW script, IsScript(script), NEW prio \in BOOLEAN,
         AddAndRun(owner, script, prio) \/ AddAndFail(owner, script, prio)
  PROVE  Dlg(queue', wire', rx)
<1> DEFINE q == at_queue_add(queue, NewTask(owner, script), prio)
<1>1. NewTask(owner, script) \in FreshTask(Owners) /\ Shape(queue, Owners) /\ at_tasks = Len(queue)
  BY NewTaskFresh DEF DlgInv, IndInv, Types, QueueInv
<1>2. Shape(q, Owners) /\ Len(q) = at_tasks + 1
  BY <1>1, AddShape
<1>3. Dlg(q, wire, rx)
  BY <1>1, AddDlg DEF DlgInv
<1>4. \/ RunSucceeds(q, at_tasks + 1, at_cmds + Len(script))
      \/ RunFails(q, at_tasks + 1, at_cmds + Len(script))
  BY DEF AddAndRun, AddAndFail
<1> HIDE DEF q
<1>5. CASE RunSucceeds(q, at_tasks + 1, at_cmds + Len(script))
  BY <1>2, <1>3, <1>5, RunDlg
<1>6. CASE RunFails(q, at_tasks + 1, at_cmds + Len(script))
  BY <1>2, <1>3, <1>6, FailDlg
<1> QED BY <1>4, <1>5, <1>6

(* An answer the modem may give to the head command is taken for it, by      *)
(* at_response_ok, _error, _cmgr or _sms_prompt.                             *)
LEMMA AnswerTaken ==
  ASSUME NEW cmd \in Cmd, NEW r \in MayAnswer(cmd.res)
  PROVE  Takes(cmd, r)
  BY DEF Cmd, MayAnswer, Takes, RES_OK, RES_CMGR, RES_SMS_PROMPT, RES_ERROR

(* Every step keeps at most one dialogue open. *)
LEMMA NextDlgInv ==
  ASSUME ~EarlyUser, ~LateAnswers, DlgInv, [Next]_vars
  PROVE  DlgInv'
<1>0. IndInv'
  BY NextIndInv DEF DlgInv
<1>1. /\ Shape(queue, Owners) /\ at_tasks = Len(queue) /\ Dlg(queue, wire, rx) /\ live \subseteq Cpvt
      /\ IndInv
  BY DEF DlgInv, IndInv, QueueInv, Types
<1>2. ASSUME NEW o \in Cpvt \cup {SysChan}, NEW s \in Scripts, NEW p \in BOOLEAN, Insert(o, s, p)
      PROVE  DlgInv'
  <2>1. /\ o \in Owners /\ IsScript(s) /\ UNCHANGED <<rx, mon>> /\ mon \notin {"stopped", "starting"}
        /\ AddAndRun(o, s, p) \/ AddAndFail(o, s, p)
    BY <1>2, QueueAssumption DEF Insert, Owners, MayInsert
  <2>2. Dlg(queue', wire', rx)
    BY <2>1, InsertDlg
  <2> QED BY <1>0, <2>1, <2>2 DEF DlgInv
<1>3. ASSUME InsertNoMemory PROVE DlgInv'
  <2>1. UNCHANGED <<rx, mon>> /\ mon \notin {"stopped", "starting"}
    BY <1>3 DEF InsertNoMemory, MayInsert
  <2>2. Dlg(queue', wire', rx)
    BY <1>1, <1>3, RunDlg, FailDlg DEF InsertNoMemory
  <2> QED BY <1>0, <2>1, <2>2 DEF DlgInv
<1>4. ASSUME NEW c \in Cpvt, CpvtAlloc(c) PROVE DlgInv'
  BY <1>0, <1>4 DEF CpvtAlloc, DlgInv
<1>5. ASSUME NEW c \in Cpvt, CpvtFree(c) PROVE DlgInv'
  <2>1. /\ queue' = Relink(queue, {c}, SysChan) /\ UNCHANGED <<wire, rx, mon>>
        /\ mon \notin {"stopped", "starting"}
    BY <1>5 DEF CpvtFree, MayInsert
  <2>2. Shape(queue, Owners) /\ Survive(Owners, {c}, Cpvt \cup {SysChan})
    BY <1>1 DEF Owners, Survive, IndInv, QueueInv, Types
  <2>3. (HeadSent(queue') <=> HeadSent(queue)) /\ (queue # << >> => HeadDialog(queue') = HeadDialog(queue))
    BY <2>1, <2>2, RelinkShape
  <2>4. Dlg(queue', wire', rx')
    BY <1>1, <2>1, <2>3 DEF Dlg, HeadSent
  <2> QED BY <1>0, <2>1, <2>4 DEF DlgInv
<1>6. ASSUME ModemAnswers PROVE DlgInv'
  <2>1. /\ wire # << >> /\ wire' = Tail(wire) /\ UNCHANGED <<queue, mon>> /\ mon # "stopped"
    BY <1>6 DEF ModemAnswers, DlgInv
  <2>2. HeadSent(queue) /\ wire = <<HeadDialog(queue)>> /\ rx = << >>
    BY <1>1, <2>1 DEF Dlg
  <2>3. wire' = << >> /\ Head(wire) = HeadDialog(queue)
    BY <2>1, <2>2
  <2>4. PICK r \in MayAnswer(HeadDialog(queue).res) :
          rx' = Append(rx, [HeadDialog(queue) EXCEPT !.res = r])
    BY <1>6, <2>1, <2>3 DEF ModemAnswers
  <2>5. rx' = <<[HeadDialog(queue) EXCEPT !.res = r]>>
    BY <2>2, <2>4
  <2>6. HeadSent(queue') /\ HeadDialog(queue') = HeadDialog(queue)
    BY <2>1, <2>2
  <2>7. Dlg(queue', wire', rx')
    BY <2>3, <2>5, <2>6 DEF Dlg
  <2> QED BY <1>0, <2>1, <2>7 DEF DlgInv
<1>7. ASSUME PvtStart PROVE DlgInv'
  <2>1. mon = "stopped" /\ mon' = "starting" /\ UNCHANGED <<queue, wire, rx>> /\ queue = << >>
    BY <1>7, <1>1 DEF PvtStart, IndInv, QueueInv
  <2> QED BY <1>0, <1>1, <2>1 DEF DlgInv
<1>8. ASSUME MonitorBegins PROVE DlgInv'
  <2>1. /\ mon = "starting" /\ mon' = "wait" /\ rx' = << >> /\ AddAndRun(SysChan, InitScript, FALSE)
    BY <1>8 DEF MonitorBegins
  <2>2. rx = << >>
    BY <2>1 DEF DlgInv, Dlg, HeadSent
  <2>3. SysChan \in Owners /\ IsScript(InitScript)
    BY QueueAssumption DEF Owners
  <2>4. Dlg(queue', wire', rx)
    BY <2>1, <2>3, InsertDlg
  <2> QED BY <1>0, <2>1, <2>2, <2>4 DEF DlgInv
<1>9. ASSUME ReadResult PROVE DlgInv'
  <2>1. /\ rx # << >> /\ rx' = Tail(rx) /\ mon' = "handled" /\ UNCHANGED wire
        /\ IF ResultTaken THEN RemoveCmd(queue, at_tasks, at_cmds, Head(rx).res) ELSE UNCHANGED qvars
    BY <1>9 DEF ReadResult
  <2>2. HeadSent(queue) /\ wire = << >> /\ queue # << >>
    BY <1>1, <2>1 DEF Dlg, HeadSent
  <2>3. PICK r \in MayAnswer(HeadDialog(queue).res) : rx = <<[HeadDialog(queue) EXCEPT !.res = r]>>
    BY <1>1, <2>1 DEF Dlg
  <2>4. rx' = << >> /\ Head(rx).res = r
    BY <2>1, <2>3 DEF HeadDialog
  <2>5. at_queue_task_cmd(Head(queue)) \in Cmd /\ HeadDialog(queue).res = at_queue_task_cmd(Head(queue)).res
    BY <1>1, <2>2, HeadCmdType DEF HeadDialog
  <2>6. ResultTaken
    BY <2>2, <2>3, <2>4, <2>5, AnswerTaken DEF ResultTaken
  <2>7. queue' = at_queue_remove_cmd(queue, r)
    BY <2>1, <2>4, <2>6 DEF RemoveCmd
  <2>8. ~HeadSent(queue')
    BY <1>1, <2>2, <2>7, RemoveShape
  <2> QED BY <1>0, <2>1, <2>2, <2>4, <2>8 DEF DlgInv, Dlg
<1>10. ASSUME QueueRun PROVE DlgInv'
  <2>1. RunSucceeds(queue, at_tasks, at_cmds) /\ mon' = "wait" /\ UNCHANGED rx
    BY <1>10 DEF QueueRun
  <2>2. Dlg(queue', wire', rx)
    BY <1>1, <2>1, RunDlg
  <2> QED BY <1>0, <2>1, <2>2 DEF DlgInv
<1>11. ASSUME ReadUrc \/ AtWaitExpires PROVE DlgInv'
  BY <1>0, <1>11 DEF ReadUrc, AtWaitExpires, DlgInv
<1>12. ASSUME Ping PROVE DlgInv'
  <2>1. /\ mon' = "wait" /\ UNCHANGED rx /\ SysChan \in Owners /\ IsScript(PingScript)
        /\ AddAndRun(SysChan, PingScript, TRUE) \/ AddAndFail(SysChan, PingScript, TRUE)
    BY <1>12, QueueAssumption DEF Ping, Owners
  <2>2. Dlg(queue', wire', rx)
    BY <2>1, InsertDlg
  <2> QED BY <1>0, <2>1, <2>2 DEF DlgInv
<1>13. ASSUME ReadFatal \/ MonitorEnds PROVE DlgInv'
  <2>1. queue' = << >> /\ wire' = << >> /\ rx' = << >> /\ mon' = "stopped"
    BY <1>13 DEF ReadFatal, MonitorEnds, Disconnect
  <2> QED BY <1>0, <2>1 DEF DlgInv, Dlg, HeadSent
<1>14. ASSUME UNCHANGED vars PROVE DlgInv'
  BY <1>0, <1>14 DEF vars, DlgInv
<1> QED BY <1>2, <1>3, <1>4, <1>5, <1>6, <1>7, <1>8, <1>9, <1>10, <1>11, <1>12, <1>13, <1>14
        DEF Next

(* As long as no thread uses the device before its monitor runs and a closed *)
(* device keeps quiet, the result code the monitor reads always belongs to   *)
(* the command at the head, and that command never loses its answer.         *)
THEOREM OneDialogue ==
  ASSUME ~EarlyUser, ~LateAnswers
  PROVE  Spec => [](ResultOwned /\ AnswerPending)
<1>1. Init => DlgInv
  BY InitIndInv, EmptyShape DEF Init, DlgInv, Dlg
<1>2. DlgInv /\ [Next]_vars => DlgInv'
  BY NextDlgInv
<1>3. DlgInv => ResultOwned /\ AnswerPending
  <2> SUFFICES ASSUME DlgInv PROVE ResultOwned /\ AnswerPending
    OBVIOUS
  <2>1. CASE ~HeadSent(queue)
    <3>1. wire = << >> /\ rx = << >>
      BY <2>1 DEF DlgInv, Dlg
    <3>2. Dialogs = << >>
      BY <3>1 DEF Dialogs
    <3> QED BY <2>1, <3>2 DEF ResultOwned, AnswerPending
  <2>2. CASE HeadSent(queue)
    <3>1. PICK d : /\ (wire = <<d>> /\ rx = << >>) \/ (wire = << >> /\ rx = <<d>>)
                   /\ d.serial = Head(queue).serial /\ d.index = Head(queue).cindex
      BY <2>2 DEF DlgInv, Dlg, HeadDialog
    <3>2. Dialogs = <<d>>
      <4>1. <<d>> \in Seq({d})
        OBVIOUS
      <4> QED BY <3>1, <4>1, ConcatEmptySeq DEF Dialogs
    <3>3. Len(Dialogs) = 1 /\ Dialogs[1] = d /\ Dialogs # << >>
      BY <3>2
    <3> QED BY <2>2, <3>1, <3>3 DEF ResultOwned, AnswerPending
  <2> QED BY <2>1, <2>2
<1> QED BY <1>1, <1>2, <1>3, PTL DEF Spec

(* A command that was written still has its answer to come: no answer is     *)
(* taken for another command or dropped (at_queue_remove_cmd, at_response),  *)
(* so the monitor never waits for one that has been.                         *)
THEOREM AnswerComes ==
  ASSUME ~EarlyUser, ~LateAnswers
  PROVE  Spec => []AnswerPending
<1>1. Spec => [](ResultOwned /\ AnswerPending)
  BY OneDialogue
<1> QED BY <1>1, PTL

-----------------------------------------------------------------------------
(* The queue implements the serial executor AtSerial.  The abstract state is *)
(* a function of the queue alone, so every operator of AtQueueOps is shown   *)
(* to change that view as one step of AtSerial: an insertion adds a waiting  *)
(* task, a write or an answer moves the executor.  That the tasks have       *)
(* different names is the invariant this needs beside the queue's shape.     *)

(* The tasks of q have different names, none of them above n or 0 *)
Named(q, n) ==
  /\ \A i, j \in 1 .. Len(q) : q[i].serial = q[j].serial => i = j
  /\ Serials(q) \subseteq 1 .. n

(* The abstract state as a function of the queue *)
BegunIn(q) == q # << >> /\ (Head(q).cindex > 0 \/ HeadSent(q))
Cur(q) == IF BegunIn(q) THEN Head(q).serial ELSE 0
Stp(q) == IF BegunIn(q) THEN Head(q).cindex + (IF HeadSent(q) THEN 1 ELSE 0) ELSE 0
Wtg(q) == Serials(q) \ {Cur(q)}

(* One step of the executor with the tasks w waiting, or none *)
Moves(w, c, s, w2, c2, s2) ==
  \/ w2 = w /\ c2 = c /\ s2 = s
  \/ c = 0 /\ (\E t \in w : c2 = t /\ w2 = w \ {t}) /\ s2 = 1
  \/ c # 0 /\ s2 = s + 1 /\ w2 = w /\ c2 = c
  \/ c # 0 /\ c2 = 0 /\ s2 = 0 /\ w2 = w
  \/ c = 0 /\ (\E t \in w : w2 = w \ {t}) /\ c2 = c /\ s2 = s

(* The queue becomes r where it was q *)
MovesTo(q, r) == Moves(Wtg(q), Cur(q), Stp(q), Wtg(r), Cur(r), Stp(r))

-----------------------------------------------------------------------------
(* Names of the tasks of a queue *)

(* The names in a queue are those of its head and of the tasks behind it. *)
LEMMA SerialsOfHead ==
  ASSUME NEW T, NEW q \in Seq(T), q # << >>
  PROVE  /\ Serials(q) = {Head(q).serial} \cup Serials(Tail(q))
         /\ \A n : Named(q, n) <=> /\ Named(Tail(q), n)
                                   /\ Head(q).serial \notin Serials(Tail(q))
                                   /\ Head(q).serial \in 1 .. n
<1>1. /\ Len(q) \in Nat \ {0} /\ Head(q) = q[1] /\ Len(Tail(q)) = Len(q) - 1
      /\ \A i \in 1 .. Len(Tail(q)) : Tail(q)[i] = q[i + 1]
  BY HeadTailProperties, EmptySeq
<1> DEFINE s == Tail(q)  n1 == Len(q)
<1>2. /\ 1 \in 1 .. n1 /\ \A i \in 1 .. Len(s) : i + 1 \in 1 .. n1 /\ q[i + 1] = s[i]
      /\ \A i \in 1 .. n1 : i = 1 \/ (i - 1 \in 1 .. Len(s) /\ s[i - 1] = q[i])
  <2>1. \A i \in 1 .. n1 : i # 1 => i - 1 \in 1 .. Len(s) /\ (i - 1) + 1 = i
    BY <1>1
  <2> QED BY <1>1, <2>1
<1> HIDE DEF s
<1>3. Serials(q) = {Head(q).serial} \cup Serials(s)
  <2>1. ASSUME NEW i \in 1 .. n1 PROVE q[i].serial \in {Head(q).serial} \cup Serials(s)
    BY <1>1, <1>2 DEF Serials
  <2>2. ASSUME NEW i \in 1 .. Len(s) PROVE s[i].serial \in Serials(q)
    BY <1>2 DEF Serials
  <2>3. Head(q).serial \in Serials(q)
    BY <1>1, <1>2 DEF Serials
  <2> QED BY <2>1, <2>2, <2>3 DEF Serials
<1>4. ASSUME NEW n PROVE Named(q, n) <=> /\ Named(s, n) /\ Head(q).serial \notin Serials(s)
                                         /\ Head(q).serial \in 1 .. n
  <2>1. ASSUME \A i, j \in 1 .. n1 : q[i].serial = q[j].serial => i = j
        PROVE  /\ \A i, j \in 1 .. Len(s) : s[i].serial = s[j].serial => i = j
               /\ Head(q).serial \notin Serials(s)
    <3>1. ASSUME NEW i \in 1 .. Len(s), NEW j \in 1 .. Len(s), s[i].serial = s[j].serial
          PROVE  i = j
      <4>1. i + 1 \in 1 .. n1 /\ j + 1 \in 1 .. n1 /\ q[i + 1] = s[i] /\ q[j + 1] = s[j]
        BY <1>2
      <4>2. i + 1 = j + 1
        BY <2>1, <3>1, <4>1
      <4> QED BY <4>2
    <3>2. ASSUME NEW i \in 1 .. Len(s) PROVE s[i].serial # Head(q).serial
      <4>1. i + 1 # 1
        BY <1>1
      <4> QED BY <1>1, <1>2, <2>1, <4>1
    <3> QED BY <3>1, <3>2 DEF Serials
  <2>2. ASSUME \A i, j \in 1 .. Len(s) : s[i].serial = s[j].serial => i = j,
               Head(q).serial \notin Serials(s),
               NEW i \in 1 .. n1, NEW j \in 1 .. n1, q[i].serial = q[j].serial
        PROVE  i = j
    <3>1. \A k \in 1 .. Len(s) : s[k].serial # Head(q).serial
      BY <2>2 DEF Serials
    <3>4. ASSUME NEW k \in 1 .. n1, k # 1 PROVE q[k].serial # q[1].serial
      <4>1. k - 1 \in 1 .. Len(s) /\ s[k - 1] = q[k]
        BY <1>2, <3>4
      <4>2. Head(q) = q[1]
        BY <1>1
      <4> QED BY <3>1, <4>1, <4>2
    <3>2. CASE i = 1 \/ j = 1
      BY <3>2, <3>4, <2>2
    <3>3. CASE i # 1 /\ j # 1
      <4>1. /\ i - 1 \in 1 .. Len(s) /\ j - 1 \in 1 .. Len(s)
            /\ s[i - 1].serial = s[j - 1].serial
        BY <1>2, <2>2, <3>3
      <4>2. i - 1 = j - 1
        BY <2>2, <4>1
      <4> QED BY <4>2
    <3> QED BY <3>2, <3>3
  <2> QED BY <1>3, <2>1, <2>2 DEF Named
<1> QED BY <1>3, <1>4 DEF s

(* Adding a task in front of a queue or at its end adds its name. *)
LEMMA SerialsOfAppend ==
  ASSUME NEW T, NEW q \in Seq(T), NEW e \in T
  PROVE  /\ Serials(Append(q, e)) = Serials(q) \cup {e.serial}
         /\ \A n : Named(q, n) /\ e.serial \notin Serials(q) /\ e.serial \in 1 .. n
                     => Named(Append(q, e), n)
<1> DEFINE r == Append(q, e)  m == Len(q)
<1>1. m \in Nat /\ Len(r) = m + 1 /\ r[m + 1] = e /\ \A i \in 1 .. m : r[i] = q[i]
  BY AppendProperties, LenProperties
<1>2. \A i \in 1 .. Len(r) : i = m + 1 \/ i \in 1 .. m
  BY <1>1
<1>3. m + 1 \in 1 .. Len(r) /\ \A i \in 1 .. m : i \in 1 .. Len(r)
  BY <1>1
<1> HIDE DEF r, m
<1>4. Serials(r) = Serials(q) \cup {e.serial}
  <2>1. ASSUME NEW i \in 1 .. Len(r) PROVE r[i].serial \in Serials(q) \cup {e.serial}
    BY <1>1, <1>2 DEF Serials, m
  <2>2. ASSUME NEW i \in 1 .. Len(q) PROVE q[i].serial \in Serials(r)
    BY <1>1, <1>3 DEF Serials, m
  <2>3. e.serial \in Serials(r)
    BY <1>1, <1>3 DEF Serials
  <2> QED BY <2>1, <2>2, <2>3 DEF Serials
<1>5. ASSUME NEW n, Named(q, n), e.serial \notin Serials(q), e.serial \in 1 .. n PROVE Named(r, n)
  <2>1. \A k \in 1 .. m : q[k].serial # e.serial
    BY <1>5 DEF Serials, m
  <2>2. ASSUME NEW i \in 1 .. Len(r), NEW j \in 1 .. Len(r), r[i].serial = r[j].serial PROVE i = j
    BY <1>1, <1>2, <1>5, <2>1, <2>2 DEF Named, m
  <2> QED BY <1>4, <1>5, <2>2 DEF Named
<1> QED BY <1>4, <1>5 DEF r

(* What is behind a task put in front of a queue. *)
LEMMA TailOfCons ==
  ASSUME NEW T, NEW q \in Seq(T), NEW e
  PROVE  <<e>> \o q # << >> /\ Head(<<e>> \o q) = e /\ Tail(<<e>> \o q) = q
<1> DEFINE r == <<e>> \o q  U == T \cup {e}
<1>1. <<e>> \in Seq(U) /\ Len(<<e>>) = 1 /\ <<e>>[1] = e
  OBVIOUS
<1>2. q \in Seq(U)
  BY SeqMonotonic
<1> HIDE DEF U
<1>3. /\ r \in Seq(U) /\ Len(r) = Len(q) + 1 /\ Len(q) \in Nat
      /\ \A i \in 1 .. Len(q) + 1 : r[i] = IF i <= 1 THEN e ELSE q[i - 1]
  BY <1>1, <1>2, ConcatProperties, LenProperties
<1>4. r # << >> /\ Head(r) = e
  BY <1>3, EmptySeq, HeadTailProperties
<1>5. /\ Tail(r) \in Seq(U) /\ Len(Tail(r)) = Len(q)
      /\ \A i \in 1 .. Len(Tail(r)) : Tail(r)[i] = r[i + 1]
  BY <1>3, <1>4, HeadTailProperties
<1>6. \A i \in 1 .. Len(q) : Tail(r)[i] = q[i]
  BY <1>5, <1>3
<1>7. Tail(r) = q
  BY <1>2, <1>5, <1>6, SeqEqual
<1> QED BY <1>4, <1>7

(* The names of a queue with a new task in front. *)
LEMMA SerialsOfCons ==
  ASSUME NEW T, NEW q \in Seq(T), NEW e \in T
  PROVE  /\ Serials(<<e>> \o q) = {e.serial} \cup Serials(q)
         /\ \A n : Named(<<e>> \o q, n) <=> /\ Named(q, n) /\ e.serial \notin Serials(q)
                                            /\ e.serial \in 1 .. n
<1> DEFINE r == <<e>> \o q
<1>1. <<e>> \in Seq(T) /\ Len(<<e>>) = 1 /\ <<e>>[1] = e
  OBVIOUS
<1>2. r \in Seq(T)
  BY <1>1, ConcatProperties
<1>3. r # << >> /\ Head(r) = e /\ Tail(r) = q
  BY TailOfCons
<1> HIDE DEF r
<1>5. /\ Serials(r) = {Head(r).serial} \cup Serials(Tail(r))
      /\ \A n : Named(r, n) <=> /\ Named(Tail(r), n) /\ Head(r).serial \notin Serials(Tail(r))
                                /\ Head(r).serial \in 1 .. n
  BY <1>2, <1>3, SerialsOfHead
<1>6. /\ Serials(r) = {e.serial} \cup Serials(q)
      /\ \A n : Named(r, n) <=> /\ Named(q, n) /\ e.serial \notin Serials(q)
                                /\ e.serial \in 1 .. n
  BY <1>3, <1>5
<1> QED BY <1>6 DEF r

-----------------------------------------------------------------------------
(* The operators of AtQueueOps as steps of the executor *)

(* What a queue of the right shape looks like to AtSerial. *)
LEMMA View ==
  ASSUME NEW A, NEW n, NEW q, Shape(q, A), Named(q, n)
  PROVE  /\ ~BegunIn(q) => Cur(q) = 0 /\ Stp(q) = 0 /\ Wtg(q) = Serials(q)
         /\ BegunIn(q) => /\ q # << >> /\ Cur(q) = Head(q).serial /\ Cur(q) # 0
                          /\ Wtg(q) = Serials(Tail(q))
                          /\ Stp(q) = Head(q).cindex + (IF HeadSent(q) THEN 1 ELSE 0)
<1>1. CASE ~BegunIn(q)
  <2>1. 0 \notin Serials(q)
    BY DEF Named
  <2> QED BY <1>1, <2>1 DEF Cur, Stp, Wtg
<1>2. CASE BegunIn(q)
  <2>1. q # << >> /\ q \in Seq(TaskOf(A))
    BY <1>2 DEF BegunIn, Shape
  <2>2. /\ Serials(q) = {Head(q).serial} \cup Serials(Tail(q))
        /\ Head(q).serial \notin Serials(Tail(q)) /\ Head(q).serial \in 1 .. n
    BY <2>1, SerialsOfHead
  <2>3. Head(q).serial # 0
    BY <2>2
  <2> QED BY <1>2, <2>1, <2>2, <2>3 DEF Cur, Stp, Wtg
<1> QED BY <1>1, <1>2

(* Tasks behind the head have not begun. *)
LEMMA FreshNotBegun ==
  ASSUME NEW A, NEW s \in Seq(FreshTask(A))
  PROVE  ~BegunIn(s)
<1>1. s # << >> => Head(s) \in FreshTask(A)
  BY HeadTailProperties
<1>2. ~HeadSent(s)
  BY FreshShape
<1> QED BY <1>1, <1>2 DEF BegunIn, FreshTask

(* at_queue_add adds a waiting task and nothing else. *)
LEMMA AddView ==
  ASSUME NEW A, NEW n \in Nat, NEW q, Shape(q, A), Named(q, n), NEW e \in FreshTask(A),
         e.serial = n + 1, NEW prio \in BOOLEAN
  PROVE  LET r == at_queue_add(q, e, prio)
         IN  /\ Named(r, n + 1) /\ Wtg(r) = Wtg(q) \cup {e.serial}
             /\ Cur(r) = Cur(q) /\ Stp(r) = Stp(q)
<1> DEFINE r == at_queue_add(q, e, prio)
<1>1. /\ q \in Seq(TaskOf(A)) /\ e \in TaskOf(A) /\ Serials(q) \subseteq 1 .. n
      /\ e.serial \notin Serials(q) /\ e.serial \in 1 .. n + 1 /\ Named(q, n + 1)
  BY DEF Shape, FreshTask, Named
<1>2. Shape(r, A) /\ r # << >> /\ Head(r) = IF q = << >> THEN e ELSE Head(q)
  BY AddShape
<1>3. Named(r, n + 1) /\ Serials(r) = Serials(q) \cup {e.serial}
  <2>1. CASE prio /\ q # << >>
    <3> DEFINE s == Tail(q)  es == <<e>> \o s
    <3>1. /\ Head(q) \in TaskOf(A) /\ s \in Seq(TaskOf(A))
          /\ Serials(q) = {Head(q).serial} \cup Serials(s)
          /\ Named(s, n + 1) /\ Head(q).serial \notin Serials(s) /\ Head(q).serial \in 1 .. n + 1
      BY <1>1, <2>1, SerialsOfHead, HeadTailProperties
    <3> HIDE DEF s
    <3>2. es \in Seq(TaskOf(A))
      BY <1>1, <3>1, ConcatProperties, <<e>> \in Seq(TaskOf(A))
    <3>3. Serials(es) = {e.serial} \cup Serials(s) /\ Named(es, n + 1)
      BY <1>1, <3>1, SerialsOfCons
    <3>4. r = <<Head(q)>> \o es
      BY <2>1 DEF at_queue_add, s
    <3>5. Head(q).serial \notin Serials(es)
      BY <1>1, <3>1, <3>3
    <3> HIDE DEF es, r
    <3>6. Serials(r) = {Head(q).serial} \cup Serials(es) /\ Named(r, n + 1)
      BY <3>1, <3>2, <3>3, <3>4, <3>5, SerialsOfCons
    <3> QED BY <3>1, <3>3, <3>6
  <2>2. CASE ~(prio /\ q # << >>)
    <3>1. r = Append(q, e)
      BY <2>2 DEF at_queue_add
    <3> QED BY <1>1, <3>1, SerialsOfAppend
  <2> QED BY <2>1, <2>2
<1> HIDE DEF r
<1>4. CASE q = << >>
  <2>1. ~HeadSent(r) /\ e.cindex = 0
    <3>1. <<e>> \in Seq(FreshTask(A)) /\ Head(<<e>>) = e /\ <<e>> # << >>
      OBVIOUS
    <3>2. ~HeadSent(<<e>>)
      BY <3>1, FreshShape
    <3> QED BY <1>2, <1>4, <3>1, <3>2 DEF HeadSent, FreshTask
  <2>2. ~BegunIn(r) /\ ~BegunIn(q)
    BY <1>2, <1>4, <2>1 DEF BegunIn
  <2> QED BY <1>2, <1>3, <2>2, View DEF r
<1>5. CASE q # << >>
  <2>1. (HeadSent(r) <=> HeadSent(q)) /\ (BegunIn(r) <=> BegunIn(q)) /\ Head(r) = Head(q)
    BY <1>2, <1>5 DEF HeadSent, BegunIn
  <2>2. Cur(r) = Cur(q) /\ Stp(r) = Stp(q)
    BY <2>1 DEF Cur, Stp
  <2>3. e.serial # Cur(q)
    <3>1. CASE BegunIn(q)
      <4>1. Cur(q) \in Serials(q)
        BY <1>1, <1>5, <3>1, View, SerialsOfHead
      <4> QED BY <1>1, <4>1
    <3>2. CASE ~BegunIn(q)
      BY <3>2 DEF Cur
    <3> QED BY <3>1, <3>2
  <2> QED BY <1>3, <2>2, <2>3 DEF Wtg, r
<1> QED BY <1>4, <1>5

(* A successful write begins the task at the head or goes on with it. *)
LEMMA MarkView ==
  ASSUME NEW A, NEW n, NEW q, Shape(q, A), Named(q, n), HeadUnsent(q)
  PROVE  Named(MarkSent(q), n) /\ MovesTo(q, MarkSent(q))
<1> DEFINE r == MarkSent(q)
<1>1. q # << >> /\ ~HeadSent(q) /\ q \in Seq(TaskOf(A))
  BY DEF HeadUnsent, HeadSent, Shape
<1>2. /\ Shape(r, A) /\ r # << >> /\ HeadSent(r) /\ HeadDialog(r) = HeadDialog(q)
  BY <1>1, MarkShape
<1>3. Head(r).serial = Head(q).serial /\ Head(r).cindex = Head(q).cindex
  BY <1>2 DEF HeadDialog
<1>4. Tail(r) = Tail(q)
  <2> DEFINE t == [Head(q) EXCEPT !.cmds[Head(q).cindex + 1].sent = TRUE]
  <2>1. r = <<t>> \o Tail(q)
    BY DEF MarkSent
  <2> HIDE DEF t
  <2>2. Tail(q) \in Seq(TaskOf(A))
    BY <1>1, HeadTailProperties
  <2> QED BY <2>1, <2>2, TailOfCons
<1>5. r \in Seq(TaskOf(A))
  BY <1>2 DEF Shape
<1> HIDE DEF r
<1>6. Named(r, n) /\ Serials(r) = Serials(q)
  BY <1>1, <1>2, <1>3, <1>4, <1>5, SerialsOfHead
<1>7. BegunIn(r) /\ Cur(r) = Head(q).serial /\ Wtg(r) = Serials(Tail(q)) /\ Stp(r) = Head(q).cindex + 1
  <2>1. BegunIn(r)
    BY <1>2 DEF BegunIn
  <2> QED BY <2>1, <1>2, <1>3, <1>4, <1>6, View
<1>8. Head(q).cindex \in Nat
  BY <1>1, HeadCmdType DEF Task
<1>9. CASE BegunIn(q)
  <2>1. Cur(q) = Head(q).serial /\ Cur(q) # 0 /\ Wtg(q) = Serials(Tail(q)) /\ Stp(q) = Head(q).cindex
    BY <1>1, <1>8, <1>9, View
  <2> QED BY <1>6, <1>7, <2>1 DEF MovesTo, Moves, r
<1>10. CASE ~BegunIn(q)
  <2>1. Head(q).cindex = 0
    BY <1>1, <1>8, <1>10 DEF BegunIn
  <2>2. Cur(q) = 0 /\ Stp(q) = 0 /\ Wtg(q) = Serials(q)
    BY <1>10, View
  <2>3. /\ Serials(q) = {Head(q).serial} \cup Serials(Tail(q))
        /\ Head(q).serial \notin Serials(Tail(q))
    BY <1>1, SerialsOfHead
  <2>4. Head(q).serial \in Wtg(q) /\ Wtg(r) = Wtg(q) \ {Head(q).serial} /\ Stp(r) = 1
    BY <1>7, <2>1, <2>2, <2>3
  <2> QED BY <1>6, <1>7, <2>2, <2>4 DEF MovesTo, Moves, r
<1> QED BY <1>9, <1>10

(* An answer, or a write that fails, moves the task at the head on, ends it  *)
(* or drops it before it has begun.                                          *)
LEMMA RemoveView ==
  ASSUME NEW A, NEW n, NEW q, Shape(q, A), Named(q, n), q # << >>, NEW res
  PROVE  LET r == at_queue_remove_cmd(q, res)
         IN  Named(r, n) /\ MovesTo(q, r)
<1> DEFINE r == at_queue_remove_cmd(q, res)
           h == Head(q)
           t == [h EXCEPT !.cindex = @ + 1]
<1>1. /\ q \in Seq(TaskOf(A)) /\ Tail(q) \in Seq(FreshTask(A)) /\ Tail(q) \in Seq(TaskOf(A))
      /\ h \in Task
  BY HeadCmdType, HeadTailProperties DEF Shape
<1>2. /\ Serials(q) = {h.serial} \cup Serials(Tail(q)) /\ Named(Tail(q), n)
      /\ h.serial \notin Serials(Tail(q)) /\ h.serial \in 1 .. n
  BY <1>1, SerialsOfHead
<1>3. Shape(r, A) /\ ~HeadSent(r)
  BY RemoveShape
<1>4. h.cindex \in Nat
  BY <1>1 DEF Task
<1>5. BegunIn(q) => /\ Cur(q) = h.serial /\ Cur(q) # 0 /\ Wtg(q) = Serials(Tail(q))
                    /\ Stp(q) = h.cindex + (IF HeadSent(q) THEN 1 ELSE 0)
  BY View
<1>6. ~BegunIn(q) => Cur(q) = 0 /\ Stp(q) = 0 /\ Wtg(q) = Serials(q) /\ h.cindex = 0
  BY <1>4, View DEF BegunIn
<1>7. CASE TaskEnds(h, res)
  <2>1. r = Tail(q)
    BY <1>7 DEF at_queue_remove_cmd
  <2> HIDE DEF r, h
  <2>2. ~BegunIn(r)
    BY <1>1, <2>1, FreshNotBegun
  <2>3. Cur(r) = 0 /\ Stp(r) = 0 /\ Wtg(r) = Serials(Tail(q))
    BY <1>2, <1>3, <2>1, <2>2, View
  <2>4. CASE BegunIn(q)
    BY <1>2, <1>5, <2>1, <2>3, <2>4 DEF MovesTo, Moves, r
  <2>5. CASE ~BegunIn(q)
    <3>1. h.serial \in Wtg(q) /\ Wtg(r) = Wtg(q) \ {h.serial}
      BY <1>2, <1>6, <2>3, <2>5
    <3> QED BY <1>2, <1>6, <2>1, <2>3, <2>5, <3>1 DEF MovesTo, Moves, r
  <2> QED BY <2>4, <2>5
<1>8. CASE ~TaskEnds(h, res)
  <2>1. r = <<t>> \o Tail(q)
    BY <1>8 DEF at_queue_remove_cmd
  <2>2. t.serial = h.serial /\ t.cindex = h.cindex + 1
    BY <1>1 DEF Task
  <2> HIDE DEF t, r, h
  <2>3. r # << >> /\ Head(r) = t /\ Tail(r) = Tail(q)
    BY <1>1, <2>1, TailOfCons
  <2>4. r \in Seq(TaskOf(A))
    BY <1>3 DEF Shape
  <2>5. Named(r, n)
    BY <1>2, <2>2, <2>3, <2>4, SerialsOfHead
  <2>6. BegunIn(r)
    BY <1>4, <2>2, <2>3 DEF BegunIn
  <2>7. Cur(r) = h.serial /\ Cur(r) # 0 /\ Wtg(r) = Serials(Tail(q)) /\ Stp(r) = h.cindex + 1
    <3>1. /\ Cur(r) = Head(r).serial /\ Cur(r) # 0 /\ Wtg(r) = Serials(Tail(r))
          /\ Stp(r) = Head(r).cindex + (IF HeadSent(r) THEN 1 ELSE 0)
      BY <1>3, <2>5, <2>6, View
    <3>2. Stp(r) = Head(r).cindex + 0
      BY <1>3, <3>1, Zenon
    <3>3. Head(r).cindex = h.cindex + 1 /\ Head(r).serial = h.serial
      BY <2>2, <2>3
    <3>4. Stp(r) = h.cindex + 1
      BY <1>4, <3>2, <3>3
    <3> QED BY <2>3, <3>1, <3>3, <3>4
  <2>8. CASE BegunIn(q)
    BY <1>4, <1>5, <2>5, <2>7, <2>8 DEF MovesTo, Moves, r
  <2>9. CASE ~BegunIn(q)
    <3>1. /\ h.serial \in Wtg(q) /\ Wtg(r) = Wtg(q) \ {h.serial} /\ Stp(r) = 1
      BY <1>2, <1>6, <2>7, <2>9
    <3> QED BY <1>6, <2>5, <2>7, <2>9, <3>1 DEF MovesTo, Moves, r
  <2> QED BY <2>8, <2>9
<1> QED BY <1>7, <1>8

(* Relinking the tasks of a dying call changes no name and no order. *)
LEMMA RelinkView ==
  ASSUME NEW A, NEW n, NEW q, Shape(q, A), Named(q, n), NEW D, NEW B, Survive(A, D, B)
  PROVE  LET r == Relink(q, D, SysChan)
         IN  Named(r, n) /\ MovesTo(q, r)
<1> DEFINE r == Relink(q, D, SysChan)
<1>1. q \in Seq(TaskOf(A)) /\ \A i \in 1 .. Len(q) : q[i] \in TaskOf(A)
  BY ElementOfSeq DEF Shape
<1>2. /\ Shape(r, B) /\ Len(r) = Len(q) /\ (HeadSent(r) <=> HeadSent(q))
      /\ q # << >> => HeadDialog(r) = HeadDialog(q)
  BY RelinkShape
<1>3. \A i \in 1 .. Len(q) : r[i].serial = q[i].serial
  BY <1>1 DEF Relink, TaskOf, Task
<1> HIDE DEF r
<1>4. Named(r, n) /\ Serials(r) = Serials(q)
  BY <1>2, <1>3 DEF Named, Serials
<1>5. q # << >> => Head(r).serial = Head(q).serial /\ Head(r).cindex = Head(q).cindex
  BY <1>2 DEF HeadDialog
<1>6. r = << >> <=> q = << >>
  BY <1>1, <1>2, EmptySeq DEF Shape
<1>7. (BegunIn(r) <=> BegunIn(q)) /\ Cur(r) = Cur(q) /\ Stp(r) = Stp(q)
  BY <1>2, <1>5, <1>6 DEF BegunIn, Cur, Stp
<1> QED BY <1>4, <1>7 DEF Wtg, MovesTo, Moves, r

(* at_queue_run, whether the write succeeds or fails. *)
LEMMA RunView ==
  ASSUME NEW A, NEW n, NEW q, Shape(q, A), Named(q, n), NEW nt, NEW nc,
         RunSucceeds(q, nt, nc) \/ RunFails(q, nt, nc)
  PROVE  Named(queue', n) /\ MovesTo(q, queue')
<1>1. CASE RunIdle(q, nt, nc)
  BY <1>1 DEF RunIdle, MovesTo, Moves
<1>2. CASE RunWrites(q, nt, nc)
  BY <1>2, MarkView DEF RunWrites
<1>3. CASE RunFails(q, nt, nc)
  BY <1>3, RemoveView DEF RunFails, RemoveCmd, HeadUnsent
<1> QED BY <1>1, <1>2, <1>3 DEF RunSucceeds

-----------------------------------------------------------------------------
(* Every step of AtQueue is a step of AtSerial or none *)

(* The abstract variables are the view of the queue. *)
LEMMA ViewOfQueue ==
  /\ Serials(queue) \ {CurrentTask} = Wtg(queue) /\ CurrentTask = Cur(queue)
  /\ CurrentStep = Stp(queue)
  /\ (Serials(queue) \ {CurrentTask})' = Wtg(queue') /\ CurrentTask' = Cur(queue')
  /\ CurrentStep' = Stp(queue')
  BY DEF CurrentTask, CurrentStep, Begun, Wtg, Cur, Stp, BegunIn, Serials, HeadSent

(* The executor moves while w is waiting: it waits, begins, goes on, ends or *)
(* drops a task.                                                             *)
LEMMA Progresses ==
  ASSUME NEW w, Moves(w, Cur(queue), Stp(queue), Wtg(queue'), Cur(queue'), Stp(queue'))
  PROVE  Serial!Progress(w)
  BY ViewOfQueue
  DEF Moves, Serial!Progress, Serial!Wait, Serial!Begin, Serial!Continue, Serial!Finish, Serial!Drop

(* An insertion, with the at_queue_run that follows it. *)
LEMMA InsertView ==
  ASSUME IndInv, Named(queue, serial), NEW owner \in Owners, NEW script, IsScript(script),
         NEW prio \in BOOLEAN, AddAndRun(owner, script, prio) \/ AddAndFail(owner, script, prio)
  PROVE  Serial!Next /\ Named(queue', serial')
<1> DEFINE e == NewTask(owner, script)
           q == at_queue_add(queue, e, prio)
<1>1. /\ e \in FreshTask(Owners) /\ e.serial = serial + 1 /\ Shape(queue, Owners) /\ serial \in Nat
  BY NewTaskFresh DEF IndInv, Types, QueueInv, NewTask
<1>2. serial < MaxTasks /\ serial' = serial + 1
      /\ \E nt, nc : RunSucceeds(q, nt, nc) \/ RunFails(q, nt, nc)
  BY DEF AddAndRun, AddAndFail
<1> HIDE DEF e
<1>3. Shape(q, Owners)
  BY <1>1, AddShape
<1>4. /\ Named(q, serial + 1) /\ Wtg(q) = Wtg(queue) \cup {e.serial}
      /\ Cur(q) = Cur(queue) /\ Stp(q) = Stp(queue)
  BY <1>1, AddView
<1> HIDE DEF q
<1>5. Named(queue', serial + 1) /\ MovesTo(q, queue')
  BY <1>2, <1>3, <1>4, RunView
<1>6. Serial!Progress(Wtg(queue) \cup {serial + 1})
  BY <1>1, <1>4, <1>5, Progresses DEF MovesTo
<1>7. serial + 1 \in (1 .. MaxTasks) \ (Wtg(queue) \cup {Cur(queue)})
  <2>1. serial + 1 \in 1 .. MaxTasks
    BY <1>1, <1>2, QueueAssumption
  <2>2. serial + 1 \notin Serials(queue)
    BY <1>1 DEF Named
  <2>3. serial + 1 # Cur(queue)
    <3>1. CASE BegunIn(queue)
      <4>1. Cur(queue) = Head(queue).serial /\ queue # << >> /\ queue \in Seq(TaskOf(Owners))
        BY <1>1, <3>1, View DEF Shape
      <4>2. Cur(queue) \in Serials(queue)
        BY <4>1, SerialsOfHead
      <4> QED BY <2>2, <4>2
    <3>2. CASE ~BegunIn(queue)
      BY <1>1, <3>2 DEF Cur
    <3> QED BY <3>1, <3>2
  <2> QED BY <2>1, <2>2, <2>3 DEF Wtg
<1>8. Serial!Accept
  BY <1>6, <1>7, ViewOfQueue DEF Serial!Accept
<1> QED BY <1>2, <1>5, <1>8 DEF Serial!Next

(* A step that inserts nothing. *)
LEMMA MoveView ==
  ASSUME MovesTo(queue, queue')
  PROVE  Serial!Next
<1>1. Serial!Progress(Wtg(queue))
  BY Progresses DEF MovesTo
<1> QED BY <1>1, ViewOfQueue DEF Serial!Next

SerialInv == IndInv /\ Named(queue, serial)

(* Every step keeps the names apart and is a step of the executor. *)
LEMMA NextSerial ==
  ASSUME SerialInv, [Next]_vars
  PROVE  SerialInv' /\ [Serial!Next]_(Serial!svars)
<1>0. IndInv /\ IndInv' /\ Shape(queue, Owners) /\ Named(queue, serial) /\ live \subseteq Cpvt
  BY NextIndInv DEF SerialInv, IndInv, QueueInv, Types
<1> SUFFICES Named(queue', serial') /\ Serial!Next
  BY <1>0 DEF SerialInv
<1>1. ASSUME NEW o \in Cpvt \cup {SysChan}, NEW s \in Scripts, NEW p \in BOOLEAN, Insert(o, s, p)
      PROVE  Named(queue', serial') /\ Serial!Next
  <2>1. o \in Owners /\ IsScript(s) /\ (AddAndRun(o, s, p) \/ AddAndFail(o, s, p))
    BY <1>1, QueueAssumption DEF Insert, Owners
  <2> QED BY <1>0, <2>1, InsertView
<1>2. ASSUME InsertNoMemory PROVE Named(queue', serial') /\ Serial!Next
  <2>1. serial' = serial /\ (RunSucceeds(queue, at_tasks, at_cmds) \/ RunFails(queue, at_tasks, at_cmds))
    BY <1>2 DEF InsertNoMemory
  <2> QED BY <1>0, <2>1, RunView, MoveView
<1>3. ASSUME UNCHANGED <<queue, serial>> PROVE Named(queue', serial') /\ Serial!Next
  <2>1. MovesTo(queue, queue')
    BY <1>3 DEF MovesTo, Moves
  <2> QED BY <1>0, <1>3, <2>1, MoveView
<1>4. ASSUME NEW c \in Cpvt, CpvtFree(c) PROVE Named(queue', serial') /\ Serial!Next
  <2>1. queue' = Relink(queue, {c}, SysChan) /\ serial' = serial
    BY <1>4 DEF CpvtFree
  <2>2. Survive(Owners, {c}, Cpvt \cup {SysChan})
    BY <1>0 DEF Owners, Survive
  <2>3. Named(queue', serial) /\ MovesTo(queue, queue')
    BY <1>0, <2>1, <2>2, RelinkView
  <2> QED BY <2>1, <2>3, MoveView
<1>5. ASSUME MonitorBegins PROVE Named(queue', serial') /\ Serial!Next
  <2>1. SysChan \in Owners /\ IsScript(InitScript) /\ AddAndRun(SysChan, InitScript, FALSE)
    BY <1>5, QueueAssumption DEF MonitorBegins, Owners
  <2> QED BY <1>0, <2>1, InsertView
<1>6. ASSUME ReadResult PROVE Named(queue', serial') /\ Serial!Next
  <2>1. serial' = serial
    BY <1>6 DEF ReadResult
  <2>2. CASE ResultTaken
    <3>1. queue # << >> /\ queue' = at_queue_remove_cmd(queue, Head(rx).res)
      BY <1>6, <2>2 DEF ReadResult, ResultTaken, RemoveCmd
    <3> QED BY <1>0, <2>1, <3>1, RemoveView, MoveView
  <2>3. CASE ~ResultTaken
    BY <1>3, <1>6, <2>1, <2>3 DEF ReadResult, qvars
  <2> QED BY <2>2, <2>3
<1>7. ASSUME QueueRun PROVE Named(queue', serial') /\ Serial!Next
  <2>1. serial' = serial /\ RunSucceeds(queue, at_tasks, at_cmds)
    BY <1>7 DEF QueueRun
  <2> QED BY <1>0, <2>1, RunView, MoveView
<1>8. ASSUME Ping PROVE Named(queue', serial') /\ Serial!Next
  <2>1. SysChan \in Owners /\ IsScript(PingScript)
        /\ (AddAndRun(SysChan, PingScript, TRUE) \/ AddAndFail(SysChan, PingScript, TRUE))
    BY <1>8, QueueAssumption DEF Ping, Owners
  <2> QED BY <1>0, <2>1, InsertView
<1>9. ASSUME ReadFatal \/ MonitorEnds PROVE Named(queue', serial') /\ Serial!Next
  <2>1. queue' = << >> /\ serial' = serial
    BY <1>9 DEF ReadFatal, MonitorEnds, Disconnect
  <2>2. ~BegunIn(queue') /\ Serials(queue') = {} /\ Named(queue', serial')
    BY <2>1, EmptySeq DEF BegunIn, Serials, Named
  <2>3. Wtg(queue') = {} /\ Cur(queue') = 0 /\ Stp(queue') = 0
    BY <2>2 DEF Wtg, Cur, Stp
  <2>4. Serial!Reset
    BY <2>3, ViewOfQueue DEF Serial!Reset
  <2> QED BY <2>2, <2>4 DEF Serial!Next
<1>10. CASE \/ UNCHANGED vars \/ ModemAnswers \/ PvtStart \/ ReadUrc \/ AtWaitExpires
            \/ \E c \in Cpvt : CpvtAlloc(c)
  <2>1. UNCHANGED <<queue, serial>>
    BY <1>10 DEF vars, ModemAnswers, PvtStart, ReadUrc, AtWaitExpires, CpvtAlloc
  <2> QED BY <1>3, <2>1
<1> QED BY <1>1, <1>2, <1>4, <1>5, <1>6, <1>7, <1>8, <1>9, <1>10 DEF Next

(* The queue executes one task at a time, each from its first command to its *)
(* end with nobody else's command in between, whatever threads insert, the   *)
(* modem answers and the writes do (at_queue_add, at_queue_run,              *)
(* at_queue_remove_cmd).                                                     *)
THEOREM QueueIsSerial == Spec => ImplementsSerial
<1>1. Init => Serial!Init
  <2> SUFFICES ASSUME Init PROVE Serial!Init
    OBVIOUS
  <2>1. ~BegunIn(queue) /\ Serials(queue) = {}
    BY EmptySeq DEF Init, BegunIn, Serials
  <2>2. Wtg(queue) = {} /\ Cur(queue) = 0 /\ Stp(queue) = 0
    BY <2>1 DEF Wtg, Cur, Stp
  <2> QED BY <2>2, ViewOfQueue DEF Serial!Init
<1>2. Init => SerialInv
  <2> SUFFICES ASSUME Init PROVE SerialInv
    OBVIOUS
  <2>1. Len(queue) = 0
    BY EmptySeq DEF Init
  <2>2. Named(queue, serial)
    BY <2>1 DEF Named, Serials
  <2> QED BY <2>2, InitIndInv DEF SerialInv
<1>3. SerialInv /\ [Next]_vars => SerialInv' /\ [Serial!Next]_(Serial!svars)
  BY NextSerial
<1> QED BY <1>1, <1>2, <1>3, PTL DEF Spec, ImplementsSerial, Serial!Spec
=============================================================================
