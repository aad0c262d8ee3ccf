---------------------------- MODULE CallOpsProofs ---------------------------
(***************************************************************************)
(* What the functions of CallOps keep true of the calls of one device, for *)
(* any number of calls and any indices:                                    *)
(*   Cells     every struct cpvt has its fields;                           *)
(*   Listed    the list has each call once, and chansno is its length;     *)
(*   Counts    chan_count[] counts the calls of the list by their state;   *)
(*   Masters   one call at most is MASTER, and it polls the audio port;    *)
(*   Tasks     the queue's tasks belong to calls of the list, an ATD to an *)
(*             outgoing one;                                               *)
(*   LastDial  last_dialed_cpvt is an outgoing call of the list.           *)
(* Each lemma takes a device for which these hold to one for which they    *)
(* do.  They are the steps of the proofs about the modules that use        *)
(* CallOps.                                                                *)
(***************************************************************************)
EXTENDS CallOps, TLAPS, SequenceTheorems, FiniteSetTheorems, WellFoundedInduction

-----------------------------------------------------------------------------
(* Sequences and sets *)

(* A nonempty set of natural numbers has a least element. *)
LEMMA MinIn ==
  ASSUME NEW S \in SUBSET Nat, S # {}
  PROVE  Min(S) \in S
<1> DEFINE R == OpToRel(<, Nat)
<1>1. \A x, y \in Nat : x < y => <<x, y>> \in R
  BY DEF OpToRel
<1>2. IsWellFoundedOn(R, Nat)
  BY NatLessThanWellFounded, Zenon
<1> HIDE DEF R
<1>3. PICK x \in S : \A y \in S : ~(<<y, x>> \in R)
  <2>1. S \subseteq Nat /\ S # {}
    OBVIOUS
  <2> QED BY <2>1, <1>2, WFMin, Zenon
<1>4. \A y \in S : x <= y
  <2>1. \A y \in S : x \in Nat /\ y \in Nat /\ ~(y < x)
    BY <1>1, <1>3, Zenon
  <2> QED BY <2>1
<1> QED BY <1>4 DEF Min

(* The elements of a sequence, and how they change. *)
LEMMA RangeOfAppend ==
  ASSUME NEW S, NEW s \in Seq(S), NEW e, IsInjective(s), e \notin Range(s)
  PROVE  Range(Append(s, e)) = Range(s) \cup {e} /\ IsInjective(Append(s, e))
<1>1. /\ Len(s) \in Nat /\ DOMAIN s = 1 .. Len(s) /\ DOMAIN Append(s, e) = 1 .. Len(s) + 1
      /\ Append(s, e)[Len(s) + 1] = e /\ \A i \in 1 .. Len(s) : Append(s, e)[i] = s[i]
  OBVIOUS
<1> DEFINE r == Append(s, e)  n == Len(s)
<1>2. \A i \in DOMAIN r : i = n + 1 \/ i \in 1 .. n
  BY <1>1
<1>3. n + 1 \in DOMAIN r /\ \A i \in 1 .. n : i \in DOMAIN r
  BY <1>1
<1> HIDE DEF r, n
<1>4. Range(r) = Range(s) \cup {e}
  <2>1. ASSUME NEW i \in DOMAIN r PROVE r[i] \in Range(s) \cup {e}
    BY <1>1, <1>2 DEF Range, r, n
  <2>2. ASSUME NEW i \in DOMAIN s PROVE s[i] \in Range(r)
    BY <1>1, <1>3 DEF Range, r, n
  <2>3. e \in Range(r)
    BY <1>1, <1>3 DEF Range, r, n
  <2> QED BY <2>1, <2>2, <2>3 DEF Range
<1>5. IsInjective(r)
  <2>1. \A i \in 1 .. n : s[i] # e
    BY <1>1 DEF Range, n
  <2> QED BY <1>1, <1>2, <2>1 DEF IsInjective, r, n
<1> QED BY <1>4, <1>5 DEF r

(* AST_LIST_REMOVE takes away the entry and nothing else. *)
LEMMA RemoveFirstProperties ==
  ASSUME NEW S, NEW s \in Seq(S), IsInjective(s), NEW e \in Range(s)
  PROVE  /\ RemoveFirst(s, e) \in Seq(S) /\ IsInjective(RemoveFirst(s, e))
         /\ Range(RemoveFirst(s, e)) = Range(s) \ {e} /\ Len(RemoveFirst(s, e)) = Len(s) - 1
<1> DEFINE n == Len(s)
           I == {i \in 1 .. Len(s) : s[i] = e}
           k == Min(I)
           r == RemoveFirst(s, e)
<1>1. n \in Nat /\ DOMAIN s = 1 .. n /\ \A i \in 1 .. n : s[i] \in S
  BY LenProperties, ElementOfSeq
<1>2. k \in 1 .. n /\ s[k] = e
  <2>1. I \in SUBSET Nat /\ I # {}
    BY <1>1 DEF Range
  <2> HIDE DEF I
  <2>2. k \in I
    BY <2>1, MinIn
  <2> QED BY <2>2 DEF I
<1>3. r = SubSeq(s, 1, k - 1) \o SubSeq(s, k + 1, n)
  <2>1. (\E i \in 1 .. Len(s) : s[i] = e) /\ I # {}
    BY <1>1 DEF Range
  <2> QED BY <2>1 DEF RemoveFirst, SelectInSeq, RemoveAt
<1> HIDE DEF I, k, r
<1>4. /\ SubSeq(s, 1, k - 1) \in Seq(S) /\ Len(SubSeq(s, 1, k - 1)) = k - 1
      /\ \A i \in 1 .. k - 1 : SubSeq(s, 1, k - 1)[i] = s[i]
  <2>1. \A i \in 1 .. k - 1 : s[i] \in S
    BY <1>1, <1>2
  <2> QED BY <1>1, <1>2, <2>1, SubSeqProperties
<1>5. /\ SubSeq(s, k + 1, n) \in Seq(S) /\ Len(SubSeq(s, k + 1, n)) = n - k
      /\ \A i \in 1 .. n - k : SubSeq(s, k + 1, n)[i] = s[k + i]
  <2>1. \A i \in k + 1 .. n : s[i] \in S
    BY <1>1, <1>2
  <2>2. k + 1 \in Int /\ n \in Int /\ k + 1 <= n + 1
    BY <1>1, <1>2
  <2>3. /\ SubSeq(s, k + 1, n) \in Seq(S)
        /\ Len(SubSeq(s, k + 1, n)) = IF k + 1 <= n THEN n - (k + 1) + 1 ELSE 0
        /\ \A i \in 1 .. n - (k + 1) + 1 : SubSeq(s, k + 1, n)[i] = s[(k + 1) + i - 1]
    BY <1>1, <1>2, <2>1, <2>2, SubSeqProperties
  <2> DEFINE u == SubSeq(s, k + 1, n)
  <2> HIDE DEF u
  <2>4. Len(u) = n - k
    <3>1. n \in Nat /\ k \in 1 .. n
      BY <1>1, <1>2
    <3>2. (IF k + 1 <= n THEN n - (k + 1) + 1 ELSE 0) = n - k
      BY <3>1
    <3> QED BY <2>3, <3>2 DEF u
  <2>5. ASSUME NEW i \in 1 .. n - k PROVE u[i] = s[k + i]
    <3>1. i \in 1 .. n - (k + 1) + 1 /\ (k + 1) + i - 1 = k + i
      BY <1>1, <1>2
    <3> QED BY <2>3, <3>1 DEF u
  <2> QED BY <2>3, <2>4, <2>5 DEF u
<1>6. /\ r \in Seq(S) /\ Len(r) = n - 1 /\ DOMAIN r = 1 .. n - 1
      /\ \A i \in 1 .. n - 1 : r[i] = IF i < k THEN s[i] ELSE s[i + 1]
  <2>1. /\ r \in Seq(S) /\ Len(r) = (k - 1) + (n - k)
        /\ \A i \in 1 .. (k - 1) + (n - k) :
             r[i] = IF i <= k - 1 THEN SubSeq(s, 1, k - 1)[i] ELSE SubSeq(s, k + 1, n)[i - (k - 1)]
    <3> DEFINE front == SubSeq(s, 1, k - 1)
               back  == SubSeq(s, k + 1, n)
    <3>1. /\ front \in Seq(S) /\ back \in Seq(S) /\ r = front \o back
          /\ Len(front) = k - 1 /\ Len(back) = n - k
      BY <1>3, <1>4, <1>5
    <3> HIDE DEF front, back
    <3>2. /\ front \o back \in Seq(S) /\ Len(front \o back) = Len(front) + Len(back)
          /\ \A i \in 1 .. Len(front) + Len(back) :
               (front \o back)[i] = IF i <= Len(front) THEN front[i] ELSE back[i - Len(front)]
      BY <3>1, ConcatProperties
    <3> QED BY <3>1, <3>2 DEF front, back
  <2>2. (k - 1) + (n - k) = n - 1
    BY <1>1, <1>2
  <2>3. \A i \in 1 .. n - 1 : r[i] = IF i < k THEN s[i] ELSE s[i + 1]
    <3> SUFFICES ASSUME NEW i \in 1 .. n - 1 PROVE r[i] = IF i < k THEN s[i] ELSE s[i + 1]
      OBVIOUS
    <3>1. CASE i < k
      BY <1>1, <1>2, <1>4, <2>1, <2>2, <3>1
    <3>2. CASE ~(i < k)
      <4>1. i - (k - 1) \in 1 .. n - k /\ k + (i - (k - 1)) = i + 1
        BY <1>1, <1>2, <3>2
      <4>2. r[i] = SubSeq(s, k + 1, n)[i - (k - 1)]
        BY <1>1, <1>2, <2>1, <2>2, <3>2
      <4> QED BY <1>5, <3>2, <4>1, <4>2
    <3> QED BY <3>1, <3>2
  <2> QED BY <2>1, <2>2, <2>3, LenProperties
<1>7. \A i, j \in 1 .. n : s[i] = s[j] => i = j
  BY <1>1 DEF IsInjective
<1>8. IsInjective(r)
  <2> SUFFICES ASSUME NEW i \in 1 .. n - 1, NEW j \in 1 .. n - 1, r[i] = r[j] PROVE i = j
    BY <1>6 DEF IsInjective
  <2> DEFINE a == IF i < k THEN i ELSE i + 1  b == IF j < k THEN j ELSE j + 1
  <2>1. a \in 1 .. n /\ b \in 1 .. n /\ s[a] = s[b]
    BY <1>1, <1>2, <1>6
  <2>2. a = b
    BY <1>7, <2>1
  <2> QED BY <1>1, <1>2, <2>2
<1>9. Range(r) = Range(s) \ {e}
  <2>1. ASSUME NEW i \in 1 .. n - 1 PROVE r[i] \in Range(s) \ {e}
    <3> DEFINE a == IF i < k THEN i ELSE i + 1
    <3>1. a \in 1 .. n /\ r[i] = s[a] /\ a # k
      BY <1>1, <1>2, <1>6
    <3>2. s[a] # e
      BY <1>2, <1>7, <3>1
    <3> QED BY <1>1, <3>1, <3>2 DEF Range
  <2>2. ASSUME NEW j \in 1 .. n, s[j] # e PROVE s[j] \in Range(r)
    <3> DEFINE i == IF j < k THEN j ELSE j - 1
    <3>1. j # k
      BY <1>2, <2>2
    <3>2. i \in 1 .. n - 1 /\ r[i] = s[j]
      BY <1>1, <1>2, <1>6, <3>1
    <3> QED BY <1>6, <3>2 DEF Range
  <2> QED BY <1>1, <1>6, <2>1, <2>2 DEF Range
<1> QED BY <1>6, <1>8, <1>9 DEF r

-----------------------------------------------------------------------------
(* The invariants of the calls of a device *)

CallFields == {"state", "idx", "dir", "chan", "need", "act", "master", "fd0", "opts", "called"}
PvtFields  == {"chans", "cpvt", "chansno", "count", "queue", "last", "ring", "cwaiting",
               "dialing", "allocs"}

(* The fields are there; those that commands are made from have their types *)
Cells(p) ==
  /\ DOMAIN p = PvtFields /\ DOMAIN p.cpvt = Cpvt /\ DOMAIN p.count = CallStates
  /\ \A c \in Cpvt : /\ DOMAIN p.cpvt[c] = CallFields
                     /\ p.cpvt[c].state \in CallStates \cup {"unused"} /\ p.cpvt[c].idx \in Nat

Listed(p) ==
  /\ p.allocs \in 0 .. MaxCalls
  /\ p.chans \in Seq(1 .. p.allocs) /\ IsInjective(p.chans)
  /\ p.chansno = Len(p.chans)

InState(p, s) == {c \in Live(p) : p.cpvt[c].state = s}
Counts(p) == \A s \in CallStates : p.count[s] = Cardinality(InState(p, s))
(* Calls of the list are in a state, and outside X they are not released *)
Held(p, X) ==
  \A c \in Live(p) : p.cpvt[c].state \in (IF c \in X THEN CallStates ELSE CallStates \ {"released"})

(* An audible call has act; a MASTER has all that being heard takes *)
Masters(p) ==
  \A c \in Live(p) : p.cpvt[c].master =>
    /\ p.cpvt[c].chan /\ p.cpvt[c].act /\ p.cpvt[c].fd0 = "audio"
    /\ \A d \in Live(p) : p.cpvt[d].master => c = d

Names == {"CLCC", "CHLD_2", "D", "A", "CHLD_2x", "CHLD_3", "CHLD_1x", "CHUP"}
Command == [name : Names, arg : Nat, res : {RES_OK}, ignore : BOOLEAN, sent : BOOLEAN]
Task == [cpvt : Cpvt \cup {SysChan}, cindex : Nat, cmds : Seq(Command)]
Dials(t) == \E j \in 1 .. Len(t.cmds) : t.cmds[j].name = "D"

(* The tasks of the calls L, of which O may be dialled *)
TaskFor(L, O) == {t \in Task : /\ t.cpvt \in L \cup {SysChan}
                               /\ t.cindex < Len(t.cmds)
                               /\ Dials(t) => t.cpvt \in O \cup {SysChan}}

Outgoing(p) == {c \in Live(p) : p.cpvt[c].dir = "out"}
Tasks(p) == p.queue \in Seq(TaskFor(Live(p), Outgoing(p)))
LastDial(p) == p.last # None => p.last \in Outgoing(p)

Good(p, X) ==
  /\ Cells(p) /\ Listed(p) /\ Counts(p) /\ Held(p, X)
  /\ Masters(p) /\ Tasks(p) /\ LastDial(p)

-----------------------------------------------------------------------------
(* The AT queue *)

(* A head in front of tasks, and what is behind the head. *)
LEMMA ConsOfTasks ==
  ASSUME NEW T, NEW t \in T, NEW s \in Seq(T)
  PROVE  <<t>> \o s \in Seq(T) /\ <<t>> \o s # << >>
<1>1. <<t>> \in Seq(T) /\ Len(<<t>>) = 1
  OBVIOUS
<1>2. <<t>> \o s \in Seq(T) /\ Len(<<t>> \o s) = 1 + Len(s) /\ Len(s) \in Nat
  BY <1>1, ConcatProperties, LenProperties
<1> QED BY <1>2, EmptySeq

(* at_queue_add adds the task. *)
LEMMA AddTask ==
  ASSUME NEW T, NEW q \in Seq(T), NEW e \in T, NEW prio \in BOOLEAN
  PROVE  at_queue_add(q, e, prio) \in Seq(T)
<1>1. CASE prio /\ q # << >>
  <2>1. Head(q) \in T /\ Tail(q) \in Seq(T)
    BY <1>1, HeadTailProperties
  <2> QED BY <1>1, <2>1, ConsOfTasks DEF at_queue_add
<1>2. CASE ~(prio /\ q # << >>)
  BY <1>2, AppendProperties DEF at_queue_add
<1> QED BY <1>1, <1>2

(* What is known of the task at the head. *)
LEMMA HeadTaskFor ==
  ASSUME NEW L, NEW O, NEW q \in Seq(TaskFor(L, O)), q # << >>
  PROVE  /\ Head(q) \in TaskFor(L, O) /\ Tail(q) \in Seq(TaskFor(L, O))
         /\ Head(q) \in Task /\ Head(q).cindex \in Nat
         /\ Head(q).cmds \in Seq(Command) /\ Len(Head(q).cmds) \in Nat
         /\ Head(q).cindex + 1 \in 1 .. Len(Head(q).cmds)
         /\ Head(q).cpvt \in L \cup {SysChan}
         /\ at_queue_task_cmd(Head(q)) = Head(q).cmds[Head(q).cindex + 1]
         /\ at_queue_task_cmd(Head(q)) \in Command
         /\ at_queue_task_cmd(Head(q)).name = "D" => Head(q).cpvt \in O \cup {SysChan}
<1>1. Head(q) \in TaskFor(L, O) /\ Tail(q) \in Seq(TaskFor(L, O))
  BY HeadTailProperties
<1> DEFINE h == Head(q)
<1> HIDE DEF h
<1>2. /\ h \in Task /\ h.cindex \in Nat /\ h.cmds \in Seq(Command) /\ h.cpvt \in L \cup {SysChan}
      /\ h.cindex < Len(h.cmds)
  BY <1>1 DEF TaskFor, Task, h
<1>3. Len(h.cmds) \in Nat /\ h.cindex + 1 \in 1 .. Len(h.cmds)
  BY <1>2, LenProperties
<1>4. at_queue_task_cmd(h) = h.cmds[h.cindex + 1] /\ at_queue_task_cmd(h) \in Command
  BY <1>2, <1>3, ElementOfSeq DEF at_queue_task_cmd
<1>5. at_queue_task_cmd(h).name = "D" => h.cpvt \in O \cup {SysChan}
  BY <1>1, <1>3, <1>4 DEF TaskFor, Dials, h
<1> QED BY <1>1, <1>2, <1>3, <1>4, <1>5 DEF h

(* at_queue_remove_cmd moves the head on or takes it away. *)
LEMMA RemoveTask ==
  ASSUME NEW L, NEW O, NEW q \in Seq(TaskFor(L, O)), NEW res
  PROVE  at_queue_remove_cmd(q, res) \in Seq(TaskFor(L, O))
<1>1. CASE q = << >>
  BY <1>1 DEF at_queue_remove_cmd
<1>2. CASE q # << >> /\ TaskEnds(Head(q), res)
  BY <1>2, HeadTaskFor DEF at_queue_remove_cmd
<1>3. CASE q # << >> /\ ~TaskEnds(Head(q), res)
  <2> DEFINE h == Head(q)  t == [h EXCEPT !.cindex = @ + 1]
  <2>1. /\ h \in TaskFor(L, O) /\ Tail(q) \in Seq(TaskFor(L, O)) /\ h \in Task
        /\ h.cindex \in Nat /\ Len(h.cmds) \in Nat
    BY <1>3, HeadTaskFor
  <2>2. h.cindex + 1 < Len(h.cmds)
    BY <1>3, <2>1 DEF TaskEnds
  <2>3. at_queue_remove_cmd(q, res) = <<t>> \o Tail(q)
    BY <1>3 DEF at_queue_remove_cmd
  <2> HIDE DEF h
  <2>4. t \in Task /\ t.cindex = h.cindex + 1 /\ t.cmds = h.cmds /\ t.cpvt = h.cpvt
    BY <2>1 DEF Task
  <2> HIDE DEF t
  <2>5. t \in TaskFor(L, O)
    BY <2>1, <2>2, <2>4 DEF TaskFor, Dials
  <2> QED BY <2>1, <2>3, <2>5, ConsOfTasks
<1> QED BY <1>1, <1>2, <1>3

(* Writing the head command leaves its task what it was. *)
LEMMA MarkTask ==
  ASSUME NEW L, NEW O, NEW q \in Seq(TaskFor(L, O)), q # << >>
  PROVE  MarkSent(q) \in Seq(TaskFor(L, O)) /\ MarkSent(q) # << >>
<1> DEFINE h == Head(q)
           k == h.cindex + 1
           c == [h.cmds[k] EXCEPT !.sent = TRUE]
           t == [h EXCEPT !.cmds[k].sent = TRUE]
<1>1. /\ h \in TaskFor(L, O) /\ Tail(q) \in Seq(TaskFor(L, O)) /\ h \in Task
      /\ h.cmds \in Seq(Command) /\ k \in 1 .. Len(h.cmds) /\ h.cmds[k] \in Command
      /\ Len(h.cmds) \in Nat
  BY HeadTaskFor
<1>2. MarkSent(q) = <<t>> \o Tail(q)
  BY DEF MarkSent
<1> HIDE DEF h, k
<1>3. c \in Command /\ c.name = h.cmds[k].name
  BY <1>1 DEF Command
<1>4. t = [h EXCEPT !.cmds = [h.cmds EXCEPT ![k] = c]]
  BY <1>1, LenProperties DEF Task
<1> HIDE DEF c, t
<1>5. /\ [h.cmds EXCEPT ![k] = c] \in Seq(Command)
      /\ Len([h.cmds EXCEPT ![k] = c]) = Len(h.cmds)
      /\ \A j \in 1 .. Len(h.cmds) :
           [h.cmds EXCEPT ![k] = c][j] = IF j = k THEN c ELSE h.cmds[j]
  BY <1>1, <1>3, ExceptSeq
<1>6. /\ t \in Task /\ t.cindex = h.cindex /\ t.cpvt = h.cpvt
      /\ t.cmds = [h.cmds EXCEPT ![k] = c]
  BY <1>1, <1>4, <1>5 DEF Task
<1>7. Len(t.cmds) = Len(h.cmds) /\ \A j \in 1 .. Len(h.cmds) : t.cmds[j].name = h.cmds[j].name
  BY <1>3, <1>5, <1>6
<1>8. t \in TaskFor(L, O)
  BY <1>1, <1>6, <1>7 DEF TaskFor, Dials
<1> QED BY <1>1, <1>2, <1>8, ConsOfTasks

(* cpvt_free leaves no task to the call that dies. *)
LEMMA RelinkTasks ==
  ASSUME NEW L, NEW O, NEW q \in Seq(TaskFor(L, O)), NEW c
  PROVE  Relink(q, {c}, SysChan) \in Seq(TaskFor(L \ {c}, O \ {c}))
<1> DEFINE f(t) == IF t.cpvt \in {c} THEN [t EXCEPT !.cpvt = SysChan] ELSE t
           T == TaskFor(L, O)  U == TaskFor(L \ {c}, O \ {c})
<1>1. ASSUME NEW t \in T PROVE f(t) \in U
  <2>1. t \in Task
    BY DEF TaskFor
  <2>2. CASE t.cpvt = c
    <3>1. f(t) = [t EXCEPT !.cpvt = SysChan]
      BY <2>2
    <3>2. f(t) \in Task /\ f(t).cpvt = SysChan /\ f(t).cmds = t.cmds /\ f(t).cindex = t.cindex
      BY <2>1, <3>1 DEF Task
    <3> HIDE DEF f
    <3> QED BY <3>2 DEF TaskFor
  <2>3. CASE t.cpvt # c
    BY <2>1, <2>3 DEF TaskFor
  <2> QED BY <2>2, <2>3
<1>2. Len(q) \in Nat /\ \A i \in 1 .. Len(q) : q[i] \in T
  BY LenProperties, ElementOfSeq
<1>3. Relink(q, {c}, SysChan) = [i \in 1 .. Len(q) |-> f(q[i])]
  BY DEF Relink
<1> HIDE DEF f, T, U
<1>4. [i \in 1 .. Len(q) |-> f(q[i])] \in [1 .. Len(q) -> U]
  BY <1>1, <1>2
<1>5. Relink(q, {c}, SysChan) \in Seq(U)
  <2> DEFINE r == Relink(q, {c}, SysChan)  n == Len(q)
  <2>1. r \in [1 .. n -> U] /\ n \in Nat
    BY <1>2, <1>3, <1>4
  <2> HIDE DEF r, n
  <2> QED BY <2>1 DEF r
<1> QED BY <1>5 DEF U

(* A task stays right when calls are added. *)
LEMMA TasksMonotone ==
  ASSUME NEW L, NEW O, NEW q \in Seq(TaskFor(L, O)), NEW L2, NEW O2, L \subseteq L2, O \subseteq O2
  PROVE  q \in Seq(TaskFor(L2, O2))
<1>1. TaskFor(L, O) \subseteq TaskFor(L2, O2)
  BY DEF TaskFor
<1> QED BY <1>1, SeqMonotonic

-----------------------------------------------------------------------------
(* Steps that leave the list of calls and their states alone *)

(* The list and what is counted of it are the same in p and q *)
Alike(p, q) ==
  /\ q.chans = p.chans /\ q.chansno = p.chansno /\ q.allocs = p.allocs /\ q.count = p.count
  /\ \A c \in Cpvt : q.cpvt[c].state = p.cpvt[c].state /\ q.cpvt[c].dir = p.cpvt[c].dir

(* ... and so is who hears the audio port *)
Quiet(p, q) ==
  \A c \in Cpvt : /\ q.cpvt[c].chan = p.cpvt[c].chan /\ q.cpvt[c].act = p.cpvt[c].act
                  /\ q.cpvt[c].master = p.cpvt[c].master /\ q.cpvt[c].fd0 = p.cpvt[c].fd0

(* The calls of the list are allocated ones. *)
LEMMA LiveCalls ==
  ASSUME NEW p, Listed(p)
  PROVE  /\ Live(p) \subseteq 1 .. p.allocs /\ Live(p) \subseteq Cpvt /\ IsFiniteSet(Live(p))
         /\ \A s : InState(p, s) \subseteq Live(p) /\ IsFiniteSet(InState(p, s))
<1>1. Live(p) \subseteq 1 .. p.allocs
  BY ElementOfSeq DEF Listed, Live, Range
<1>2. 1 .. p.allocs \subseteq Cpvt
  BY CallOpsAssumption DEF Listed, Cpvt
<1>3. IsFiniteSet(Live(p))
  <2>1. IsFiniteSet(1 .. p.allocs)
    BY FS_Interval DEF Listed
  <2> QED BY <1>1, <2>1, FS_Subset
<1>4. \A s : InState(p, s) \subseteq Live(p)
  BY DEF InState
<1> QED BY <1>1, <1>2, <1>3, <1>4, FS_Subset

(* What is the same keeps its invariants. *)
LEMMA AlikeGood ==
  ASSUME NEW p, NEW X, Good(p, X), NEW q, Cells(q), Alike(p, q), Masters(q),
         q.queue \in Seq(TaskFor(Live(p), Outgoing(p))), q.last \in Outgoing(p) \cup {None}
  PROVE  Good(q, X) /\ Live(q) = Live(p) /\ Outgoing(q) = Outgoing(p)
<1>1. Live(q) = Live(p) /\ Live(p) \subseteq Cpvt
  BY LiveCalls DEF Alike, Live, Good
<1>2. Outgoing(q) = Outgoing(p) /\ \A s : InState(q, s) = InState(p, s)
  BY <1>1 DEF Outgoing, InState, Alike
<1>3. Listed(q) /\ Counts(q)
  BY <1>2 DEF Good, Listed, Counts, Alike
<1>4. Held(q, X)
  BY <1>1 DEF Good, Held, Alike
<1>5. Tasks(q) /\ LastDial(q)
  BY <1>1, <1>2 DEF Tasks, LastDial
<1> QED BY <1>1, <1>2, <1>3, <1>4, <1>5 DEF Good

(* A step that says nothing about sound either. *)
LEMMA QuietGood ==
  ASSUME NEW p, NEW X, Good(p, X), NEW q, Cells(q), Alike(p, q), Quiet(p, q),
         q.queue \in Seq(TaskFor(Live(p), Outgoing(p))), q.last \in Outgoing(p) \cup {None}
  PROVE  Good(q, X) /\ Live(q) = Live(p) /\ Outgoing(q) = Outgoing(p)
<1>1. Live(q) = Live(p) /\ Live(p) \subseteq Cpvt
  BY LiveCalls DEF Alike, Live, Good
<1>2. Masters(q)
  BY <1>1 DEF Good, Masters, Quiet
<1> QED BY <1>2, AlikeGood

(* What queue and last_dialed_cpvt are when a step leaves them alone. *)
LEMMA GoodQueue ==
  ASSUME NEW p, NEW X, Good(p, X)
  PROVE  /\ p.queue \in Seq(TaskFor(Live(p), Outgoing(p))) /\ p.last \in Outgoing(p) \cup {None}
         /\ Cells(p) /\ Live(p) \subseteq Cpvt /\ Outgoing(p) \subseteq Live(p)
  BY LiveCalls DEF Good, Tasks, LastDial, Outgoing

(* Writing the head command. *)
LEMMA RunGood ==
  ASSUME NEW p, NEW X, Good(p, X)
  PROVE  LET q == at_queue_run(p)
         IN  Good(q, X) /\ Live(q) = Live(p) /\ Outgoing(q) = Outgoing(p) /\ q.cpvt = p.cpvt
<1> DEFINE q == at_queue_run(p)
<1>1. CASE ~HeadUnsent(p.queue)
  BY <1>1 DEF at_queue_run
<1>2. CASE HeadUnsent(p.queue)
  <2>1. q = [p EXCEPT !.queue = MarkSent(@)]
    BY <1>2 DEF at_queue_run
  <2>2. /\ Cells(q) /\ Alike(p, q) /\ Quiet(p, q) /\ q.cpvt = p.cpvt
        /\ q.queue = MarkSent(p.queue) /\ q.last = p.last
    BY <2>1, GoodQueue DEF Cells, PvtFields, Alike, Quiet
  <2> HIDE DEF q
  <2>3. q.queue \in Seq(TaskFor(Live(p), Outgoing(p)))
    BY <1>2, <2>2, GoodQueue, MarkTask DEF HeadUnsent
  <2> QED BY <2>2, <2>3, GoodQueue, QuietGood DEF q
<1> QED BY <1>1, <1>2

(* A list of commands that may be queued for an owner *)
MayQueue(p, owner, cmds) ==
  /\ owner \in Live(p) \cup {SysChan}
  /\ cmds \in Seq(Command) /\ cmds # << >>
  /\ (\E j \in 1 .. Len(cmds) : cmds[j].name = "D") => owner \in Outgoing(p) \cup {SysChan}

(* at_queue_insert. *)
LEMMA InsertGood ==
  ASSUME NEW p, NEW X, Good(p, X), NEW owner, NEW cmds, MayQueue(p, owner, cmds)
  PROVE  LET q == at_queue_insert(p, owner, cmds)
         IN  Good(q, X) /\ Live(q) = Live(p) /\ Outgoing(q) = Outgoing(p) /\ q.cpvt = p.cpvt
<1> DEFINE e == [cpvt |-> owner, cindex |-> 0, cmds |-> cmds]
           r == [p EXCEPT !.queue = at_queue_add(@, e, TRUE)]
<1>1. e \in TaskFor(Live(p), Outgoing(p))
  <2>1. Len(cmds) \in Nat /\ 0 < Len(cmds) /\ 0 \in Nat
    BY LenProperties, EmptySeq DEF MayQueue
  <2>2. e \in Task
    BY <2>1, GoodQueue DEF MayQueue, Task
  <2> QED BY <2>1, <2>2 DEF TaskFor, Dials, MayQueue
<1> HIDE DEF e
<1>2. /\ Cells(r) /\ Alike(p, r) /\ Quiet(p, r) /\ r.cpvt = p.cpvt
      /\ r.queue = at_queue_add(p.queue, e, TRUE) /\ r.last = p.last
  BY GoodQueue DEF Cells, PvtFields, Alike, Quiet
<1>3. at_queue_insert(p, owner, cmds) = at_queue_run(r)
  BY DEF at_queue_insert, e
<1> HIDE DEF r
<1>4. r.queue \in Seq(TaskFor(Live(p), Outgoing(p)))
  BY <1>1, <1>2, GoodQueue, AddTask
<1>5. Good(r, X) /\ Live(r) = Live(p) /\ Outgoing(r) = Outgoing(p)
  BY <1>2, <1>4, GoodQueue, QuietGood
<1> QED BY <1>2, <1>3, <1>5, RunGood

-----------------------------------------------------------------------------
(* Who reads the audio port *)

(* disactivate_call: the call is MASTER no longer. *)
LEMMA DisactivateGood ==
  ASSUME NEW p, NEW X, Good(p, X), NEW c \in Live(p)
  PROVE  LET q == disactivate_call(p, c)
         IN  /\ Good(q, X) /\ Live(q) = Live(p) /\ Outgoing(q) = Outgoing(p)
             /\ ~q.cpvt[c].master /\ Alike(p, q) /\ q.queue = p.queue
<1> DEFINE q == disactivate_call(p, c)
<1>1. CASE ~(p.cpvt[c].chan /\ p.cpvt[c].act)
  <2>1. q = p
    BY <1>1 DEF disactivate_call
  <2>2. ~p.cpvt[c].master
    BY <1>1 DEF Good, Masters
  <2> QED BY <2>1, <2>2 DEF Alike
<1>2. CASE p.cpvt[c].chan /\ p.cpvt[c].act
  <2>1. q = [p EXCEPT !.cpvt[c].act = FALSE, !.cpvt[c].master = FALSE, !.cpvt[c].fd0 = "none"]
    BY <1>2 DEF disactivate_call
  <2>2. c \in Cpvt
    BY GoodQueue
  <2>3. /\ Cells(q) /\ Alike(p, q) /\ q.queue = p.queue /\ q.last = p.last /\ ~q.cpvt[c].master
        /\ \A k \in Cpvt : k # c => q.cpvt[k] = p.cpvt[k]
    BY <2>1, <2>2, GoodQueue DEF Cells, PvtFields, CallFields, Alike
  <2> HIDE DEF q
  <2>4. Masters(q)
    <3>1. Live(q) = Live(p)
      BY <2>3 DEF Alike, Live
    <3> SUFFICES ASSUME NEW k \in Live(p), q.cpvt[k].master
                 PROVE  /\ q.cpvt[k].chan /\ q.cpvt[k].act /\ q.cpvt[k].fd0 = "audio"
                        /\ \A d \in Live(p) : q.cpvt[d].master => k = d
      BY <3>1 DEF Masters
    <3>2. k # c /\ k \in Cpvt /\ q.cpvt[k] = p.cpvt[k]
      BY <2>3, GoodQueue
    <3>3. \A d \in Live(p) : q.cpvt[d].master => d \in Cpvt /\ p.cpvt[d].master
      BY <2>3, GoodQueue
    <3> QED BY <3>2, <3>3 DEF Good, Masters
  <2> QED BY <2>3, <2>4, GoodQueue, AlikeGood DEF q
<1> QED BY <1>1, <1>2

(* activate_call of a call with a channel: all others are MASTER no longer. *)
LEMMA ActivateGood ==
  ASSUME NEW p, NEW X, Good(p, X), NEW c \in Live(p), p.cpvt[c].chan
  PROVE  LET q == activate_call(p, c)
         IN  Good(q, X) /\ Live(q) = Live(p) /\ Outgoing(q) = Outgoing(p) /\ Alike(p, q)
<1> DEFINE q == activate_call(p, c)
<1>1. CASE p.cpvt[c].master
  BY <1>1 DEF activate_call, Alike
<1>2. CASE ~p.cpvt[c].master
  <2>1. c \in Cpvt /\ Live(p) \subseteq Cpvt /\ Cells(p)
    BY GoodQueue
  <2>2. /\ Cells(q) /\ Alike(p, q) /\ q.queue = p.queue /\ q.last = p.last
        /\ q.cpvt[c].chan /\ q.cpvt[c].act /\ q.cpvt[c].fd0 = "audio"
        /\ \A k \in Live(p) : k # c => ~q.cpvt[k].master
    <3> DEFINE new == [p.cpvt[c] EXCEPT !.act = TRUE, !.master = TRUE, !.fd0 = "audio"]
               other(k) == [p.cpvt[k] EXCEPT !.master = FALSE,
                              !.fd0 = IF p.cpvt[k].chan /\ p.cpvt[c].act THEN "pipe" ELSE @]
    <3>1. q = [p EXCEPT !.cpvt = [k \in Cpvt |-> IF k = c THEN new
                                                 ELSE IF k \in Live(p) THEN other(k) ELSE p.cpvt[k]]]
      BY <1>2, <2>1 DEF activate_call
    <3>2. /\ DOMAIN new = CallFields /\ new.state = p.cpvt[c].state /\ new.idx = p.cpvt[c].idx
          /\ new.dir = p.cpvt[c].dir /\ new.chan = p.cpvt[c].chan /\ new.act /\ new.fd0 = "audio"
      BY <2>1 DEF Cells, CallFields
    <3>3. ASSUME NEW k \in Cpvt
          PROVE  /\ DOMAIN other(k) = CallFields /\ other(k).state = p.cpvt[k].state
                 /\ other(k).idx = p.cpvt[k].idx /\ other(k).dir = p.cpvt[k].dir /\ ~other(k).master
      BY <2>1 DEF Cells, CallFields
    <3> HIDE DEF new, other, q
    <3>4. /\ DOMAIN q = PvtFields /\ q.chans = p.chans /\ q.chansno = p.chansno /\ q.allocs = p.allocs
          /\ q.count = p.count /\ q.queue = p.queue /\ q.last = p.last /\ DOMAIN q.cpvt = Cpvt
          /\ q.cpvt[c] = new
          /\ \A k \in Cpvt : k # c => q.cpvt[k] = IF k \in Live(p) THEN other(k) ELSE p.cpvt[k]
      BY <2>1, <3>1 DEF Cells, PvtFields
    <3>5. Cells(q)
      BY <2>1, <3>2, <3>3, <3>4 DEF Cells
    <3>6. Alike(p, q)
      BY <2>1, <3>2, <3>3, <3>4 DEF Alike
    <3>7. \A k \in Live(p) : k # c => ~q.cpvt[k].master
      BY <2>1, <3>3, <3>4
    <3> QED BY <3>2, <3>4, <3>5, <3>6, <3>7
  <2> HIDE DEF q
  <2>3. Masters(q)
    <3>1. Live(q) = Live(p)
      BY <2>2 DEF Alike, Live
    <3> QED BY <2>2, <3>1 DEF Masters
  <2> QED BY <2>2, <2>3, GoodQueue, AlikeGood DEF q
<1> QED BY <1>1, <1>2

-----------------------------------------------------------------------------
(* Steps that change a state or the list *)

(* A set of calls with one more or one less. *)
LEMMA CountOneMore ==
  ASSUME NEW S, IsFiniteSet(S), NEW c
  PROVE  /\ Cardinality(S) \in Nat
         /\ c \notin S => Cardinality(S \cup {c}) = Cardinality(S) + 1
         /\ c \in S => Cardinality(S \ {c}) = Cardinality(S) - 1
  BY FS_CardinalityType, FS_AddElement, FS_RemoveElement

(* EnterState: the call is counted in its new state and no longer in the old. *)
LEMMA EnterGood ==
  ASSUME NEW p, NEW X, Good(p, X), NEW c \in Live(p), NEW new \in CallStates,
         p.cpvt[c].state # new
  PROVE  LET q == EnterState(p, c, new)
         IN  /\ Good(q, X \cup {c}) /\ (new # "released" => Good(q, X))
             /\ Live(q) = Live(p) /\ Outgoing(q) = Outgoing(p)
             /\ q.cpvt[c].chan = p.cpvt[c].chan /\ q.cpvt[c].state = new
<1> DEFINE q == EnterState(p, c, new)  old == p.cpvt[c].state
<1>1. /\ c \in Cpvt /\ Live(p) \subseteq Cpvt /\ Cells(p) /\ old \in CallStates
  <2>1. c \in Cpvt /\ Live(p) \subseteq Cpvt /\ Cells(p)
    BY GoodQueue
  <2>2. old \in CallStates
    BY DEF Good, Held
  <2> QED BY <2>1, <2>2
<1>2. /\ Cells(q) /\ q.chans = p.chans /\ q.chansno = p.chansno /\ q.allocs = p.allocs
      /\ q.queue = p.queue /\ q.last = p.last /\ q.cpvt[c].state = new
      /\ \A k \in Cpvt : k # c => q.cpvt[k] = p.cpvt[k]
      /\ q.cpvt[c].dir = p.cpvt[c].dir /\ Quiet(p, q)
  BY <1>1 DEF EnterState, Cells, PvtFields, CallFields, Quiet
<1>3. q.count = [p.count EXCEPT ![old] = @ - 1, ![new] = @ + 1]
  BY <1>1 DEF EnterState, Cells, PvtFields
<1> HIDE DEF q
<1>4. Live(q) = Live(p)
  BY <1>2 DEF Live
<1>5. Listed(q)
  BY <1>2 DEF Good, Listed
<1>6. Counts(q)
  <2> SUFFICES ASSUME NEW s \in CallStates PROVE q.count[s] = Cardinality(InState(q, s))
    BY DEF Counts
  <2>1. IsFiniteSet(InState(p, s)) /\ p.count[s] = Cardinality(InState(p, s)) /\ DOMAIN p.count = CallStates
    BY <1>1, LiveCalls DEF Good, Counts, Cells
  <2>2. CASE s = new
    <3>1. InState(q, s) = InState(p, s) \cup {c} /\ c \notin InState(p, s)
      BY <1>1, <1>2, <1>4, <2>2 DEF InState
    <3>2. q.count[s] = p.count[s] + 1
      BY <1>1, <1>3, <2>1, <2>2
    <3> QED BY <2>1, <3>1, <3>2, CountOneMore
  <2>3. CASE s = old
    <3>1. InState(q, s) = InState(p, s) \ {c} /\ c \in InState(p, s)
      BY <1>1, <1>2, <1>4, <2>3 DEF InState
    <3>2. q.count[s] = p.count[s] - 1
      BY <1>1, <1>3, <2>1, <2>3
    <3> QED BY <2>1, <3>1, <3>2, CountOneMore
  <2>4. CASE s # new /\ s # old
    <3>1. InState(q, s) = InState(p, s)
      BY <1>1, <1>2, <1>4, <2>4 DEF InState
    <3>2. q.count[s] = p.count[s]
      BY <1>1, <1>3, <2>1, <2>4
    <3> QED BY <2>1, <3>1, <3>2
  <2> QED BY <2>2, <2>3, <2>4
<1>7. Held(q, X \cup {c}) /\ (new # "released" => Held(q, X))
  BY <1>1, <1>2, <1>4 DEF Good, Held
<1>8. Masters(q)
  BY <1>1, <1>2, <1>4 DEF Good, Masters, Quiet
<1>9. Outgoing(q) = Outgoing(p)
  BY <1>1, <1>2, <1>4 DEF Outgoing
<1>10. Tasks(q) /\ LastDial(q)
  BY <1>2, <1>4, <1>9 DEF Good, Tasks, LastDial
<1>11. q.cpvt[c].chan = p.cpvt[c].chan
  BY <1>1, <1>2 DEF Quiet
<1> QED BY <1>2, <1>4, <1>5, <1>6, <1>7, <1>8, <1>9, <1>10, <1>11 DEF Good, q

(* cpvt_free: nothing is left that counts or names the call. *)
LEMMA FreeGood ==
  ASSUME NEW p, NEW X, Good(p, X), NEW c \in Live(p)
  PROVE  LET q == cpvt_free(p, c)
         IN  Good(q, X \ {c}) /\ Live(q) = Live(p) \ {c}
<1> DEFINE q == cpvt_free(p, c)  old == p.cpvt[c].state
<1>1. /\ c \in Cpvt /\ Live(p) \subseteq Cpvt /\ Cells(p) /\ old \in CallStates
  <2>1. c \in Cpvt /\ Live(p) \subseteq Cpvt /\ Cells(p)
    BY GoodQueue
  <2>2. old \in CallStates
    BY DEF Good, Held
  <2> QED BY <2>1, <2>2
<1>2. /\ Cells(q) /\ q.chans = RemoveFirst(p.chans, c) /\ q.chansno = p.chansno - 1 /\ q.allocs = p.allocs
      /\ q.queue = Relink(p.queue, {c}, SysChan) /\ q.last = (IF p.last = c THEN None ELSE p.last)
      /\ q.count = [p.count EXCEPT ![old] = @ - 1]
      /\ \A k \in Cpvt : k # c => q.cpvt[k] = p.cpvt[k]
  BY <1>1 DEF cpvt_free, Cells, PvtFields, CallFields, Blank
<1> HIDE DEF q
<1>3. /\ q.chans \in Seq(1 .. p.allocs) /\ IsInjective(q.chans)
      /\ Live(q) = Live(p) \ {c} /\ Len(q.chans) = Len(p.chans) - 1
  BY <1>2, RemoveFirstProperties DEF Good, Listed, Live
<1>4. Listed(q)
  BY <1>2, <1>3 DEF Good, Listed
<1>5. Counts(q)
  <2> SUFFICES ASSUME NEW s \in CallStates PROVE q.count[s] = Cardinality(InState(q, s))
    BY DEF Counts
  <2>1. IsFiniteSet(InState(p, s)) /\ p.count[s] = Cardinality(InState(p, s)) /\ DOMAIN p.count = CallStates
    BY <1>1, LiveCalls DEF Good, Counts, Cells
  <2>2. CASE s = old
    <3>1. InState(q, s) = InState(p, s) \ {c} /\ c \in InState(p, s)
      BY <1>1, <1>2, <1>3, <2>2 DEF InState
    <3>2. q.count[s] = p.count[s] - 1
      BY <1>1, <1>2, <2>1, <2>2
    <3> QED BY <2>1, <3>1, <3>2, CountOneMore
  <2>3. CASE s # old
    <3>1. InState(q, s) = InState(p, s)
      BY <1>1, <1>2, <1>3, <2>3 DEF InState
    <3>2. q.count[s] = p.count[s]
      BY <1>1, <1>2, <2>1, <2>3
    <3> QED BY <2>1, <3>1, <3>2
  <2> QED BY <2>2, <2>3
<1>6. Held(q, X \ {c})
  BY <1>1, <1>2, <1>3 DEF Good, Held
<1>7. Masters(q)
  BY <1>1, <1>2, <1>3 DEF Good, Masters
<1>8. Outgoing(q) = Outgoing(p) \ {c}
  BY <1>1, <1>2, <1>3 DEF Outgoing
<1>9. Tasks(q)
  <2>1. p.queue \in Seq(TaskFor(Live(p), Outgoing(p)))
    BY DEF Good, Tasks
  <2>2. Relink(p.queue, {c}, SysChan) \in Seq(TaskFor(Live(p) \ {c}, Outgoing(p) \ {c}))
    BY <2>1, RelinkTasks
  <2> QED BY <1>2, <1>3, <1>8, <2>2 DEF Tasks
<1>10. LastDial(q)
  BY <1>2, <1>8 DEF Good, LastDial
<1> QED BY <1>2, <1>3, <1>4, <1>5, <1>6, <1>7, <1>9, <1>10 DEF Good, q

(* cpvt_alloc: the call is new to everything that counts or names calls. *)
LEMMA AllocGood ==
  ASSUME NEW p, NEW X, Good(p, X), p.allocs < MaxCalls, NEW idx \in Nat, NEW dir,
         NEW state \in CallStates \ {"released"}, NEW opts
  PROVE  LET q == cpvt_alloc(p, idx, dir, state, opts)
         IN  Good(q, X) /\ Live(q) = Live(p) \cup {q.allocs}
<1> DEFINE q == cpvt_alloc(p, idx, dir, state, opts)  c == p.allocs + 1
<1>1. /\ Live(p) \subseteq Cpvt /\ Cells(p) /\ p.allocs \in Nat /\ c \in Cpvt /\ c \notin Live(p)
  <2>1. p.allocs \in Nat /\ c \in Cpvt /\ c \notin 1 .. p.allocs
    BY CallOpsAssumption DEF Good, Listed, Cpvt
  <2> QED BY <2>1, GoodQueue, LiveCalls DEF Good
<1> HIDE DEF c
<1>2. /\ Cells(q) /\ q.chans = Append(p.chans, c) /\ q.chansno = p.chansno + 1 /\ q.allocs = c
      /\ q.queue = p.queue /\ q.last = p.last
      /\ q.count = [p.count EXCEPT ![state] = @ + 1]
      /\ \A k \in Cpvt : k # c => q.cpvt[k] = p.cpvt[k]
      /\ q.cpvt[c].state = state /\ ~q.cpvt[c].master
  BY <1>1 DEF cpvt_alloc, Cells, PvtFields, CallFields, Blank, c
<1> HIDE DEF q
<1>3. /\ q.chans \in Seq(1 .. c) /\ IsInjective(q.chans)
      /\ Live(q) = Live(p) \cup {c} /\ Len(q.chans) = Len(p.chans) + 1
  <2>1. p.chans \in Seq(1 .. p.allocs) /\ IsInjective(p.chans) /\ c \notin Range(p.chans)
    BY <1>1 DEF Good, Listed, Live
  <2>2. p.chans \in Seq(1 .. c) /\ c \in 1 .. c
    BY <1>1, <2>1, SeqMonotonic, 1 .. p.allocs \subseteq 1 .. c DEF c
  <2> QED BY <1>2, <2>1, <2>2, RangeOfAppend, AppendProperties DEF Live
<1>4. Listed(q)
  BY <1>1, <1>2, <1>3, CallOpsAssumption DEF Good, Listed, Cpvt
<1>5. Counts(q)
  <2> SUFFICES ASSUME NEW s \in CallStates PROVE q.count[s] = Cardinality(InState(q, s))
    BY DEF Counts
  <2>1. IsFiniteSet(InState(p, s)) /\ p.count[s] = Cardinality(InState(p, s)) /\ DOMAIN p.count = CallStates
    BY <1>1, LiveCalls DEF Good, Counts, Cells
  <2>2. CASE s = state
    <3>1. InState(q, s) = InState(p, s) \cup {c} /\ c \notin InState(p, s)
      BY <1>1, <1>2, <1>3, <2>2 DEF InState
    <3>2. q.count[s] = p.count[s] + 1
      BY <1>1, <1>2, <2>1, <2>2
    <3> QED BY <2>1, <3>1, <3>2, CountOneMore
  <2>3. CASE s # state
    <3>1. InState(q, s) = InState(p, s)
      BY <1>1, <1>2, <1>3, <2>3 DEF InState
    <3>2. q.count[s] = p.count[s]
      BY <1>1, <1>2, <2>1, <2>3
    <3> QED BY <2>1, <3>1, <3>2
  <2> QED BY <2>2, <2>3
<1>6. Held(q, X)
  BY <1>1, <1>2, <1>3 DEF Good, Held
<1>7. Masters(q)
  <2>1. \A k \in Live(q) : q.cpvt[k].master => k \in Live(p) /\ q.cpvt[k] = p.cpvt[k]
    BY <1>1, <1>2, <1>3
  <2>2. Masters(p)
    BY DEF Good
  <2> QED BY <2>1, <2>2 DEF Masters
<1>8. Live(p) \subseteq Live(q) /\ Outgoing(p) \subseteq Outgoing(q)
  BY <1>1, <1>2, <1>3 DEF Outgoing
<1>9. Tasks(q)
  BY <1>2, <1>8, TasksMonotone DEF Good, Tasks
<1>10. LastDial(q)
  BY <1>2, <1>8 DEF Good, LastDial
<1> QED BY <1>2, <1>3, <1>4, <1>5, <1>6, <1>7, <1>9, <1>10 DEF Good, q

(* A device without calls. *)
LEMMA EmptyGood ==
  ASSUME NEW n \in 0 .. MaxCalls
  PROVE  Good(EmptyPvt(n), {})
<1> DEFINE p == EmptyPvt(n)
<1>1. /\ p.chans = << >> /\ p.chansno = 0 /\ p.allocs = n /\ p.queue = << >> /\ p.last = None
      /\ \A s \in CallStates : p.count[s] = 0
  BY DEF EmptyPvt
<1>2. Cells(p)
  BY DEF EmptyPvt, Cells, PvtFields, CallFields, Blank
<1> HIDE DEF p
<1>3. Live(p) = {}
  BY <1>1 DEF Live, Range
<1>4. Listed(p)
  BY <1>1 DEF Listed, IsInjective
<1>5. Counts(p)
  <2>1. \A s : InState(p, s) = {}
    BY <1>3 DEF InState
  <2> QED BY <1>1, <2>1, FS_EmptySet DEF Counts
<1>6. Held(p, {}) /\ Masters(p) /\ Tasks(p) /\ LastDial(p)
  BY <1>1, <1>3 DEF Held, Masters, Tasks, LastDial
<1> QED BY <1>2, <1>4, <1>5, <1>6 DEF Good, p

(* change_channel_state. *)
LEMMA ChangeGood ==
  ASSUME NEW p, Good(p, {}), NEW c \in Live(p), NEW new \in CallStates
  PROVE  LET q == change_channel_state(p, c, new)
         IN  Good(q, {}) /\ (new # "released" => c \in Live(q))
<1> DEFINE r == EnterState(p, c, new)
<1>1. CASE p.cpvt[c].state = new
  BY <1>1 DEF change_channel_state
<1>2. CASE p.cpvt[c].state # new
  <2>1. /\ Good(r, {} \cup {c}) /\ (new # "released" => Good(r, {})) /\ Live(r) = Live(p)
    BY <1>2, EnterGood
  <2>2. change_channel_state(p, c, new) =
          IF new = "released" THEN cpvt_free(disactivate_call(r, c), c)
          ELSE IF ~r.cpvt[c].chan THEN r
          ELSE IF new = "onhold" THEN disactivate_call(r, c)
          ELSE IF new \in {"dialing", "alerting", "active"} THEN activate_call(r, c)
          ELSE r
    BY <1>2 DEF change_channel_state
  <2> HIDE DEF r
  <2>3. CASE new = "released"
    <3> DEFINE d == disactivate_call(r, c)
    <3>1. Good(d, {} \cup {c}) /\ Live(d) = Live(p)
      BY <2>1, DisactivateGood
    <3>2. change_channel_state(p, c, new) = cpvt_free(d, c)
      BY <2>2, <2>3
    <3> HIDE DEF d
    <3>3. Good(cpvt_free(d, c), ({} \cup {c}) \ {c})
      BY <3>1, FreeGood
    <3>4. ({} \cup {c}) \ {c} = {}
      OBVIOUS
    <3> QED BY <2>3, <3>2, <3>3, <3>4
  <2>4. CASE new # "released"
    <3>1. Good(r, {}) /\ c \in Live(r)
      BY <2>1, <2>4
    <3>2. Good(disactivate_call(r, c), {}) /\ c \in Live(disactivate_call(r, c))
      BY <3>1, DisactivateGood
    <3>3. r.cpvt[c].chan => Good(activate_call(r, c), {}) /\ c \in Live(activate_call(r, c))
      BY <3>1, ActivateGood
    <3> QED BY <2>2, <2>4, <3>1, <3>2, <3>3
  <2> QED BY <2>3, <2>4
<1> QED BY <1>1, <1>2

-----------------------------------------------------------------------------
(* Indices *)

(* pvt_find_cpvt finds a call of the list or nothing. *)
LEMMA FindLive ==
  ASSUME NEW p, NEW X, Good(p, X), NEW idx, pvt_find_cpvt(p, idx) # None
  PROVE  pvt_find_cpvt(p, idx) \in Live(p)
<1> DEFINE hits == {i \in DOMAIN p.chans : p.cpvt[p.chans[i]].idx = idx}
<1>1. hits # {} /\ pvt_find_cpvt(p, idx) = p.chans[Min(hits)]
  BY DEF pvt_find_cpvt
<1>2. DOMAIN p.chans \subseteq Nat
  BY LenProperties DEF Good, Listed
<1>3. hits \in SUBSET Nat /\ hits \subseteq DOMAIN p.chans
  BY <1>2
<1> HIDE DEF hits
<1>4. Min(hits) \in DOMAIN p.chans
  BY <1>1, <1>3, MinIn
<1> QED BY <1>1, <1>4 DEF Live, Range

(* pvt_get_pseudo_call_idx gives a natural number. *)
LEMMA PseudoIdx ==
  ASSUME NEW p
  PROVE  pvt_get_pseudo_call_idx(p) \in Nat
<1> DEFINE free == 1 .. MAX_CALL_IDX \ {p.cpvt[c].idx : c \in Live(p)}
<1>1. pvt_get_pseudo_call_idx(p) = IF free = {} THEN 0 ELSE Min(free)
  BY DEF pvt_get_pseudo_call_idx
<1>2. free \in SUBSET Nat
  BY CallOpsAssumption
<1> HIDE DEF free
<1>3. free # {} => Min(free) \in Nat
  BY <1>2, MinIn
<1> QED BY <1>1, <1>3

-----------------------------------------------------------------------------
(* The command lists *)

(* The commands a list is made of. *)
LEMMA CmdType ==
  ASSUME NEW name \in Names, NEW arg \in Nat
  PROVE  Cmd(name, arg) \in Command /\ Cmd(name, arg).name = name
<1>1. (name = "D") \in BOOLEAN /\ FALSE \in BOOLEAN /\ RES_OK \in {RES_OK}
  BY Zenon
<1> QED BY <1>1, Zenon DEF Cmd, Command

(* A list without ATD may be queued for any call, with it for an outgoing one. *)
LEMMA ListOfOne ==
  ASSUME NEW p, NEW owner \in Live(p) \cup {SysChan}, NEW a \in Command, a.name # "D"
  PROVE  MayQueue(p, owner, <<a>>)
  BY DEF MayQueue

LEMMA ListOfTwo ==
  ASSUME NEW p, NEW owner \in Live(p) \cup {SysChan}, NEW a \in Command, NEW b \in Command,
         \/ a.name # "D" /\ b.name # "D"
         \/ owner \in Outgoing(p)
  PROVE  MayQueue(p, owner, <<a, b>>)
  BY DEF MayQueue

LEMMA ListBehind ==
  ASSUME NEW p, NEW owner \in Outgoing(p), NEW s \in Seq(Command), NEW a \in Command,
         NEW b \in Command
  PROVE  MayQueue(p, owner, s \o <<a, b>>)
<1> DEFINE l == <<a, b>>  r == s \o l
<1>1. l \in Seq(Command) /\ Len(l) = 2
  OBVIOUS
<1> HIDE DEF l
<1>2. r \in Seq(Command) /\ Len(r) = Len(s) + Len(l) /\ Len(s) \in Nat
  BY <1>1, ConcatProperties, LenProperties, Zenon
<1> HIDE DEF r
<1>3. r # << >>
  <2>1. Len(r) # 0
    BY <1>1, <1>2
  <2> QED BY <2>1, EmptySeq
<1> QED BY <1>2, <1>3 DEF MayQueue, Outgoing, r, l

(* The lists as they are asked for. *)
LEMMA ClccGood ==
  ASSUME NEW p, NEW X, Good(p, X)
  PROVE  LET q == at_enque_clcc(p)
         IN  Good(q, X) /\ Live(q) = Live(p) /\ Outgoing(q) = Outgoing(p) /\ q.cpvt = p.cpvt
<1>1. Cmd("CLCC", 0) \in Command /\ Cmd("CLCC", 0).name = "CLCC"
  BY CmdType DEF Names
<1>2. MayQueue(p, SysChan, <<Cmd("CLCC", 0)>>)
  BY <1>1, ListOfOne
<1> QED BY <1>2, InsertGood DEF at_enque_clcc

(* Fields that no invariant is about. *)
LEMMA FlagsGood ==
  ASSUME NEW p, NEW X, Good(p, X), NEW ring, NEW dialing, NEW cwaiting
  PROVE  LET q == [p EXCEPT !.ring = ring, !.dialing = dialing, !.cwaiting = cwaiting]
         IN  Good(q, X) /\ Live(q) = Live(p) /\ Outgoing(q) = Outgoing(p) /\ q.cpvt = p.cpvt
<1> DEFINE q == [p EXCEPT !.ring = ring, !.dialing = dialing, !.cwaiting = cwaiting]
<1>1. Cells(p) /\ DOMAIN p = PvtFields
  BY GoodQueue DEF Cells
<1>2. /\ DOMAIN q = DOMAIN p /\ q.chans = p.chans /\ q.chansno = p.chansno /\ q.allocs = p.allocs
      /\ q.count = p.count /\ q.queue = p.queue /\ q.last = p.last /\ q.cpvt = p.cpvt
  BY <1>1 DEF PvtFields
<1> HIDE DEF q
<1>3. Cells(q) /\ Alike(p, q) /\ Quiet(p, q)
  BY <1>1, <1>2 DEF Cells, Alike, Quiet
<1>4. Good(q, X) /\ Live(q) = Live(p) /\ Outgoing(q) = Outgoing(p)
  BY <1>2, <1>3, QuietGood, GoodQueue
<1>5. Good(q, X) /\ Live(q) = Live(p) /\ Outgoing(q) = Outgoing(p) /\ q.cpvt = p.cpvt
  BY <1>2, <1>4
<1> QED BY <1>5, Zenon DEF q

LEMMA NeedGood ==
  ASSUME NEW p, NEW X, Good(p, X), NEW c \in Live(p), NEW v
  PROVE  LET q == [p EXCEPT !.cpvt[c].need = v]
         IN  Good(q, X) /\ Live(q) = Live(p) /\ Outgoing(q) = Outgoing(p)
<1> DEFINE q == [p EXCEPT !.cpvt[c].need = v]
<1>1. Cells(q) /\ Alike(p, q) /\ Quiet(p, q) /\ q.queue = p.queue /\ q.last = p.last
  BY GoodQueue DEF Cells, PvtFields, CallFields, Alike, Quiet
<1> HIDE DEF q
<1> QED BY <1>1, QuietGood, GoodQueue DEF q

(* The call dialled last: an outgoing call, or forgotten. *)
LEMMA LastGood ==
  ASSUME NEW p, NEW X, Good(p, X), NEW c \in Outgoing(p) \cup {None}
  PROVE  LET q == [p EXCEPT !.last = c]
         IN  Good(q, X) /\ Live(q) = Live(p) /\ Outgoing(q) = Outgoing(p) /\ q.cpvt = p.cpvt
<1> DEFINE q == [p EXCEPT !.last = c]
<1>1. Cells(q) /\ Alike(p, q) /\ Quiet(p, q) /\ q.queue = p.queue /\ q.last = c /\ q.cpvt = p.cpvt
  BY GoodQueue DEF Cells, PvtFields, Alike, Quiet
<1> HIDE DEF q
<1> QED BY <1>1, QuietGood, GoodQueue DEF q

(* at_enque_dial, for a call that goes out. *)
LEMMA DialGood ==
  ASSUME NEW p, NEW X, Good(p, X), NEW c \in Outgoing(p)
  PROVE  Good(at_enque_dial(p, c), X)
<1> DEFINE l1 == << >> \o <<Cmd("D", c), Cmd("CLCC", 0)>>
           l2 == <<Cmd("CHLD_2", 0)>> \o <<Cmd("D", c), Cmd("CLCC", 0)>>
<1>1. c \in Live(p) /\ c \in Nat
  BY GoodQueue DEF Cpvt
<1>2. Cmd("D", c) \in Command /\ Cmd("CLCC", 0) \in Command /\ Cmd("CHLD_2", 0) \in Command
  BY <1>1, CmdType DEF Names
<1>3. << >> \in Seq(Command) /\ <<Cmd("CHLD_2", 0)>> \in Seq(Command)
  BY <1>2
<1>4. MayQueue(p, c, l1) /\ MayQueue(p, c, l2)
  BY <1>2, <1>3, ListBehind
<1> HIDE DEF l1, l2
<1>5. \A l \in {l1, l2} : Good([at_queue_insert(p, c, l) EXCEPT !.cpvt[c].need = TRUE], X)
  <2> TAKE l \in {l1, l2}
  <2> DEFINE q == at_queue_insert(p, c, l)
  <2>1. MayQueue(p, c, l)
    BY <1>4
  <2>2. Good(q, X) /\ c \in Live(q)
    BY <1>1, <2>1, InsertGood
  <2> HIDE DEF q
  <2>3. Good([q EXCEPT !.cpvt[c].need = TRUE], X)
    BY <2>2, NeedGood
  <2> QED BY <2>3 DEF q
<1>6. at_enque_dial(p, c) = [at_queue_insert(p, c, l1) EXCEPT !.cpvt[c].need = TRUE]
      \/ at_enque_dial(p, c) = [at_queue_insert(p, c, l2) EXCEPT !.cpvt[c].need = TRUE]
  BY DEF at_enque_dial, l1, l2
<1> QED BY <1>5, <1>6

(* at_enque_answer, at_enque_activate and at_enque_conference. *)
LEMMA TalkGood ==
  ASSUME NEW p, NEW X, Good(p, X), NEW c \in Live(p)
  PROVE  /\ Good(at_enque_answer(p, c), X) /\ Good(at_enque_activate(p, c), X)
         /\ Good(at_enque_conference(p, c), X)
<1>1. p.cpvt[c].idx \in Nat
  BY GoodQueue DEF Cells
<1> DEFINE i == p.cpvt[c].idx
<1> HIDE DEF i
<1>2. /\ Cmd("A", 0) \in Command /\ Cmd("A", 0).name = "A"
      /\ Cmd("CHLD_2x", i) \in Command /\ Cmd("CHLD_2x", i).name = "CHLD_2x"
      /\ Cmd("CHLD_3", 0) \in Command /\ Cmd("CHLD_3", 0).name = "CHLD_3"
      /\ Cmd("CLCC", 0) \in Command /\ Cmd("CLCC", 0).name = "CLCC"
  BY <1>1, CmdType DEF Names, i
<1>3. /\ MayQueue(p, c, <<Cmd("A", 0)>>) /\ MayQueue(p, c, <<Cmd("CHLD_2x", i)>>)
      /\ MayQueue(p, c, <<Cmd("CHLD_2x", i), Cmd("CLCC", 0)>>)
      /\ MayQueue(p, c, <<Cmd("CHLD_3", 0), Cmd("CLCC", 0)>>)
  BY <1>2, ListOfOne, ListOfTwo
<1>4. Good(at_enque_answer(p, c), X)
  <2>1. CASE p.cpvt[c].state = "incoming"
    BY <1>3, <2>1, InsertGood DEF at_enque_answer
  <2>2. CASE p.cpvt[c].state = "waiting"
    BY <1>3, <2>2, InsertGood DEF at_enque_answer, i
  <2>3. CASE p.cpvt[c].state # "incoming" /\ p.cpvt[c].state # "waiting"
    BY <2>3 DEF at_enque_answer
  <2> QED BY <2>1, <2>2, <2>3
<1>5. Good(at_enque_activate(p, c), X)
  BY <1>3, InsertGood DEF at_enque_activate, i
<1>6. Good(at_enque_conference(p, c), X)
  BY <1>3, InsertGood DEF at_enque_conference
<1> QED BY <1>4, <1>5, <1>6

(* at_enque_hangup, for a call or for an index nobody has. *)
LEMMA HangupGood ==
  ASSUME NEW p, NEW X, Good(p, X), NEW owner \in Live(p) \cup {SysChan}, NEW idx \in Nat
  PROVE  LET q == at_enque_hangup(p, owner, idx)
         IN  Good(q, X) /\ Live(q) = Live(p)
<1> DEFINE r == [p EXCEPT !.last = None]
           s == [p EXCEPT !.last = p.last]
           a == <<Cmd("CHLD_1x", idx), Cmd("CLCC", 0)>>
           b == <<Cmd("CHUP", 0), Cmd("CLCC", 0)>>
<1>1. \A q \in {r, s} : Good(q, X) /\ Live(q) = Live(p)
  BY LastGood, GoodQueue
<1>2. /\ Cmd("CHLD_1x", idx) \in Command /\ Cmd("CHLD_1x", idx).name = "CHLD_1x"
      /\ Cmd("CHUP", 0) \in Command /\ Cmd("CHUP", 0).name = "CHUP"
      /\ Cmd("CLCC", 0) \in Command /\ Cmd("CLCC", 0).name = "CLCC"
  BY CmdType DEF Names
<1>3. \E q \in {r, s}, l \in {a, b} : at_enque_hangup(p, owner, idx) = at_queue_insert(q, owner, l)
  BY DEF at_enque_hangup
<1>4. \A q \in {r, s} : MayQueue(q, owner, a) /\ MayQueue(q, owner, b)
  BY <1>1, <1>2, ListOfTwo
<1> HIDE DEF r, s, a, b
<1>5. PICK q \in {r, s}, l \in {a, b} : at_enque_hangup(p, owner, idx) = at_queue_insert(q, owner, l)
  BY <1>3
<1>6. Good(q, X) /\ Live(q) = Live(p) /\ MayQueue(q, owner, l)
  BY <1>1, <1>4
<1> QED BY <1>5, <1>6, InsertGood
-----------------------------------------------------------------------------
(* Which calls share an index *)

(* Calls of q are calls of p and have the index they had *)
Keeps(p, q) ==
  \A c \in Live(q) : c \in Live(p) /\ q.cpvt[c].idx = p.cpvt[c].idx

(* One step after the other. *)
LEMMA KeepsOn ==
  ASSUME NEW p, NEW q, NEW r, Keeps(p, q), Keeps(q, r)
  PROVE  Keeps(p, r)
  BY DEF Keeps

(* What has the same list and the same calls. *)
LEMMA KeepsAll ==
  ASSUME NEW p, NEW q, q.chans = p.chans, q.cpvt = p.cpvt
  PROVE  Keeps(p, q)
  BY DEF Keeps, Live

(* Queueing commands. *)
LEMMA InsertKeeps ==
  ASSUME NEW p, Cells(p), NEW owner, NEW cmds
  PROVE  Keeps(p, at_queue_run(p)) /\ Keeps(p, at_queue_insert(p, owner, cmds))
<1>1. ASSUME NEW r, DOMAIN r = PvtFields
      PROVE  at_queue_run(r).chans = r.chans /\ at_queue_run(r).cpvt = r.cpvt
  BY <1>1 DEF at_queue_run, PvtFields
<1> DEFINE e == [cpvt |-> owner, cindex |-> 0, cmds |-> cmds]
           r == [p EXCEPT !.queue = at_queue_add(@, e, TRUE)]
<1>2. at_queue_insert(p, owner, cmds) = at_queue_run(r)
  BY DEF at_queue_insert
<1>3. DOMAIN p = PvtFields /\ DOMAIN r = PvtFields /\ r.chans = p.chans /\ r.cpvt = p.cpvt
  BY DEF Cells, PvtFields
<1> HIDE DEF r
<1>4. at_queue_run(p).chans = p.chans /\ at_queue_run(p).cpvt = p.cpvt
  BY <1>1, <1>3
<1>5. at_queue_run(r).chans = p.chans /\ at_queue_run(r).cpvt = p.cpvt
  BY <1>1, <1>3
<1> QED BY <1>2, <1>4, <1>5, KeepsAll

(* Steps that leave the list and the calls alone. *)
LEMMA FieldsKeep ==
  ASSUME NEW p, Cells(p), NEW q, DOMAIN q = DOMAIN p, q.chans = p.chans,
         q.cpvt = p.cpvt, q.count = p.count
  PROVE  Cells(q) /\ Keeps(p, q)
  BY KeepsAll DEF Cells

(* Marks of a call. *)
LEMMA MarksKeep ==
  ASSUME NEW p, Cells(p), NEW c \in Cpvt, NEW v
  PROVE  /\ Keeps(p, [p EXCEPT !.cpvt[c].need = v]) /\ Keeps(p, [p EXCEPT !.cpvt[c].called = v])
         /\ Keeps(p, [p EXCEPT !.cpvt[c].opts = v]) /\ Keeps(p, [p EXCEPT !.cpvt[c].chan = v])
  BY DEF Cells, PvtFields, CallFields, Keeps, Live

(* The sound. *)
LEMMA SoundKeeps ==
  ASSUME NEW p, NEW X, Good(p, X), NEW c \in Live(p)
  PROVE  Keeps(p, disactivate_call(p, c)) /\ (p.cpvt[c].chan => Keeps(p, activate_call(p, c)))
<1>1. c \in Cpvt /\ Live(p) \subseteq Cpvt /\ Cells(p)
  BY GoodQueue
<1>2. Keeps(p, disactivate_call(p, c))
  BY <1>1 DEF disactivate_call, Cells, PvtFields, CallFields, Keeps, Live
<1>3. ASSUME p.cpvt[c].chan PROVE Keeps(p, activate_call(p, c))
  <2> DEFINE q == activate_call(p, c)
  <2>1. Live(q) = Live(p)
    BY <1>3, ActivateGood
  <2>2. \A k \in Cpvt : q.cpvt[k].idx = p.cpvt[k].idx
    BY <1>1 DEF activate_call, Cells, PvtFields, CallFields
  <2> QED BY <1>1, <2>1, <2>2 DEF Keeps
<1> QED BY <1>2, <1>3

(* cpvt_free: the others are what they were. *)
LEMMA FreeKeeps ==
  ASSUME NEW p, NEW X, Good(p, X), NEW c \in Live(p)
  PROVE  Keeps(p, cpvt_free(p, c))
<1> DEFINE q == cpvt_free(p, c)
<1>1. Live(q) = Live(p) \ {c} /\ c \in Cpvt /\ Live(p) \subseteq Cpvt /\ Cells(p)
  BY FreeGood, GoodQueue
<1>2. \A k \in Cpvt : k # c => q.cpvt[k] = p.cpvt[k]
  BY <1>1 DEF cpvt_free, Cells, PvtFields
<1> QED BY <1>1, <1>2 DEF Keeps

(* change_channel_state. *)
LEMMA ChangeKeeps ==
  ASSUME NEW p, Good(p, {}), NEW c \in Live(p), NEW new \in CallStates
  PROVE  Keeps(p, change_channel_state(p, c, new))
<1> DEFINE r == EnterState(p, c, new)  d == disactivate_call(r, c)
<1>1. CASE p.cpvt[c].state = new
  BY <1>1 DEF change_channel_state, Keeps
<1>2. CASE p.cpvt[c].state # new
  <2>1. Good(r, {} \cup {c}) /\ Live(r) = Live(p)
    BY <1>2, EnterGood
  <2>2. Keeps(p, r)
    <3>1. c \in Cpvt /\ Live(p) \subseteq Cpvt /\ Cells(p)
      BY GoodQueue
    <3>2. \A k \in Cpvt : r.cpvt[k].idx = p.cpvt[k].idx
      BY <3>1 DEF EnterState, Cells, PvtFields, CallFields
    <3> QED BY <2>1, <3>1, <3>2 DEF Keeps
  <2>3. change_channel_state(p, c, new) =
          IF new = "released" THEN cpvt_free(d, c)
          ELSE IF ~r.cpvt[c].chan THEN r
          ELSE IF new = "onhold" THEN d
          ELSE IF new \in {"dialing", "alerting", "active"} THEN activate_call(r, c)
          ELSE r
    BY <1>2 DEF change_channel_state
  <2> HIDE DEF r
  <2>4. Good(d, {} \cup {c}) /\ c \in Live(d)
    BY <2>1, DisactivateGood
  <2>5. Keeps(p, d) /\ (r.cpvt[c].chan => Keeps(p, activate_call(r, c)))
    BY <2>1, <2>2, SoundKeeps, KeepsOn
  <2> HIDE DEF d
  <2>6. Keeps(p, cpvt_free(d, c))
    BY <2>4, <2>5, FreeKeeps, KeepsOn
  <2> QED BY <2>2, <2>3, <2>5, <2>6
<1> QED BY <1>1, <1>2

(* The command lists. *)
LEMMA ListsKeep ==
  ASSUME NEW p, Cells(p), NEW owner, NEW idx, NEW c \in Cpvt
  PROVE  /\ Keeps(p, at_enque_clcc(p)) /\ Keeps(p, at_enque_hangup(p, owner, idx))
         /\ Keeps(p, at_enque_answer(p, c)) /\ Keeps(p, at_enque_activate(p, c))
         /\ Keeps(p, at_enque_conference(p, c)) /\ Keeps(p, p)
<1>1. Keeps(p, p)
  BY DEF Keeps
<1>2. Keeps(p, at_enque_hangup(p, owner, idx))
  <2> DEFINE r(last) == [p EXCEPT !.last = last]
  <2>1. \E last, cmds : at_enque_hangup(p, owner, idx) = at_queue_insert(r(last), owner, cmds)
    BY DEF at_enque_hangup
  <2>2. ASSUME NEW last PROVE Cells(r(last)) /\ Keeps(p, r(last))
    <3>1. DOMAIN p = PvtFields
      BY DEF Cells
    <3>2. /\ DOMAIN r(last) = DOMAIN p /\ r(last).chans = p.chans /\ r(last).cpvt = p.cpvt
          /\ r(last).count = p.count
      BY <3>1 DEF PvtFields
    <3> HIDE DEF r
    <3> QED BY <3>2, FieldsKeep
  <2> HIDE DEF r
  <2> QED BY <2>1, <2>2, InsertKeeps, KeepsOn
<1>3. Keeps(p, at_enque_answer(p, c)) /\ Keeps(p, at_enque_activate(p, c))
  BY <1>1, InsertKeeps DEF at_enque_answer, at_enque_activate
<1> QED BY <1>1, <1>2, <1>3, InsertKeeps DEF at_enque_clcc, at_enque_conference

(* at_enque_dial. *)
LEMMA DialKeeps ==
  ASSUME NEW p, NEW X, Good(p, X), NEW c \in Outgoing(p)
  PROVE  Keeps(p, at_enque_dial(p, c))
<1>1. PICK cmds : at_enque_dial(p, c) = [at_queue_insert(p, c, cmds) EXCEPT !.cpvt[c].need = TRUE]
  BY DEF at_enque_dial
<1> DEFINE q == at_queue_insert(p, c, cmds)
<1>2. c \in Cpvt /\ Cells(p)
  BY GoodQueue
<1>3. Keeps(p, q)
  BY <1>2, InsertKeeps
<1>4. Cells(q)
  BY <1>2 DEF at_queue_insert, at_queue_run, Cells, PvtFields
<1> HIDE DEF q
<1>5. Keeps(q, [q EXCEPT !.cpvt[c].need = TRUE])
  BY <1>2, <1>4, MarksKeep
<1> QED BY <1>1, <1>3, <1>5, KeepsOn DEF q

(* pvt_find_cpvt overlooks nobody. *)
LEMMA FindAll ==
  ASSUME NEW p, NEW X, Good(p, X), NEW idx, pvt_find_cpvt(p, idx) = None
  PROVE  \A c \in Live(p) : p.cpvt[c].idx # idx
<1> DEFINE hits == {i \in DOMAIN p.chans : p.cpvt[p.chans[i]].idx = idx}
<1>1. CASE hits # {}
  <2>1. pvt_find_cpvt(p, idx) = p.chans[Min(hits)]
    BY <1>1 DEF pvt_find_cpvt
  <2>2. DOMAIN p.chans \subseteq Nat
    BY LenProperties DEF Good, Listed
  <2>3. hits \in SUBSET Nat /\ hits \subseteq DOMAIN p.chans
    BY <2>2
  <2> HIDE DEF hits
  <2>4. Min(hits) \in DOMAIN p.chans
    BY <1>1, <2>3, MinIn
  <2>5. p.chans[Min(hits)] \in Cpvt
    BY <2>4, GoodQueue DEF Live, Range
  <2> QED BY <2>1, <2>5 DEF Cpvt, None
<1>2. CASE hits = {}
  BY <1>2 DEF Live, Range
<1> QED BY <1>1, <1>2

(* A pseudo index is nobody's. *)
LEMMA PseudoFree ==
  ASSUME NEW p, NEW c \in Live(p), pvt_get_pseudo_call_idx(p) # 0
  PROVE  p.cpvt[c].idx # pvt_get_pseudo_call_idx(p)
<1> DEFINE free == 1 .. MAX_CALL_IDX \ {p.cpvt[k].idx : k \in Live(p)}
<1>1. pvt_get_pseudo_call_idx(p) = IF free = {} THEN 0 ELSE Min(free)
  BY DEF pvt_get_pseudo_call_idx
<1>2. free \in SUBSET Nat
  BY CallOpsAssumption
<1> HIDE DEF free
<1>3. pvt_get_pseudo_call_idx(p) \in free
  BY <1>1, <1>2, MinIn
<1> QED BY <1>3 DEF free
=============================================================================
