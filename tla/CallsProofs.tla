----------------------------- MODULE CallsProofs -----------------------------
(***************************************************************************)
(* Proofs about Calls, for any number of calls and lines.                  *)
(*                                                                         *)
(* CountsExact, NoDanglingCall and OneMaster are not inductive.  What is   *)
(* missing is in Good of CallOpsProofs: a channel that is MASTER still has *)
(* act (disactivate_call looks at that), an ATD is queued for an outgoing  *)
(* call only (at_response_ok makes its owner the call dialled last), and   *)
(* no call is listed twice (else freeing one leaves it on the list).       *)
(* The lines of the modem carry what the handlers take from them.          *)
(*                                                                         *)
(* OnlyOrigClashes follows from the same invariant: every function keeps   *)
(* the indices of the calls it leaves on the list (Keeps), and an index    *)
(* given to a new call is one that no call of the list has.                *)
(***************************************************************************)
EXTENDS Calls, CallOpsProofs

(* The lines: +CLCC tells of one call at least, all others carry an index *)
PlainLines == [t : {"OK", "ERROR", "ORIG", "CEND", "CONN", "RING", "CCWA"}, idx : Nat]
CallTables == {f \in [Idx -> [st : ClccStates \cup {"none"}, dir : {"in", "out"}]] :
                 \E i \in Idx : f[i].st # "none"}
Lines == PlainLines \cup [t : {"CLCC"}, calls : CallTables]

ModemCalls == [Idx -> [st : ClccStates \cup {"none"}, dir : {"in", "out"}, own : Nat]]

ModemType ==
  /\ DOMAIN modem = {"call", "pend", "inc", "drops"}
  /\ modem.call \in ModemCalls /\ modem.pend \in Nat \cup {None}

(* The inductive invariant *)
IndInv == Good(pvt, {}) /\ rx \in Seq(Lines) /\ ModemType

-----------------------------------------------------------------------------
(* Lines *)

(* What is written to rx, line by line. *)
LEMMA LineType ==
  ASSUME NEW t \in {"OK", "ERROR", "ORIG", "CEND", "CONN", "RING", "CCWA"}, NEW i \in Nat
  PROVE  Line(t, i) \in Lines
  BY DEF Line, Lines, PlainLines

(* A sequence of lines, one for each call of a set. *)
LEMMA LinesOfCalls ==
  ASSUME NEW t \in {"CEND", "CONN"}, NEW S \in SUBSET Idx
  PROVE  SetToSeq({Line(t, i) : i \in S}) \in Seq(Lines)
<1> DEFINE T == {Line(t, i) : i \in S}  f == [i \in S |-> Line(t, i)]
<1>1. IsFiniteSet(S)
  <2>1. IsFiniteSet(Idx)
    BY FS_Interval, CallOpsAssumption DEF Idx
  <2> QED BY <2>1, FS_Subset
<1>2. f \in Surjection(S, T)
  BY DEF Surjection
<1>3. T \subseteq Lines
  BY LineType DEF Idx
<1> HIDE DEF T, f
<1>4. IsFiniteSet(T)
  BY <1>1, <1>2, FS_Surjection
<1>5. Cardinality(T) \in Nat /\ \E g \in [1 .. Cardinality(T) -> T] : IsInjective(g)
  BY <1>4, FS_CardinalityType DEF ExistsBijection, Bijection, Injection
<1>6. SetToSeq(T) \in [1 .. Cardinality(T) -> T]
  BY <1>5 DEF SetToSeq
<1>7. SetToSeq(T) \in Seq(T)
  BY <1>5, <1>6
<1> QED BY <1>3, <1>7, SeqMonotonic DEF T

(* What Reply sends and leaves. *)
LEMMA ReplyType ==
  ASSUME IndInv, NEW lines \in Seq(Lines), NEW call \in ModemCalls,
         NEW pend \in Nat \cup {None}, Reply(lines, call, pend)
  PROVE  rx' \in Seq(Lines) /\ ModemType'
<1>1. rx' \in Seq(Lines)
  BY ConcatProperties DEF Reply, IndInv
<1>2. modem' = [modem EXCEPT !.call = call, !.pend = pend]
  BY DEF Reply
<1>3. ModemType'
  BY <1>2 DEF IndInv, ModemType
<1> QED BY <1>1, <1>3

-----------------------------------------------------------------------------
(* The modem's calls *)

(* Calls end, and a waiting one may be left alone. *)
LEMMA ReleasedType ==
  ASSUME IndInv, NEW gone
  PROVE  Released(gone) \in ModemCalls
<1> DEFINE call == [i \in Idx |-> IF i \in gone THEN NoCall ELSE modem.call[i]]
<1>1. call \in ModemCalls
  BY DEF IndInv, ModemType, ModemCalls, NoCall, SysChan
<1> HIDE DEF call
<1>2. Promote(call) \in ModemCalls
  <2> DEFINE f(i) == IF call[i].st = "waiting" THEN [call[i] EXCEPT !.st = "incoming"] ELSE call[i]
  <2>1. \A i \in Idx : f(i) \in [st : ClccStates \cup {"none"}, dir : {"in", "out"}, own : Nat]
    BY <1>1 DEF ModemCalls, ClccStates
  <2> HIDE DEF f
  <2>2. [i \in Idx |-> f(i)] \in ModemCalls
    BY <2>1 DEF ModemCalls
  <2> QED BY <1>1, <2>2 DEF Promote, f
<1> QED BY <1>2 DEF Released, call

(* Calls that are what they were or in another state *)
Moved(call) ==
  /\ call = [i \in Idx |-> call[i]]
  /\ \A i \in Idx : \/ call[i] = modem.call[i]
                    \/ \E st \in ClccStates : call[i] = [modem.call[i] EXCEPT !.st = st]

LEMMA MovedType ==
  ASSUME IndInv, NEW call, Moved(call)
  PROVE  call \in ModemCalls
<1>1. \A i \in Idx : modem.call[i] \in [st : ClccStates \cup {"none"}, dir : {"in", "out"}, own : Nat]
  BY DEF IndInv, ModemType, ModemCalls
<1>2. ASSUME NEW i \in Idx
      PROVE  call[i] \in [st : ClccStates \cup {"none"}, dir : {"in", "out"}, own : Nat]
  BY <1>1 DEF Moved
<1>3. [i \in Idx |-> call[i]] \in ModemCalls
  BY <1>2 DEF ModemCalls
<1> QED BY <1>3 DEF Moved

(* The table of +CLCC. *)
LEMMA TableType ==
  ASSUME IndInv, FreeIdx # Idx
  PROVE  ClccLine \in Lines
<1> DEFINE f == [i \in Idx |-> [st |-> modem.call[i].st, dir |-> modem.call[i].dir]]
<1>1. f \in [Idx -> [st : ClccStates \cup {"none"}, dir : {"in", "out"}]]
  BY DEF IndInv, ModemType, ModemCalls
<1>2. \E i \in Idx : f[i].st # "none"
  BY DEF FreeIdx, In
<1> HIDE DEF f
<1>3. f \in CallTables
  BY <1>1, <1>2 DEF CallTables
<1>4. ClccLine = [t |-> "CLCC", calls |-> f]
  BY DEF ClccLine, f
<1> QED BY <1>3, <1>4 DEF Lines

-----------------------------------------------------------------------------
(* The steps of the modem *)

ModemGood == rx' \in Seq(Lines) /\ ModemType'

(* The calls, the ATD and the lines that answers are made of. *)
LEMMA ModemParts ==
  ASSUME IndInv
  PROVE  /\ modem.call \in ModemCalls /\ modem.pend \in Nat \cup {None} /\ None \in Nat \cup {None}
         /\ Ok \in Lines /\ Error \in Lines /\ <<Ok>> \in Seq(Lines) /\ <<Error>> \in Seq(Lines)
         /\ Idx \subseteq Nat /\ \A states : In(states) \subseteq Idx
<1>1. Ok \in Lines /\ Error \in Lines
  BY LineType DEF Ok, Error
<1>2. Idx \subseteq Nat /\ \A states : In(states) \subseteq Idx
  BY DEF Idx, In
<1> QED BY <1>1, <1>2 DEF IndInv, ModemType

(* A command refused. *)
LEMMA RefuseType ==
  ASSUME IndInv, Refuse
  PROVE  ModemGood
  BY ReplyType, ModemParts DEF Refuse, ModemGood

(* Calls are held and others talk. *)
LEMMA TalkType ==
  ASSUME IndInv, NEW up, up \subseteq Idx, Talk(up)
  PROVE  ModemGood
<1>1. Answers(up) \in Seq(Lines)
  <2>1. up \cap In({"incoming", "waiting"}) \in SUBSET Idx
    OBVIOUS
  <2> QED BY <2>1, LinesOfCalls DEF Answers
<1>2. Answers(up) \o <<Ok>> \in Seq(Lines)
  BY <1>1, ModemParts, ConcatProperties, Zenon
<1>3. Swap(up) \in ModemCalls
  <2>1. Moved(Swap(up))
    BY DEF Moved, Swap, ClccStates
  <2> QED BY <2>1, MovedType
<1>4. Reply(Answers(up) \o <<Ok>>, Swap(up), modem.pend)
  BY DEF Talk
<1> QED BY <1>2, <1>3, <1>4, ModemParts, ReplyType DEF ModemGood

(* AT+CHUP. *)
LEMMA ExecChupType ==
  ASSUME IndInv, ExecChup
  PROVE  ModemGood
<1>1. PICK gone \in SUBSET Idx : Reply(<<Ok>> \o CendLines(gone), Released(gone), None)
  BY ModemParts DEF ExecChup
<1>2. CendLines(gone) \in Seq(Lines)
  BY LinesOfCalls DEF CendLines
<1>3. <<Ok>> \o CendLines(gone) \in Seq(Lines)
  BY <1>2, ModemParts, ConcatProperties, Zenon
<1> QED BY <1>1, <1>3, ReleasedType, ModemParts, ReplyType DEF ModemGood

(* AT+CHLD=3. *)
LEMMA JoinType ==
  ASSUME IndInv
  PROVE  [i \in Idx |-> IF modem.call[i].st = "onhold" THEN [modem.call[i] EXCEPT !.st = "active"]
                        ELSE modem.call[i]] \in ModemCalls
<1> DEFINE call == [i \in Idx |-> IF modem.call[i].st = "onhold"
                        THEN [modem.call[i] EXCEPT !.st = "active"] ELSE modem.call[i]]
<1>1. Moved(call)
  BY DEF Moved, ClccStates
<1> QED BY <1>1, MovedType

(* The command at the head, whichever it is. *)
LEMMA ExecType ==
  ASSUME IndInv, HeadCmd \in Command, Exec(HeadCmd)
  PROVE  ModemGood
<1>1. HeadCmd.name \in Names /\ HeadCmd.arg \in Nat
  BY DEF Command
<1>2. CASE HeadCmd.name = "D"
  <2>1. ExecD
    BY <1>2 DEF Exec
  <2>2. CASE Reply(<<Ok>>, modem.call, HeadCmd.arg)
    BY <1>1, <2>2, ModemParts, ReplyType DEF ModemGood
  <2> QED BY <2>1, <2>2, RefuseType DEF ExecD
<1>3. CASE HeadCmd.name = "CHUP"
  <2>1. ExecChup
    BY <1>3 DEF Exec
  <2> QED BY <2>1, ExecChupType
<1>4. CASE HeadCmd.name = "CHLD_1x"
  <2> DEFINE i == HeadCmd.arg
  <2>1. ExecChld1(i)
    BY <1>4 DEF Exec
  <2>2. CASE Reply(<<Ok, Line("CEND", i)>>, Released({i}), modem.pend)
    <3>1. Line("CEND", i) \in Lines
      BY <1>1, LineType
    <3>2. <<Ok, Line("CEND", i)>> \in Seq(Lines)
      BY <3>1, ModemParts
    <3> QED BY <2>2, <3>2, ReleasedType, ModemParts, ReplyType DEF ModemGood
  <2> QED BY <2>1, <2>2, RefuseType DEF ExecChld1
<1>5. CASE HeadCmd.name = "A"
  <2>1. Refuse \/ Talk(In({"incoming"}))
    BY <1>5 DEF Exec
  <2> QED BY <2>1, RefuseType, TalkType, ModemParts
<1>6. CASE HeadCmd.name = "CHLD_2x"
  <2>1. Refuse \/ (HeadCmd.arg \in In({"onhold", "waiting"}) /\ Talk({HeadCmd.arg}))
    BY <1>6 DEF Exec
  <2>2. HeadCmd.arg \in In({"onhold", "waiting"}) => {HeadCmd.arg} \subseteq Idx
    BY ModemParts
  <2> QED BY <2>1, <2>2, RefuseType, TalkType
<1>7. CASE HeadCmd.name = "CHLD_2"
  <2>1. Talk(In({"waiting"})) \/ Talk(In({"onhold"}))
    BY <1>7 DEF Exec
  <2> QED BY <2>1, TalkType, ModemParts
<1>8. CASE HeadCmd.name = "CHLD_3"
  BY <1>8, JoinType, ModemParts, ReplyType DEF Exec, ModemGood
<1>9. CASE HeadCmd.name = "CLCC"
  <2>1. Reply((IF FreeIdx = Idx THEN << >> ELSE <<ClccLine>>) \o <<Ok>>, modem.call, modem.pend)
    BY <1>9 DEF Exec
  <2> DEFINE s == IF FreeIdx = Idx THEN << >> ELSE <<ClccLine>>
  <2>2. s \in Seq(Lines)
    BY TableType
  <2> HIDE DEF s
  <2>3. s \o <<Ok>> \in Seq(Lines)
    BY <2>2, ModemParts, ConcatProperties, Zenon
  <2> QED BY <2>1, <2>3, ModemParts, ReplyType DEF ModemGood, s
<1> QED BY <1>1, <1>2, <1>3, <1>4, <1>5, <1>6, <1>7, <1>8, <1>9 DEF Names

(* What the modem says unasked. *)
LEMMA UnaskedType ==
  ASSUME IndInv, NEW line \in Lines, NEW call \in ModemCalls, NEW pend \in Nat \cup {None},
         Unasked(line, call, pend)
  PROVE  ModemGood
<1>1. <<line>> \in Seq(Lines)
  OBVIOUS
<1> QED BY <1>1, ReplyType DEF Unasked, ModemGood

-----------------------------------------------------------------------------
(* The steps of Asterisk's threads *)

(* channel_request. *)
LEMMA RequestStep ==
  ASSUME IndInv, NEW opts, Request(opts)
  PROVE  Good(pvt', {})
<1>1. Good(pvt, {}) /\ pvt.allocs < MaxCalls /\ pvt_get_pseudo_call_idx(pvt) \in Nat
  BY PseudoIdx DEF IndInv, Request, MayAlloc
<1>2. "init" \in CallStates \ {"released"}
  BY DEF CallStates, ClccStates
<1>3. pvt' = cpvt_alloc(pvt, pvt_get_pseudo_call_idx(pvt), "out", "init", opts)
  BY DEF Request
<1> QED BY <1>1, <1>2, <1>3, AllocGood

(* Marks of a call that no invariant is about. *)
LEMMA CalledGood ==
  ASSUME NEW p, Good(p, {}), NEW c \in Live(p)
  PROVE  LET q == [p EXCEPT !.cpvt[c].called = TRUE]
         IN  /\ Good(q, {}) /\ Live(q) = Live(p) /\ Outgoing(q) = Outgoing(p)
             /\ Good([q EXCEPT !.cpvt[c].opts = {}], {})
<1> DEFINE q == [p EXCEPT !.cpvt[c].called = TRUE]
           r == [q EXCEPT !.cpvt[c].opts = {}]
<1>1. Cells(q) /\ Alike(p, q) /\ Quiet(p, q) /\ q.queue = p.queue /\ q.last = p.last
  BY GoodQueue DEF Cells, PvtFields, CallFields, Alike, Quiet
<1> HIDE DEF q
<1>2. Good(q, {}) /\ Live(q) = Live(p) /\ Outgoing(q) = Outgoing(p)
  BY <1>1, QuietGood, GoodQueue
<1>3. Cells(r) /\ Alike(q, r) /\ Quiet(q, r) /\ r.queue = q.queue /\ r.last = q.last
  BY <1>2, GoodQueue DEF Cells, PvtFields, CallFields, Alike, Quiet
<1> HIDE DEF r
<1>4. Good(r, {})
  BY <1>2, <1>3, QuietGood, GoodQueue
<1> QED BY <1>2, <1>4 DEF q, r

(* channel_call. *)
LEMMA CallStep ==
  ASSUME IndInv, NEW c, Call(c)
  PROVE  Good(pvt', {})
<1>1. c \in Outgoing(pvt) /\ Good(pvt, {})
  BY DEF IndInv, Call, Outgoing
<1> DEFINE p == [pvt EXCEPT !.cpvt[c].called = TRUE]
<1>2. pvt' = at_enque_dial(p, c) \/ pvt' = [p EXCEPT !.cpvt[c].opts = {}]
  BY DEF Call
<1>3. /\ Good(p, {}) /\ Live(p) = Live(pvt) /\ Outgoing(p) = Outgoing(pvt)
      /\ Good([p EXCEPT !.cpvt[c].opts = {}], {})
  BY <1>1, CalledGood DEF Outgoing
<1> HIDE DEF p
<1>4. Good(at_enque_dial(p, c), {})
  BY <1>1, <1>3, DialGood
<1> QED BY <1>2, <1>3, <1>4

(* channel_hangup: the call loses the sound before it loses the channel. *)
LEMMA HangupStep ==
  ASSUME IndInv, NEW c, Hangup(c)
  PROVE  Good(pvt', {})
<1>1. c \in Live(pvt) /\ Good(pvt, {}) /\ pvt' = HangupCall(pvt, c)
  BY DEF IndInv, Hangup
<1> DEFINE i == pvt.cpvt[c].idx
<1>2. i \in Nat /\ c \in Cpvt /\ c \in Live(pvt) \cup {SysChan}
  BY <1>1, GoodQueue DEF Cells
<1> DEFINE h == at_enque_hangup(pvt, c, i)
           q == IF pvt.cpvt[c].need THEN [h EXCEPT !.cpvt[c].need = FALSE] ELSE pvt
           d == disactivate_call(q, c)
           r == [d EXCEPT !.cpvt[c].chan = FALSE]
<1>3. pvt' = r
  BY <1>1, Zenon DEF HangupCall
<1> HIDE DEF i
<1>4. Good(h, {}) /\ Live(h) = Live(pvt)
  BY <1>1, <1>2, HangupGood, Zenon
<1> HIDE DEF h
<1>5. Good(q, {}) /\ Live(q) = Live(pvt)
  BY <1>1, <1>4, NeedGood
<1> HIDE DEF q
<1>6. Good(d, {}) /\ Live(d) = Live(pvt) /\ ~d.cpvt[c].master
  BY <1>1, <1>5, DisactivateGood
<1> HIDE DEF d
<1>7. /\ Cells(r) /\ Alike(d, r) /\ r.queue = d.queue /\ r.last = d.last
      /\ ~r.cpvt[c].master /\ \A k \in Cpvt : k # c => r.cpvt[k] = d.cpvt[k]
  BY <1>2, <1>6, GoodQueue DEF Cells, PvtFields, CallFields, Alike
<1>8. Live(r) = Live(d)
  BY <1>7 DEF Live, Alike
<1> HIDE DEF r
<1>9. Masters(r)
  <2>1. Live(d) \subseteq Cpvt
    BY <1>6, GoodQueue
  <2> QED BY <1>6, <1>7, <1>8, <2>1 DEF Good, Masters
<1>10. Good(r, {})
  BY <1>6, <1>7, <1>9, AlikeGood, GoodQueue
<1> QED BY <1>3, <1>10

(* channel_answer. *)
LEMMA AnswerStep ==
  ASSUME IndInv, NEW c, Answer(c)
  PROVE  Good(pvt', {})
<1> DEFINE p == [pvt EXCEPT !.cpvt[c].called = TRUE]
<1>1. c \in Live(pvt) /\ Good(pvt, {}) /\ pvt' = at_enque_answer(p, c)
  BY DEF IndInv, Answer
<1>2. Good(p, {}) /\ Live(p) = Live(pvt)
  BY <1>1, CalledGood
<1> HIDE DEF p
<1> QED BY <1>1, <1>2, TalkGood

(* CHANNEL(callstate)=active. *)
LEMMA ActivateStep ==
  ASSUME IndInv, NEW c, Activate(c)
  PROVE  Good(pvt', {})
  BY TalkGood DEF IndInv, Activate

-----------------------------------------------------------------------------
(* The steps of the monitor thread *)

(* What every handler does before and after its own work. *)
LEMMA HandleGood ==
  ASSUME IndInv, NEW t, NEW p, Handle(t, p), Good(p, {})
  PROVE  IndInv'
<1>1. pvt' = at_queue_run(p) /\ rx # << >> /\ rx' = Tail(rx) /\ modem' = modem
  BY DEF Handle
<1>2. Good(pvt', {})
  BY <1>1, RunGood
<1>3. rx' \in Seq(Lines)
  BY <1>1, HeadTailProperties DEF IndInv
<1>4. ModemType'
  BY <1>1 DEF IndInv, ModemType
<1> QED BY <1>2, <1>3, <1>4 DEF IndInv

(* The line that is handled. *)
LEMMA HeadLine ==
  ASSUME IndInv, rx # << >>
  PROVE  /\ Head(rx) \in Lines
         /\ Head(rx).t # "CLCC" => Head(rx).idx \in Nat
         /\ Head(rx).t = "CLCC" => Head(rx).calls \in CallTables
<1>1. Head(rx) \in Lines
  BY HeadTailProperties DEF IndInv
<1> QED BY <1>1 DEF Lines, PlainLines

(* The head command is done with. *)
LEMMA RemoveGood ==
  ASSUME NEW p, Good(p, {}), NEW res
  PROVE  Good([p EXCEPT !.queue = at_queue_remove_cmd(@, res)], {})
<1> DEFINE q == [p EXCEPT !.queue = at_queue_remove_cmd(@, res)]
<1>1. /\ Cells(q) /\ Alike(p, q) /\ Quiet(p, q) /\ q.last = p.last
      /\ q.queue = at_queue_remove_cmd(p.queue, res)
  BY GoodQueue DEF Cells, PvtFields, Alike, Quiet
<1>2. q.queue \in Seq(TaskFor(Live(p), Outgoing(p)))
  BY <1>1, GoodQueue, RemoveTask
<1> HIDE DEF q
<1>3. Good(q, {})
  BY <1>1, <1>2, QuietGood, GoodQueue
<1> QED BY <1>3 DEF q

(* at_response_ok. *)
LEMMA OkStep ==
  ASSUME IndInv, HandleOk
  PROVE  IndInv'
<1>1. Good(pvt, {})
  BY DEF IndInv
<1>2. Good(OkEffect(pvt), {})
  <2>1. CASE pvt.queue = << >>
    BY <1>1, <2>1 DEF OkEffect
  <2>2. CASE pvt.queue # << >>
    <3>1. /\ HeadOwner \in Live(pvt) \cup {SysChan}
          /\ HeadCmd.name = "D" => HeadOwner \in Outgoing(pvt) \cup {SysChan}
      BY <1>1, <2>2, GoodQueue, HeadTaskFor DEF HeadOwner, HeadCmd
    <3>2. ASSUME NEW p, Good(p, {}), Live(p) = Live(pvt), NEW v
          PROVE  Good(SetNeed(p, HeadOwner, v), {})
      BY <3>1, <3>2, NeedGood DEF SetNeed
    <3>3. CASE HeadCmd.name = "D"
      <4> DEFINE l == IF HeadOwner = SysChan THEN pvt.last ELSE HeadOwner
                 p == [pvt EXCEPT !.dialing = TRUE, !.last = l]
      <4>1. l \in Outgoing(pvt) \cup {None}
        BY <1>1, <3>1, <3>3, GoodQueue
      <4>2. OkEffect(pvt) = SetNeed(p, HeadOwner, TRUE)
        BY <2>2, <3>3 DEF OkEffect
      <4> HIDE DEF l
      <4>3. Cells(p) /\ Alike(pvt, p) /\ Quiet(pvt, p) /\ p.queue = pvt.queue /\ p.last = l
        BY <1>1, GoodQueue DEF Cells, PvtFields, Alike, Quiet
      <4> HIDE DEF p
      <4>4. Good(p, {}) /\ Live(p) = Live(pvt)
        BY <1>1, <4>1, <4>3, QuietGood, GoodQueue
      <4> QED BY <3>2, <4>2, <4>4
    <3>4. CASE HeadCmd.name # "D"
      <4>1. OkEffect(pvt) = pvt \/ \E v \in BOOLEAN : OkEffect(pvt) = SetNeed(pvt, HeadOwner, v)
        BY <2>2, <3>4 DEF OkEffect
      <4> QED BY <1>1, <3>2, <4>1
    <3> QED BY <3>3, <3>4
  <2> QED BY <2>1, <2>2
<1> DEFINE p == [OkEffect(pvt) EXCEPT !.queue = at_queue_remove_cmd(@, RES_OK)]
<1>3. Good(p, {}) /\ Handle("OK", p)
  BY <1>2, RemoveGood DEF HandleOk
<1> QED BY <1>3, HandleGood

(* at_response_error. *)
LEMMA ErrorStep ==
  ASSUME IndInv, HandleError
  PROVE  IndInv'
  BY RemoveGood, HandleGood DEF IndInv, HandleError

(* at_response_orig: last_dialed_cpvt is a call of the list. *)
LEMMA OrigStep ==
  ASSUME IndInv, HandleOrig
  PROVE  IndInv'
<1> DEFINE i == Head(rx).idx  c == pvt.last
           p == [pvt EXCEPT !.last = None]
           q == [p EXCEPT !.cpvt[c].idx = i]
<1>1. Good(pvt, {}) /\ rx # << >> /\ i \in Nat
  BY HeadLine DEF IndInv, HandleOrig, Handle
<1>2. Good(p, {}) /\ Live(p) = Live(pvt)
  BY <1>1, LastGood
<1>3. CASE c = None
  <2>1. Handle("ORIG", p)
    BY <1>3 DEF HandleOrig
  <2> QED BY <1>2, <2>1, HandleGood
<1>4. CASE c # None
  <2> DEFINE r == change_channel_state(q, c, "dialing")
  <2>1. Handle("ORIG", at_enque_clcc(r))
    BY <1>4 DEF HandleOrig
  <2>2. c \in Live(p) /\ c \in Cpvt
    BY <1>1, <1>2, <1>4, GoodQueue DEF Good, LastDial
  <2> HIDE DEF p, i
  <2>3. Cells(q) /\ Alike(p, q) /\ Quiet(p, q) /\ q.queue = p.queue /\ q.last = p.last
    BY <1>1, <1>2, <2>2, GoodQueue DEF Cells, PvtFields, CallFields, Alike, Quiet
  <2> HIDE DEF q
  <2>4. Good(q, {}) /\ c \in Live(q)
    BY <1>2, <2>2, <2>3, QuietGood, GoodQueue
  <2>5. Good(r, {})
    BY <2>4, ChangeGood DEF CallStates, ClccStates
  <2> HIDE DEF r
  <2>6. Good(at_enque_clcc(r), {})
    BY <2>5, ClccGood
  <2> QED BY <2>1, <2>6, HandleGood DEF r, q, p, i
<1> QED BY <1>3, <1>4

(* at_response_cend. *)
LEMMA CendStep ==
  ASSUME IndInv, HandleCend
  PROVE  IndInv'
<1> DEFINE p == at_enque_clcc(pvt)  c == pvt_find_cpvt(pvt, Head(rx).idx)
           q == [p EXCEPT !.cpvt[c].need = FALSE]
<1>1. Good(pvt, {})
  BY DEF IndInv
<1>2. Good(p, {}) /\ Live(p) = Live(pvt)
  BY <1>1, ClccGood
<1>3. CASE c = None
  <2>1. Handle("CEND", p)
    BY <1>3 DEF HandleCend
  <2> QED BY <1>2, <2>1, HandleGood
<1>4. CASE c # None
  <2> DEFINE r == change_channel_state(q, c, "released")
  <2>1. Handle("CEND", r)
    BY <1>4 DEF HandleCend
  <2>2. c \in Live(p)
    BY <1>1, <1>2, <1>4, FindLive
  <2> HIDE DEF p, c
  <2>3. Good(q, {}) /\ c \in Live(q)
    BY <1>2, <2>2, NeedGood
  <2> HIDE DEF q
  <2>4. Good(r, {})
    BY <2>3, ChangeGood DEF CallStates, ClccStates
  <2> QED BY <2>1, <2>4, HandleGood DEF q, p, c
<1> QED BY <1>3, <1>4

(* at_response_conn. *)
LEMMA ConnStep ==
  ASSUME IndInv, HandleConn
  PROVE  IndInv'
<1> DEFINE f == [pvt EXCEPT !.ring = FALSE, !.dialing = FALSE, !.cwaiting = FALSE]
           p == at_enque_clcc(f)
           i == Head(rx).idx
           c == pvt_find_cpvt(pvt, i)
           q == change_channel_state(p, c, "active")
<1>1. Good(pvt, {}) /\ i \in Nat
  BY HeadLine DEF IndInv, HandleConn, Handle
<1>2. Good(f, {}) /\ Live(f) = Live(pvt)
  <2>1. Cells(f) /\ Alike(pvt, f) /\ Quiet(pvt, f) /\ f.queue = pvt.queue /\ f.last = pvt.last
    BY <1>1, GoodQueue DEF Cells, PvtFields, Alike, Quiet
  <2> HIDE DEF f
  <2> QED BY <1>1, <2>1, QuietGood, GoodQueue
<1>3. Handle("CONN", IF c = None THEN at_enque_hangup(p, SysChan, i)
                     ELSE IF "conference" \in q.cpvt[c].opts THEN at_enque_conference(q, c) ELSE q)
  BY DEF HandleConn
<1>4. c # None => c \in Live(pvt)
  BY <1>1, FindLive
<1> HIDE DEF f, i, c
<1>5. Good(p, {}) /\ Live(p) = Live(pvt)
  BY <1>2, ClccGood
<1> HIDE DEF p
<1>6. CASE c = None
  <2>1. Good(at_enque_hangup(p, SysChan, i), {})
    BY <1>1, <1>5, HangupGood
  <2> QED BY <1>3, <1>6, <2>1, HandleGood
<1>7. CASE c # None
  <2>1. Good(q, {}) /\ c \in Live(q)
    BY <1>4, <1>5, <1>7, ChangeGood DEF CallStates, ClccStates
  <2> HIDE DEF q
  <2>2. Good(at_enque_conference(q, c), {})
    BY <2>1, TalkGood
  <2> QED BY <1>3, <1>7, <2>1, <2>2, HandleGood
<1> QED BY <1>6, <1>7

(* RING and +CCWA. *)
LEMMA RingStep ==
  ASSUME IndInv, HandleRing \/ HandleCcwa
  PROVE  IndInv'
<1> DEFINE f(r, d, w) == [pvt EXCEPT !.ring = r, !.dialing = d, !.cwaiting = w]
<1>1. Good(pvt, {}) /\ Cells(pvt)
  BY GoodQueue DEF IndInv
<1>2. ASSUME NEW r, NEW d, NEW w PROVE Good(at_enque_clcc(f(r, d, w)), {})
  <2>1. Good(f(r, d, w), {})
    BY <1>1, FlagsGood
  <2> QED BY <2>1, ClccGood
<1>3. CASE HandleRing
  BY <1>2, <1>3, HandleGood DEF HandleRing
<1>4. CASE HandleCcwa
  <2> DEFINE g == [pvt EXCEPT !.cwaiting = TRUE]
  <2>1. Cells(g) /\ Alike(pvt, g) /\ Quiet(pvt, g) /\ g.queue = pvt.queue /\ g.last = pvt.last
    BY <1>1 DEF Cells, PvtFields, Alike, Quiet
  <2>2. Handle("CCWA", at_enque_clcc(g))
    BY <1>4 DEF HandleCcwa
  <2> HIDE DEF g
  <2>3. Good(g, {})
    BY <1>1, <2>1, QuietGood, GoodQueue
  <2>4. Good(at_enque_clcc(g), {})
    BY <2>3, ClccGood
  <2> QED BY <2>2, <2>4, HandleGood
<1> QED BY <1>3, <1>4

(* start_pbx, whether the dialplan starts or not. *)
LEMMA StartGood ==
  ASSUME NEW p, Good(p, {}), NEW idx \in Nat, NEW state \in CallStates \ {"released"},
         NEW started \in BOOLEAN
  PROVE  Good(start_pbx(p, idx, state, started), {})
<1> DEFINE q == cpvt_alloc(p, idx, "in", state, {})  c == q.allocs
<1>1. CASE ~MayAlloc(p)
  BY <1>1, HangupGood DEF start_pbx
<1>2. CASE MayAlloc(p)
  <2>1. Good(q, {}) /\ c \in Live(q)
    BY <1>2, AllocGood DEF MayAlloc
  <2>2. start_pbx(p, idx, state, started)
          = IF started THEN [q EXCEPT !.cpvt[c].need = TRUE] ELSE cpvt_free(q, c)
    BY <1>2 DEF start_pbx
  <2> HIDE DEF q
  <2>3. Good([q EXCEPT !.cpvt[c].need = TRUE], {})
    BY <2>1, NeedGood
  <2>4. Good(cpvt_free(q, c), {} \ {c}) /\ {} \ {c} = {}
    BY <2>1, FreeGood
  <2> QED BY <2>2, <2>3, <2>4
<1> QED BY <1>1, <1>2

(* The entry of +CLCC that is parsed: the first that the modem tells of. *)
LEMMA ParsedType ==
  ASSUME NEW calls \in CallTables
  PROVE  LET e == ParsedEntry(calls) IN e.idx \in Nat /\ e.st \in ClccStates
<1> DEFINE S == {k \in Idx : calls[k].st # "none"}
<1>1. S # {} /\ S \in SUBSET Nat
  BY DEF CallTables, Idx
<1>2. Min(S) \in S
  <2> HIDE DEF S
  <2> QED BY <1>1, MinIn
<1>3. calls[Min(S)].st \in ClccStates /\ Min(S) \in Nat
  <2>1. Min(S) \in Idx /\ calls[Min(S)].st # "none"
    BY <1>2
  <2> HIDE DEF S
  <2>2. calls[Min(S)].st \in ClccStates \cup {"none"}
    BY <2>1 DEF CallTables
  <2> QED BY <2>1, <2>2 DEF Idx
<1> HIDE DEF S
<1>4. ParsedEntry(calls).idx = Min(S) /\ ParsedEntry(calls).st = calls[Min(S)].st
  BY DEF ParsedEntry, S
<1> QED BY <1>3, <1>4

(* at_response_clcc. *)
LEMMA ClccStep ==
  ASSUME IndInv, HandleClcc
  PROVE  IndInv'
<1> DEFINE e == ParsedEntry(Head(rx).calls)
<1>1. Good(pvt, {}) /\ rx # << >> /\ Head(rx).t = "CLCC"
  BY DEF IndInv, HandleClcc
<1>2. PICK started \in BOOLEAN : Handle("CLCC", ClccFlags(ClccCall(pvt, e, started), e.st))
  BY DEF HandleClcc
<1>3. e.idx \in Nat /\ e.st \in ClccStates
  BY <1>1, HeadLine, ParsedType
<1> HIDE DEF e
<1> DEFINE c == pvt_find_cpvt(pvt, e.idx)  q == ClccCall(pvt, e, started)
<1>4. e.st \in CallStates /\ e.st # "released"
  BY <1>3 DEF CallStates, ClccStates
<1>5. Good(q, {})
  <2>1. c # None => Good(change_channel_state(pvt, c, e.st), {})
    BY <1>1, <1>4, FindLive, ChangeGood
  <2>2. Good(start_pbx(pvt, e.idx, e.st, started), {})
    BY <1>1, <1>3, <1>4, StartGood
  <2> QED BY <1>1, <2>1, <2>2 DEF ClccCall
<1> HIDE DEF q
<1>6. Good(ClccFlags(q, e.st), {})
  <2> DEFINE r == (e.st = "incoming")  d == (e.st \in {"dialing", "alerting"})  w == (e.st = "waiting")
             f == [q EXCEPT !.cwaiting = w, !.ring = r, !.dialing = d]
  <2>1. ClccFlags(q, e.st) = q \/ ClccFlags(q, e.st) = f
    BY DEF ClccFlags
  <2> HIDE DEF r, d, w
  <2>2. Cells(f) /\ Alike(q, f) /\ Quiet(q, f) /\ f.queue = q.queue /\ f.last = q.last
    BY <1>5, GoodQueue DEF Cells, PvtFields, Alike, Quiet
  <2> HIDE DEF f
  <2>3. Good(f, {})
    BY <1>5, <2>2, QuietGood, GoodQueue
  <2> QED BY <1>5, <2>1, <2>3
<1> QED BY <1>2, <1>6, HandleGood DEF q

(* disconnect_datacard: the next allocation goes on where the last one was. *)
LEMMA DisconnectStep ==
  ASSUME IndInv, Disconnect
  PROVE  IndInv'
<1>1. pvt.allocs \in 0 .. MaxCalls
  BY DEF IndInv, Good, Listed
<1>2. Good(pvt', {})
  BY <1>1, EmptyGood DEF Disconnect
<1>3. rx' \in Seq(Lines)
  BY DEF Disconnect
<1>4. ModemType'
  <2> DEFINE call == Released({pvt.cpvt[c].idx : c \in Live(pvt)})
  <2>1. call \in ModemCalls
    BY ReleasedType
  <2>2. modem' = [modem EXCEPT !.call = call, !.pend = None, !.drops = @ + 1]
    BY DEF Disconnect
  <2> HIDE DEF call
  <2> QED BY <2>1, <2>2 DEF IndInv, ModemType
<1> QED BY <1>2, <1>3, <1>4 DEF IndInv

-----------------------------------------------------------------------------
(* The steps of the modem, which leave the device alone *)

LEMMA ExecStep ==
  ASSUME IndInv, ModemExec
  PROVE  ModemGood
<1>1. pvt.queue # << >> /\ Exec(HeadCmd)
  BY DEF ModemExec, HeadSent
<1>2. HeadCmd \in Command
  BY <1>1, GoodQueue, HeadTaskFor DEF HeadCmd, IndInv
<1> QED BY <1>1, <1>2, ExecType

(* A call gets the lowest index that is free. *)
LEMMA FreeIndex ==
  ASSUME FreeIdx # {}
  PROVE  Min(FreeIdx) \in Idx
<1>1. FreeIdx \subseteq Idx /\ Idx \subseteq Nat
  BY DEF FreeIdx, In, Idx
<1> QED BY <1>1, MinIn

LEMMA OrigExecStep ==
  ASSUME IndInv, ModemOrig
  PROVE  ModemGood
<1> DEFINE i == Min(FreeIdx)
           new == [st |-> "dialing", dir |-> "out", own |-> modem.pend]
           call == [modem.call EXCEPT ![i] = new]
<1>1. i \in Idx /\ modem.pend # None /\ Unasked(Line("ORIG", i), call, None)
  BY FreeIndex DEF ModemOrig
<1> HIDE DEF i
<1>2. new \in [st : ClccStates \cup {"none"}, dir : {"in", "out"}, own : Nat]
  BY <1>1, ModemParts DEF ClccStates
<1> HIDE DEF new
<1>3. call \in ModemCalls
  BY <1>1, <1>2, ModemParts DEF ModemCalls
<1> HIDE DEF call
<1>4. Line("ORIG", i) \in Lines
  BY <1>1, LineType, ModemParts
<1> QED BY <1>1, <1>3, <1>4, UnaskedType, ModemParts

(* Somebody calls. *)
LEMMA IncomingStep ==
  ASSUME IndInv, ModemIncoming
  PROVE  ModemGood
<1> DEFINE i == Min(FreeIdx)
           st == IF FreeIdx = Idx THEN "incoming" ELSE "waiting"
           new == [st |-> st, dir |-> "in", own |-> SysChan]
<1>1. /\ i \in Idx /\ rx' = Append(rx, RingLine(i, st))
      /\ modem' = [modem EXCEPT !.call[i] = new, !.inc = @ + 1]
  BY FreeIndex DEF ModemIncoming
<1> HIDE DEF i
<1>2. new \in [st : ClccStates \cup {"none"}, dir : {"in", "out"}, own : Nat]
  BY DEF ClccStates, SysChan
<1>3. RingLine(i, st) \in Lines
  BY <1>1, LineType, ModemParts DEF RingLine
<1> HIDE DEF new, st
<1>4. ModemType'
  BY <1>1, <1>2 DEF IndInv, ModemType, ModemCalls
<1>5. rx' \in Seq(Lines)
  BY <1>1, <1>3, AppendProperties DEF IndInv
<1> QED BY <1>4, <1>5 DEF ModemGood

(* A call of the modem rings, is answered, or ends. *)
LEMMA CallProgress ==
  ASSUME IndInv, NEW i \in Idx,
         ModemAlert(i) \/ ModemConn(i) \/ ModemRings(i) \/ RemoteEnds(i)
  PROVE  ModemGood
<1> DEFINE call == modem.call
<1>1. CASE ModemAlert(i)
  <2>1. modem' = [modem EXCEPT !.call = [call EXCEPT ![i].st = "alerting"]]
    BY <1>1 DEF ModemAlert
  <2>2. Moved([call EXCEPT ![i].st = "alerting"])
    BY ModemParts DEF Moved, ModemCalls, ClccStates
  <2>3. [call EXCEPT ![i].st = "alerting"] \in ModemCalls
    BY <2>2, MovedType
  <2>4. rx' = rx
    BY <1>1 DEF ModemAlert
  <2> QED BY <2>1, <2>3, <2>4 DEF ModemGood, IndInv, ModemType
<1>2. CASE ModemConn(i)
  <2>1. Unasked(Line("CONN", i), [call EXCEPT ![i].st = "active"], modem.pend)
    BY <1>2 DEF ModemConn
  <2>2. Moved([call EXCEPT ![i].st = "active"])
    BY ModemParts DEF Moved, ModemCalls, ClccStates
  <2>3. Line("CONN", i) \in Lines
    BY LineType, ModemParts
  <2> QED BY <2>1, <2>2, <2>3, MovedType, UnaskedType, ModemParts
<1>3. CASE ModemRings(i)
  <2>1. Unasked(RingLine(i, call[i].st), call, modem.pend)
    BY <1>3 DEF ModemRings
  <2>2. RingLine(i, call[i].st) \in Lines
    BY LineType, ModemParts DEF RingLine
  <2> QED BY <2>1, <2>2, UnaskedType, ModemParts
<1>4. CASE RemoteEnds(i)
  <2>1. Unasked(Line("CEND", i), Released({i}), modem.pend)
    BY <1>4 DEF RemoteEnds
  <2>2. Line("CEND", i) \in Lines
    BY LineType, ModemParts
  <2> QED BY <2>1, <2>2, ReleasedType, UnaskedType, ModemParts
<1> QED BY <1>1, <1>2, <1>3, <1>4

-----------------------------------------------------------------------------
(* The invariant and what follows *)

(* A device just connected has no calls and nothing was said. *)
LEMMA InitInv == Init => IndInv
<1> SUFFICES ASSUME Init PROVE IndInv
  OBVIOUS
<1>1. Good(pvt, {})
  BY EmptyGood, CallOpsAssumption DEF Init
<1>2. rx \in Seq(Lines)
  BY DEF Init
<1>3. ModemType
  <2> DEFINE call == [i \in Idx |-> NoCall]
  <2>1. call \in ModemCalls
    BY DEF ModemCalls, NoCall, SysChan
  <2>2. modem = [call |-> call, pend |-> None, inc |-> 0, drops |-> 0]
    BY DEF Init
  <2> HIDE DEF call
  <2> QED BY <2>1, <2>2 DEF ModemType
<1> QED BY <1>1, <1>2, <1>3 DEF IndInv

(* Every step keeps the invariant. *)
LEMMA NextInv == IndInv /\ [Next]_vars => IndInv'
<1> SUFFICES ASSUME IndInv, [Next]_vars PROVE IndInv'
  OBVIOUS
<1>1. ASSUME Good(pvt', {}), UNCHANGED <<rx, answered, modem>> PROVE IndInv'
  BY <1>1 DEF IndInv, ModemType
<1>2. ASSUME ModemGood, UNCHANGED pvt PROVE IndInv'
  BY <1>2 DEF IndInv, ModemGood
<1>3. CASE \E opts \in Options : Request(opts)
  BY <1>1, <1>3, RequestStep DEF Request
<1>4. CASE \E c \in Cpvt : Call(c) \/ Hangup(c) \/ Answer(c) \/ Activate(c)
  <2> PICK c \in Cpvt : Call(c) \/ Hangup(c) \/ Answer(c) \/ Activate(c)
    BY <1>4
  <2>1. Good(pvt', {})
    BY CallStep, HangupStep, AnswerStep, ActivateStep
  <2>2. UNCHANGED <<rx, answered, modem>>
    BY DEF Call, Hangup, Answer, Activate
  <2> QED BY <1>1, <2>1, <2>2
<1>5. CASE ModemExec
  BY <1>2, <1>5, ExecStep DEF ModemExec
<1>6. CASE ModemOrig
  BY <1>2, <1>6, OrigExecStep DEF ModemOrig, Unasked
<1>7. CASE ModemIncoming
  BY <1>2, <1>7, IncomingStep DEF ModemIncoming
<1>8. CASE \E i \in Idx : ModemAlert(i) \/ ModemConn(i) \/ ModemRings(i) \/ RemoteEnds(i)
  <2>1. ModemGood
    BY <1>8, CallProgress
  <2>2. UNCHANGED pvt
    BY <1>8 DEF ModemAlert, ModemConn, ModemRings, RemoteEnds, Unasked
  <2> QED BY <1>2, <2>1, <2>2
<1>9. CASE Monitor
  BY <1>9, OkStep, ErrorStep, OrigStep, CendStep, ConnStep, RingStep, ClccStep DEF Monitor
<1>10. CASE Disconnect
  BY <1>10, DisconnectStep
<1>11. CASE UNCHANGED vars
  BY <1>11 DEF vars, IndInv, ModemType
<1> QED BY <1>3, <1>4, <1>5, <1>6, <1>7, <1>8, <1>9, <1>10, <1>11 DEF Next

(* The invariant holds in every reachable state. *)
THEOREM Invariant == Spec => []IndInv
<1>1. Init => IndInv
  BY InitInv
<1>2. IndInv /\ [Next]_vars => IndInv'
  BY NextInv
<1> QED BY <1>1, <1>2, PTL DEF Spec

(* chansno and chan_count[] agree with the list of calls whatever the order  *)
(* of dials, hangups, lines of the modem and lost devices, and no call stays *)
(* on the list once it was released.                                         *)
THEOREM CountsAgree == Spec => []CountsExact
<1>1. IndInv => CountsExact
  <2> SUFFICES ASSUME IndInv PROVE CountsExact
    OBVIOUS
  <2>1. Good(pvt, {}) /\ "released" \in CallStates
    BY DEF IndInv, CallStates
  <2>2. \A s \in CallStates : pvt.count[s] = Cardinality(InState(pvt, s))
    BY <2>1 DEF Good, Counts
  <2>3. InState(pvt, "released") = {}
    BY <2>1 DEF Good, Held, InState
  <2>4. pvt.count["released"] = 0
    BY <2>1, <2>2, <2>3, FS_EmptySet
  <2>5. pvt.chansno = Len(pvt.chans)
    BY <2>1 DEF Good, Listed
  <2> QED BY <2>2, <2>4, <2>5 DEF CountsExact, InState
<1> QED BY <1>1, Invariant, PTL

(* Neither the queue nor last_dialed_cpvt points to a call that was freed. *)
THEOREM NothingDangles == Spec => []NoDanglingCall
<1>1. IndInv => NoDanglingCall
  <2> SUFFICES ASSUME IndInv PROVE NoDanglingCall
    OBVIOUS
  <2>1. Good(pvt, {}) /\ pvt.queue \in Seq(TaskFor(Live(pvt), Outgoing(pvt)))
    BY GoodQueue DEF IndInv
  <2>2. ASSUME NEW i \in DOMAIN pvt.queue PROVE pvt.queue[i].cpvt \in Live(pvt) \cup {SysChan}
    <3>1. pvt.queue[i] \in TaskFor(Live(pvt), Outgoing(pvt))
      BY <2>1
    <3> QED BY <3>1 DEF TaskFor
  <2>3. pvt.last # None => pvt.last \in Live(pvt) /\ pvt.cpvt[pvt.last].dir = "out"
    BY <2>1 DEF Good, LastDial, Outgoing
  <2> QED BY <2>2, <2>3 DEF NoDanglingCall
<1> QED BY <1>1, Invariant, PTL

(* One call at most is MASTER, and its channel polls the audio port. *)
THEOREM MasterIsOne == Spec => []OneMaster
<1>1. IndInv => OneMaster
  BY DEF IndInv, Good, Masters, OneMaster
<1> QED BY <1>1, Invariant, PTL
-----------------------------------------------------------------------------
(* Which calls share an index *)

(* No two calls share an index in q that did not in p *)
NoClash(p, q) == \A c, d \in Cpvt : SameIdx(q, c, d) => SameIdx(p, c, d)

(* Calls that keep their indices do not clash anew. *)
LEMMA KeepsClashes ==
  ASSUME NEW p, NEW q, Keeps(p, q)
  PROVE  NoClash(p, q)
  BY DEF Keeps, NoClash, SameIdx

(* One step after the other. *)
LEMMA NoClashOn ==
  ASSUME NEW p, NEW q, NEW r, NoClash(p, q), NoClash(q, r)
  PROVE  NoClash(p, r)
  BY DEF NoClash

(* A call with an index of its own. *)
LEMMA AllocClash ==
  ASSUME NEW p, Good(p, {}), p.allocs < MaxCalls, NEW idx \in Nat, NEW dir,
         NEW state \in CallStates \ {"released"}, NEW opts,
         idx # 0 => \A k \in Live(p) : p.cpvt[k].idx # idx
  PROVE  NoClash(p, cpvt_alloc(p, idx, dir, state, opts))
<1> DEFINE q == cpvt_alloc(p, idx, dir, state, opts)  n == p.allocs + 1
<1>1. /\ Cells(p) /\ p.allocs \in Nat /\ n \in Cpvt /\ n \notin Live(p) /\ Live(p) \subseteq Cpvt
  <2>1. p.allocs \in Nat /\ n \in Cpvt /\ n \notin 1 .. p.allocs
    BY CallOpsAssumption DEF Good, Listed, Cpvt
  <2> QED BY <2>1, GoodQueue, LiveCalls DEF Good
<1>2. Live(q) = Live(p) \cup {q.allocs}
  BY AllocGood
<1> HIDE DEF n
<1>3. q.allocs = n /\ q.cpvt[n].idx = idx /\ \A k \in Cpvt : k # n => q.cpvt[k] = p.cpvt[k]
  BY <1>1 DEF cpvt_alloc, Cells, PvtFields, CallFields, Blank, n
<1> HIDE DEF q
<1>4. ASSUME NEW c \in Cpvt, NEW d \in Cpvt, SameIdx(q, c, d) PROVE c # n /\ d # n
  BY <1>1, <1>2, <1>3, <1>4 DEF SameIdx
<1>5. ASSUME NEW c \in Cpvt, NEW d \in Cpvt, SameIdx(q, c, d) PROVE SameIdx(p, c, d)
  BY <1>2, <1>3, <1>4, <1>5 DEF SameIdx
<1> QED BY <1>5 DEF NoClash, q

(* channel_request: the pseudo index. *)
LEMMA RequestClash ==
  ASSUME IndInv, NEW opts, Request(opts)
  PROVE  NoClash(pvt, pvt')
<1> DEFINE i == pvt_get_pseudo_call_idx(pvt)
<1>1. Good(pvt, {}) /\ pvt.allocs < MaxCalls /\ i \in Nat
  BY PseudoIdx DEF IndInv, Request, MayAlloc
<1>2. i # 0 => \A k \in Live(pvt) : pvt.cpvt[k].idx # i
  BY PseudoFree
<1>3. "init" \in CallStates \ {"released"} /\ pvt' = cpvt_alloc(pvt, i, "out", "init", opts)
  BY DEF CallStates, ClccStates, Request
<1> HIDE DEF i
<1> QED BY <1>1, <1>2, <1>3, AllocClash

(* channel_call. *)
LEMMA CallKeeps ==
  ASSUME IndInv, NEW c, Call(c)
  PROVE  Keeps(pvt, pvt')
<1> DEFINE p == [pvt EXCEPT !.cpvt[c].called = TRUE]
<1>1. c \in Outgoing(pvt) /\ Good(pvt, {}) /\ c \in Cpvt /\ Cells(pvt)
  BY GoodQueue DEF IndInv, Call, Outgoing
<1>2. pvt' = at_enque_dial(p, c) \/ pvt' = [p EXCEPT !.cpvt[c].opts = {}]
  BY DEF Call
<1>3. Good(p, {}) /\ Outgoing(p) = Outgoing(pvt) /\ Cells(p) /\ Keeps(pvt, p)
  <2>1. Good(p, {}) /\ Outgoing(p) = Outgoing(pvt)
    BY <1>1, CalledGood DEF Outgoing
  <2> QED BY <1>1, <2>1, GoodQueue, MarksKeep
<1> HIDE DEF p
<1>4. Keeps(p, at_enque_dial(p, c)) /\ Keeps(p, [p EXCEPT !.cpvt[c].opts = {}])
  BY <1>1, <1>3, DialKeeps, MarksKeep
<1> QED BY <1>2, <1>3, <1>4, KeepsOn

(* channel_hangup. *)
LEMMA HangupKeeps ==
  ASSUME IndInv, NEW c, Hangup(c)
  PROVE  Keeps(pvt, pvt')
<1> DEFINE i == pvt.cpvt[c].idx
           h == at_enque_hangup(pvt, c, i)
           q == IF pvt.cpvt[c].need THEN [h EXCEPT !.cpvt[c].need = FALSE] ELSE pvt
           d == disactivate_call(q, c)
           r == [d EXCEPT !.cpvt[c].chan = FALSE]
<1>1. c \in Live(pvt) /\ Good(pvt, {}) /\ Cells(pvt) /\ c \in Cpvt /\ i \in Nat
  BY GoodQueue DEF IndInv, Hangup, Cells
<1>2. pvt' = r
  BY Zenon DEF Hangup, HangupCall
<1>3. c \in Live(pvt) \cup {SysChan} /\ pvt.cpvt[c].idx \in Nat
  BY <1>1
<1> HIDE DEF i
<1>4. Good(h, {}) /\ Live(h) = Live(pvt) /\ Keeps(pvt, h)
  BY <1>1, <1>3, HangupGood, ListsKeep, Zenon
<1> HIDE DEF h
<1>5. Good(q, {}) /\ Live(q) = Live(pvt) /\ Keeps(pvt, q)
  <2>1. Cells(h)
    BY <1>4, GoodQueue
  <2>2. Keeps(h, [h EXCEPT !.cpvt[c].need = FALSE])
    BY <1>1, <2>1, MarksKeep
  <2>3. Good([h EXCEPT !.cpvt[c].need = FALSE], {}) /\ Live([h EXCEPT !.cpvt[c].need = FALSE]) = Live(h)
    BY <1>1, <1>4, NeedGood
  <2> QED BY <1>1, <1>4, <2>2, <2>3, KeepsOn, ListsKeep
<1> HIDE DEF q
<1>6. Cells(d) /\ Keeps(pvt, d)
  <2>1. Good(d, {}) /\ Keeps(q, d)
    BY <1>1, <1>5, DisactivateGood, SoundKeeps
  <2> QED BY <1>5, <2>1, GoodQueue, KeepsOn
<1> HIDE DEF d
<1>7. Keeps(d, r)
  BY <1>1, <1>6, MarksKeep
<1> QED BY <1>2, <1>6, <1>7, KeepsOn

(* channel_answer and CHANNEL(callstate)=active. *)
LEMMA TalkKeeps ==
  ASSUME IndInv, NEW c, Answer(c) \/ Activate(c)
  PROVE  Keeps(pvt, pvt')
<1> DEFINE p == [pvt EXCEPT !.cpvt[c].called = TRUE]
<1>1. c \in Live(pvt) /\ Good(pvt, {}) /\ Cells(pvt) /\ c \in Cpvt
  BY GoodQueue DEF IndInv, Answer, Activate
<1>2. CASE Activate(c)
  BY <1>1, <1>2, ListsKeep DEF Activate
<1>3. CASE Answer(c)
  <2>1. pvt' = at_enque_answer(p, c)
    BY <1>3 DEF Answer
  <2>2. Cells(p) /\ Keeps(pvt, p)
    BY <1>1, CalledGood, MarksKeep, GoodQueue
  <2> HIDE DEF p
  <2>3. Keeps(p, at_enque_answer(p, c))
    BY <1>1, <2>2, ListsKeep
  <2> QED BY <2>1, <2>2, <2>3, KeepsOn
<1> QED BY <1>2, <1>3
(* There is a call at all. *)
LEMMA OneCall == 1 \in Cpvt
  BY CallOpsAssumption DEF Cpvt

(* What a handler does is followed by the queue. *)
LEMMA HandleClash ==
  ASSUME NEW t, NEW p, Handle(t, p), Cells(p), NoClash(pvt, p)
  PROVE  NoClash(pvt, pvt')
<1>1. pvt' = at_queue_run(p) /\ Keeps(p, at_queue_run(p))
  BY InsertKeeps DEF Handle
<1> QED BY <1>1, KeepsClashes, NoClashOn

(* ... and that is all, if the handler changes no index. *)
LEMMA HandleKeeps ==
  ASSUME NEW t, NEW p, Handle(t, p), Cells(p), Keeps(pvt, p)
  PROVE  NoClash(pvt, pvt')
  BY HandleClash, KeepsClashes

(* at_response_ok and at_response_error. *)
LEMMA OkKeeps ==
  ASSUME IndInv, HandleOk \/ HandleError
  PROVE  NoClash(pvt, pvt')
<1>1. Good(pvt, {}) /\ Cells(pvt) /\ Keeps(pvt, pvt)
  <2>1. Good(pvt, {})
    BY DEF IndInv
  <2> QED BY <2>1, GoodQueue DEF Keeps
<1>2. ASSUME NEW p, Cells(p), NEW res
      PROVE  LET q == [p EXCEPT !.queue = at_queue_remove_cmd(@, res)] IN Cells(q) /\ Keeps(p, q)
  <2> DEFINE q == [p EXCEPT !.queue = at_queue_remove_cmd(@, res)]
  <2>1. DOMAIN p = PvtFields
    BY <1>2 DEF Cells
  <2>2. DOMAIN q = DOMAIN p /\ q.chans = p.chans /\ q.cpvt = p.cpvt /\ q.count = p.count
    BY <2>1 DEF PvtFields
  <2> HIDE DEF q
  <2>3. Cells(q) /\ Keeps(p, q)
    BY <1>2, <2>2, FieldsKeep
  <2> QED BY <2>3 DEF q
<1>3. CASE HandleError
  <2> DEFINE q == [pvt EXCEPT !.queue = at_queue_remove_cmd(@, RES_ERROR)]
  <2>1. Cells(q) /\ Keeps(pvt, q) /\ Handle("ERROR", q)
    BY <1>1, <1>2, <1>3 DEF HandleError
  <2> HIDE DEF q
  <2> QED BY <2>1, HandleKeeps
<1>4. CASE HandleOk
  <2>1. Cells(OkEffect(pvt)) /\ Keeps(pvt, OkEffect(pvt))
    <3>1. CASE pvt.queue = << >>
      BY <1>1, <3>1 DEF OkEffect
    <3>2. CASE pvt.queue # << >>
      <4>1. HeadOwner = SysChan \/ HeadOwner \in Cpvt
        <5>1. HeadOwner \in Live(pvt) \cup {SysChan}
          BY <1>1, <3>2, GoodQueue, HeadTaskFor DEF HeadOwner, HeadCmd
        <5> QED BY <1>1, <5>1, GoodQueue
      <4>2. ASSUME NEW p, Cells(p), NEW v
            PROVE  Cells(SetNeed(p, HeadOwner, v)) /\ Keeps(p, SetNeed(p, HeadOwner, v))
        <5>1. CASE HeadOwner = SysChan
          BY <4>2, <5>1 DEF SetNeed, Keeps
        <5>2. CASE HeadOwner \in Cpvt
          <6> DEFINE q == [p EXCEPT !.cpvt[HeadOwner].need = v]
          <6>1. SetNeed(p, HeadOwner, v) = q
            BY <5>2 DEF SetNeed, SysChan, Cpvt
          <6>2. Cells(q)
            BY <4>2, <5>2, SMTT(30) DEF Cells, PvtFields, CallFields
          <6>3. Keeps(p, q)
            BY <4>2, <5>2, MarksKeep
          <6> QED BY <6>1, <6>2, <6>3
        <5> QED BY <4>1, <5>1, <5>2
      <4>3. CASE HeadCmd.name = "D"
        <5> DEFINE l == IF HeadOwner = SysChan THEN pvt.last ELSE HeadOwner
                   p == [pvt EXCEPT !.dialing = TRUE, !.last = l]
        <5>1. OkEffect(pvt) = SetNeed(p, HeadOwner, TRUE)
          BY <3>2, <4>3 DEF OkEffect
        <5> HIDE DEF l
        <5>2. DOMAIN pvt = PvtFields
          BY <1>1 DEF Cells
        <5>3. DOMAIN p = DOMAIN pvt /\ p.chans = pvt.chans /\ p.cpvt = pvt.cpvt /\ p.count = pvt.count
          BY <5>2 DEF PvtFields
        <5> HIDE DEF p
        <5>4. Cells(p) /\ Keeps(pvt, p)
          BY <1>1, <5>3, FieldsKeep
        <5> QED BY <4>2, <5>1, <5>4, KeepsOn
      <4>4. CASE HeadCmd.name # "D"
        <5>1. OkEffect(pvt) = pvt \/ \E v \in BOOLEAN : OkEffect(pvt) = SetNeed(pvt, HeadOwner, v)
          BY <3>2, <4>4 DEF OkEffect
        <5> QED BY <1>1, <4>2, <5>1
      <4> QED BY <4>3, <4>4
    <3> QED BY <3>1, <3>2
  <2> DEFINE p == OkEffect(pvt)
             q == [p EXCEPT !.queue = at_queue_remove_cmd(@, RES_OK)]
  <2>2. Handle("OK", q)
    BY <1>4 DEF HandleOk
  <2> HIDE DEF p
  <2>3. Cells(q) /\ Keeps(p, q) /\ Keeps(pvt, p)
    BY <1>2, <2>1 DEF p
  <2> HIDE DEF q
  <2> QED BY <2>2, <2>3, HandleKeeps, KeepsOn
<1> QED BY <1>3, <1>4

(* at_response_orig: the call dialled last has the index of the line, all    *)
(* others have what they had.                                                *)
LEMMA OrigClash ==
  ASSUME IndInv, HandleOrig, NEW c \in Cpvt, NEW d \in Cpvt,
         SameIdx(pvt', c, d), ~SameIdx(pvt, c, d)
  PROVE  pvt.last \in {c, d} /\ pvt'.cpvt[pvt.last].idx = Head(rx).idx
<1> DEFINE i == Head(rx).idx  l == pvt.last
           p == [pvt EXCEPT !.last = None]
           q == [p EXCEPT !.cpvt[l].idx = i]
           r == change_channel_state(q, l, "dialing")
<1>1. Good(pvt, {}) /\ i \in Nat
  BY HeadLine DEF IndInv, HandleOrig, Handle
<1>2. Good(p, {}) /\ Live(p) = Live(pvt) /\ p.cpvt = pvt.cpvt
  BY <1>1, LastGood
<1>3. CASE l = None
  <2>1. Handle("ORIG", p) /\ Cells(p) /\ Keeps(pvt, p)
    BY <1>2, <1>3, GoodQueue DEF HandleOrig, Keeps
  <2>2. NoClash(pvt, pvt')
    BY <2>1, HandleKeeps
  <2> QED BY <2>2 DEF NoClash
<1>4. CASE l # None
  <2>1. Handle("ORIG", at_enque_clcc(r))
    BY <1>4 DEF HandleOrig
  <2>2. l \in Live(p) /\ l \in Cpvt
    BY <1>1, <1>2, <1>4, GoodQueue DEF Good, LastDial
  <2> HIDE DEF p, i
  <2>3. /\ Cells(q) /\ Alike(p, q) /\ Quiet(p, q) /\ q.queue = p.queue /\ q.last = p.last
        /\ q.cpvt[l].idx = i /\ \A k \in Cpvt : k # l => q.cpvt[k] = p.cpvt[k]
    BY <1>1, <1>2, <2>2, GoodQueue DEF Cells, PvtFields, CallFields, Alike, Quiet, i
  <2> HIDE DEF q
  <2>4. Good(q, {}) /\ Live(q) = Live(pvt)
    BY <1>2, <2>2, <2>3, QuietGood, GoodQueue
  <2>5. Good(r, {}) /\ Keeps(q, r)
    BY <2>2, <2>4, <1>2, ChangeGood, ChangeKeeps DEF CallStates, ClccStates
  <2> HIDE DEF r
  <2>6. Cells(r) /\ Cells(at_enque_clcc(r)) /\ Keeps(r, at_enque_clcc(r))
    BY <2>2, <2>5, ClccGood, GoodQueue, ListsKeep
  <2>7. Keeps(q, pvt')
    BY <2>1, <2>5, <2>6, InsertKeeps, KeepsOn DEF Handle
  <2>8. \A k \in {c, d} : k \in Live(q) /\ pvt'.cpvt[k].idx = q.cpvt[k].idx
    BY <2>7 DEF Keeps, SameIdx
  <2>9. l \in {c, d}
    BY <1>2, <2>3, <2>4, <2>8 DEF SameIdx
  <2> QED BY <2>3, <2>8, <2>9 DEF i
<1> QED BY <1>3, <1>4

(* at_response_cend. *)
LEMMA CendKeeps ==
  ASSUME IndInv, HandleCend
  PROVE  NoClash(pvt, pvt')
<1> DEFINE p == at_enque_clcc(pvt)  c == pvt_find_cpvt(pvt, Head(rx).idx)
           q == [p EXCEPT !.cpvt[c].need = FALSE]
           r == change_channel_state(q, c, "released")
<1>1. Good(pvt, {}) /\ Cells(pvt)
  BY GoodQueue DEF IndInv
<1>2. Good(p, {}) /\ Live(p) = Live(pvt) /\ Cells(p) /\ Keeps(pvt, p)
  <2>1. Good(p, {}) /\ Live(p) = Live(pvt) /\ p.cpvt = pvt.cpvt
    BY <1>1, ClccGood
  <2> HIDE DEF p
  <2> QED BY <2>1, GoodQueue DEF Keeps
<1>3. CASE c = None
  <2>1. Handle("CEND", p)
    BY <1>3 DEF HandleCend
  <2> QED BY <1>2, <2>1, HandleKeeps
<1>4. CASE c # None
  <2>1. Handle("CEND", r)
    BY <1>4 DEF HandleCend
  <2>2. c \in Live(p) /\ c \in Cpvt
    BY <1>1, <1>2, <1>4, FindLive, GoodQueue
  <2> HIDE DEF p, c
  <2>3. Good(q, {}) /\ c \in Live(q) /\ Keeps(p, q)
    BY <1>2, <2>2, NeedGood, MarksKeep
  <2> HIDE DEF q
  <2>4. Good(r, {}) /\ Keeps(q, r)
    BY <2>3, ChangeGood, ChangeKeeps DEF CallStates, ClccStates
  <2> HIDE DEF r
  <2> QED BY <1>2, <2>1, <2>3, <2>4, GoodQueue, KeepsOn, HandleKeeps
<1> QED BY <1>3, <1>4

(* at_response_conn. *)
LEMMA ConnKeeps ==
  ASSUME IndInv, HandleConn
  PROVE  NoClash(pvt, pvt')
<1> DEFINE f == [pvt EXCEPT !.ring = FALSE, !.dialing = FALSE, !.cwaiting = FALSE]
           p == at_enque_clcc(f)
           i == Head(rx).idx
           c == pvt_find_cpvt(pvt, i)
           q == change_channel_state(p, c, "active")
<1>1. Good(pvt, {}) /\ i \in Nat
  <2>1. rx # << >> /\ Head(rx).t = "CONN"
    BY DEF HandleConn, Handle
  <2> QED BY <2>1, HeadLine DEF IndInv
<1>2. Good(f, {}) /\ Live(f) = Live(pvt) /\ f.cpvt = pvt.cpvt
  <2>1. /\ Cells(f) /\ Alike(pvt, f) /\ Quiet(pvt, f) /\ f.queue = pvt.queue /\ f.last = pvt.last
        /\ f.cpvt = pvt.cpvt
    BY <1>1, GoodQueue DEF Cells, PvtFields, Alike, Quiet
  <2> HIDE DEF f
  <2> QED BY <1>1, <2>1, QuietGood, GoodQueue
<1>3. Handle("CONN", IF c = None THEN at_enque_hangup(p, SysChan, i)
                     ELSE IF "conference" \in q.cpvt[c].opts THEN at_enque_conference(q, c) ELSE q)
  BY DEF HandleConn
<1>4. c # None => c \in Live(pvt)
  BY <1>1, FindLive
<1> HIDE DEF f, i, c
<1>5. Good(p, {}) /\ Live(p) = Live(pvt) /\ p.cpvt = pvt.cpvt
  BY <1>2, ClccGood
<1> HIDE DEF p
<1>6. Cells(p) /\ Keeps(pvt, p)
  BY <1>5, GoodQueue DEF Keeps
<1>7. CASE c = None
  <2> DEFINE h == at_enque_hangup(p, SysChan, i)
  <2>1. Good(h, {})
    BY <1>1, <1>5, HangupGood
  <2>2. Keeps(p, h)
    BY <1>6, OneCall, ListsKeep
  <2> HIDE DEF h
  <2>3. Cells(h) /\ Handle("CONN", h)
    BY <1>3, <1>7, <2>1, GoodQueue DEF h
  <2> QED BY <1>6, <2>2, <2>3, KeepsOn, HandleKeeps
<1>8. CASE c # None
  <2>1. Good(q, {}) /\ c \in Live(q) /\ Keeps(p, q)
    BY <1>4, <1>5, <1>8, ChangeGood, ChangeKeeps DEF CallStates, ClccStates
  <2> HIDE DEF q
  <2>2. Cells(q) /\ c \in Cpvt
    BY <2>1, GoodQueue
  <2> DEFINE g == at_enque_conference(q, c)
  <2>3. Cells(g) /\ Keeps(q, g)
    BY <2>1, <2>2, TalkGood, GoodQueue, ListsKeep
  <2> HIDE DEF g
  <2>4. Handle("CONN", g) \/ Handle("CONN", q)
    BY <1>3, <1>8 DEF g
  <2> QED BY <1>6, <2>1, <2>2, <2>3, <2>4, KeepsOn, HandleKeeps
<1> QED BY <1>7, <1>8

(* RING and +CCWA. *)
LEMMA RingKeeps ==
  ASSUME IndInv, HandleRing \/ HandleCcwa
  PROVE  NoClash(pvt, pvt')
<1> DEFINE f == [pvt EXCEPT !.ring = TRUE, !.dialing = FALSE, !.cwaiting = FALSE]
           g == [pvt EXCEPT !.cwaiting = TRUE]
<1>1. Cells(pvt) /\ DOMAIN pvt = PvtFields
  BY GoodQueue DEF IndInv, Cells
<1>2. DOMAIN f = DOMAIN pvt /\ f.chans = pvt.chans /\ f.cpvt = pvt.cpvt /\ f.count = pvt.count
  BY <1>1 DEF PvtFields
<1>3. DOMAIN g = DOMAIN pvt /\ g.chans = pvt.chans /\ g.cpvt = pvt.cpvt /\ g.count = pvt.count
  BY <1>1 DEF PvtFields
<1>4. \E t : Handle(t, at_enque_clcc(f)) \/ Handle(t, at_enque_clcc(g))
  BY DEF HandleRing, HandleCcwa
<1> HIDE DEF f, g
<1>5. \A h \in {f, g} : Keeps(pvt, h) /\ Cells(at_enque_clcc(h)) /\ Keeps(h, at_enque_clcc(h))
  <2> TAKE h \in {f, g}
  <2>1. Cells(h) /\ Keeps(pvt, h)
    BY <1>1, <1>2, <1>3, FieldsKeep
  <2>2. Keeps(h, at_enque_clcc(h))
    BY <2>1, OneCall, ListsKeep
  <2>3. Cells(at_enque_clcc(h))
    BY <2>1 DEF at_enque_clcc, at_queue_insert, at_queue_run, Cells, PvtFields
  <2> QED BY <2>1, <2>2, <2>3
<1> QED BY <1>4, <1>5, KeepsOn, HandleKeeps

(* start_pbx, for an index nobody has. *)
LEMMA StartClash ==
  ASSUME NEW p, Good(p, {}), NEW idx \in Nat, NEW state \in CallStates \ {"released"},
         NEW started \in BOOLEAN, \A k \in Live(p) : p.cpvt[k].idx # idx
  PROVE  NoClash(p, start_pbx(p, idx, state, started))
<1> DEFINE q == cpvt_alloc(p, idx, "in", state, {})  c == q.allocs
<1>1. CASE ~MayAlloc(p)
  <2>1. Cells(p)
    BY GoodQueue
  <2>2. Keeps(p, at_enque_hangup(p, SysChan, idx))
    BY <2>1, OneCall, ListsKeep
  <2> QED BY <1>1, <2>2, KeepsClashes DEF start_pbx
<1>2. CASE MayAlloc(p)
  <2>1. Good(q, {}) /\ c \in Live(q) /\ NoClash(p, q)
    BY <1>2, AllocGood, AllocClash DEF MayAlloc
  <2>2. start_pbx(p, idx, state, started)
          = IF started THEN [q EXCEPT !.cpvt[c].need = TRUE] ELSE cpvt_free(q, c)
    BY <1>2 DEF start_pbx
  <2> HIDE DEF q
  <2>3. Keeps(q, cpvt_free(q, c)) /\ Keeps(q, [q EXCEPT !.cpvt[c].need = TRUE])
    BY <2>1, GoodQueue, FreeKeeps, MarksKeep
  <2> QED BY <2>1, <2>2, <2>3, KeepsClashes, NoClashOn
<1> QED BY <1>1, <1>2

(* at_response_clcc: a call that came in has an index nobody has. *)
LEMMA ClccClash ==
  ASSUME IndInv, HandleClcc
  PROVE  NoClash(pvt, pvt')
<1> DEFINE e == ParsedEntry(Head(rx).calls)
<1>1. Good(pvt, {}) /\ Cells(pvt) /\ rx # << >> /\ Head(rx).t = "CLCC"
  BY GoodQueue DEF IndInv, HandleClcc
<1>2. PICK started \in BOOLEAN : Handle("CLCC", ClccFlags(ClccCall(pvt, e, started), e.st))
  BY DEF HandleClcc
<1>3. e.idx \in Nat /\ e.st \in ClccStates
  BY <1>1, HeadLine, ParsedType
<1> HIDE DEF e
<1> DEFINE c == pvt_find_cpvt(pvt, e.idx)  q == ClccCall(pvt, e, started)
<1>4. e.st \in CallStates /\ e.st \in CallStates \ {"released"}
  BY <1>3 DEF CallStates, ClccStates
<1>5. Good(q, {}) /\ NoClash(pvt, q)
  <2>1. Keeps(pvt, pvt)
    BY DEF Keeps
  <2>2. CASE c # None
    <3>1. Good(change_channel_state(pvt, c, e.st), {}) /\ Keeps(pvt, change_channel_state(pvt, c, e.st))
      BY <1>1, <1>4, <2>2, FindLive, ChangeGood, ChangeKeeps
    <3> QED BY <1>1, <2>1, <2>2, <3>1, KeepsClashes DEF ClccCall
  <2>3. CASE c = None
    <3>1. q = start_pbx(pvt, e.idx, e.st, started) \/ q = pvt
      BY <2>3 DEF ClccCall
    <3>2. \A k \in Live(pvt) : pvt.cpvt[k].idx # e.idx
      BY <1>1, <2>3, FindAll
    <3>3. Good(start_pbx(pvt, e.idx, e.st, started), {}) /\ NoClash(pvt, start_pbx(pvt, e.idx, e.st, started))
      BY <1>1, <1>3, <1>4, <3>2, StartGood, StartClash
    <3> QED BY <1>1, <2>1, <3>1, <3>3, KeepsClashes
  <2> QED BY <2>2, <2>3
<1> HIDE DEF q
<1>6. Cells(ClccFlags(q, e.st)) /\ Keeps(q, ClccFlags(q, e.st))
  <2> DEFINE r == (e.st = "incoming")  d == (e.st \in {"dialing", "alerting"})  w == (e.st = "waiting")
             f == [q EXCEPT !.cwaiting = w, !.ring = r, !.dialing = d]
  <2>1. ClccFlags(q, e.st) = q \/ ClccFlags(q, e.st) = f
    BY DEF ClccFlags
  <2> HIDE DEF r, d, w
  <2>2. Cells(q) /\ DOMAIN q = PvtFields /\ Keeps(q, q)
    BY <1>5, GoodQueue DEF Cells, Keeps
  <2>3. DOMAIN f = DOMAIN q /\ f.chans = q.chans /\ f.cpvt = q.cpvt /\ f.count = q.count
    BY <2>2 DEF PvtFields
  <2> HIDE DEF f
  <2>4. Cells(f) /\ Keeps(q, f)
    BY <2>2, <2>3, FieldsKeep
  <2> QED BY <2>1, <2>2, <2>4
<1> DEFINE g == ClccFlags(q, e.st)
<1>7. Handle("CLCC", g)
  BY <1>2 DEF q
<1> HIDE DEF g
<1>8. Cells(g) /\ NoClash(pvt, g)
  BY <1>5, <1>6, KeepsClashes, NoClashOn DEF g
<1> QED BY <1>7, <1>8, HandleClash

(* Every step: what shares an index shared it before, or ^ORIG made it so. *)
LEMMA NextClash ==
  ASSUME IndInv, [Next]_vars, NEW c \in Cpvt, NEW d \in Cpvt,
         SameIdx(pvt', c, d), ~SameIdx(pvt, c, d)
  PROVE  /\ pvt.last \in {c, d} /\ rx # << >> /\ Head(rx).t = "ORIG"
         /\ pvt'.cpvt[pvt.last].idx = Head(rx).idx
<1>1. ~NoClash(pvt, pvt') /\ ~Keeps(pvt, pvt')
  BY KeepsClashes DEF NoClash
<1>2. pvt' # pvt
  BY <1>1 DEF Keeps
<1>3. ~ \E opts \in Options : Request(opts)
  BY <1>1, RequestClash
<1>4. ~ \E k \in Cpvt : Call(k) \/ Hangup(k) \/ Answer(k) \/ Activate(k)
  BY <1>1, CallKeeps, HangupKeeps, TalkKeeps
<1>5. ~(ModemExec \/ ModemOrig \/ ModemIncoming)
  BY <1>2 DEF ModemExec, ModemOrig, ModemIncoming, Unasked
<1>6. ~ \E i \in Idx : ModemAlert(i) \/ ModemConn(i) \/ ModemRings(i) \/ RemoteEnds(i)
  BY <1>2 DEF ModemAlert, ModemConn, ModemRings, RemoteEnds, Unasked
<1>7. ~(HandleOk \/ HandleError \/ HandleCend \/ HandleConn \/ HandleRing \/ HandleCcwa \/ HandleClcc)
  BY <1>1, OkKeeps, CendKeeps, ConnKeeps, RingKeeps, ClccClash
<1>8. ~Disconnect
  <2>1. SUFFICES ASSUME Disconnect PROVE FALSE
    OBVIOUS
  <2>2. Live(pvt') = {}
    BY <2>1 DEF Disconnect, EmptyPvt, Live, Range
  <2> QED BY <1>1, <2>2 DEF Keeps
<1>9. ~UNCHANGED vars
  BY <1>2 DEF vars
<1>10. HandleOrig
  BY <1>3, <1>4, <1>5, <1>6, <1>7, <1>8, <1>9 DEF Next, Monitor
<1> QED BY <1>10, OrigClash DEF HandleOrig, Handle

(* Two calls come to share an index only when ^ORIG gives the call dialled   *)
(* last an index that is taken, whatever the number of calls.                *)
THEOREM ClashesByOrig == Spec => OnlyOrigClashes
<1>1. IndInv /\ [Next]_vars =>
        [\A c, d \in Cpvt : SameIdx(pvt', c, d) /\ ~SameIdx(pvt, c, d) =>
           /\ pvt.last \in {c, d} /\ rx # << >> /\ Head(rx).t = "ORIG"
           /\ pvt'.cpvt[pvt.last].idx = Head(rx).idx]_vars
  BY NextClash
<1> QED BY <1>1, Invariant, PTL DEF Spec, OnlyOrigClashes
=============================================================================
