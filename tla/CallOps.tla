------------------------------ MODULE CallOps -------------------------------
(***************************************************************************)
(* The calls of one device as a value, and the functions of cpvt.c,        *)
(* channel.c and at_command.c that work on it while the device lock is     *)
(* held.  Each operator takes the device p and returns the new device.     *)
(*                                                                         *)
(* p models the part of struct pvt (and pvt->state) that is about calls:   *)
(*   chans, cpvt      the list of calls and the objects                    *)
(*   chansno, count   the counters chansno and chan_count[]                *)
(*   queue            the AT queue, as in AtQueueOps                       *)
(*   last             last_dialed_cpvt                                     *)
(*   ring, cwaiting, dialing                                               *)
(*   allocs           how many calls were allocated: call number n is the  *)
(*                    n-th struct cpvt, no object is used twice            *)
(***************************************************************************)
EXTENDS AtQueueOps, FiniteSets, SequencesExt

CONSTANTS MaxCalls,   \* calls that can be allocated in a behaviour
          MAX_CALL_IDX

ASSUME CallOpsAssumption == MaxCalls \in Nat \ {0} /\ MAX_CALL_IDX \in Nat \ {0}

Cpvt    == 1 .. MaxCalls
SysChan == 0      \* &pvt->sys_chan
None    == -1     \* NULL

(* enum call_state_t; the first six are also the states +CLCC reports *)
ClccStates == {"active", "onhold", "dialing", "alerting", "incoming", "waiting"}
CallStates == ClccStates \cup {"released", "init"}

(* struct cpvt: fd0 is what the first poll descriptor of its channel is:    *)
(* nothing, the device's audio port, or the call's own pipe.  opts are the  *)
(* flags HOLD_OTHER and CONFERENCE, called tells that channel_call was done *)
Blank == [state |-> "unused", idx |-> 0, dir |-> "out", chan |-> FALSE, need |-> FALSE,
          act |-> FALSE, master |-> FALSE, fd0 |-> "none", opts |-> {}, called |-> FALSE]

EmptyPvt(n) ==
  [chans |-> << >>, cpvt |-> [c \in Cpvt |-> Blank], chansno |-> 0,
   count |-> [s \in CallStates |-> 0], queue |-> << >>, last |-> None,
   ring |-> FALSE, cwaiting |-> FALSE, dialing |-> FALSE, allocs |-> n]

Live(p) == Range(p.chans)

-----------------------------------------------------------------------------
(* cpvt.c *)

(* cpvt_alloc, for the channel that new_channel makes *)
cpvt_alloc(p, idx, dir, state, opts) ==
  LET c == p.allocs + 1
  IN  [p EXCEPT !.allocs = c,
                !.chans = Append(@, c),
                !.cpvt[c] = [Blank EXCEPT !.state = state, !.idx = idx, !.dir = dir,
                                          !.chan = TRUE, !.opts = opts],
                !.chansno = @ + 1,
                !.count[state] = @ + 1]

(* Mutant: last_dialed_cpvt is not reset *)
cpvt_free_KeepsLast(p, c) ==
  [p EXCEPT !.chans = RemoveFirst(@, c),
            !.count[p.cpvt[c].state] = @ - 1,
            !.chansno = @ - 1,
            !.queue = Relink(@, {c}, SysChan),
            !.cpvt[c] = Blank]

cpvt_free(p, c) ==
  [p EXCEPT !.chans = RemoveFirst(@, c),
            !.count[p.cpvt[c].state] = @ - 1,
            !.chansno = @ - 1,
            !.queue = Relink(@, {c}, SysChan),
            !.last = IF @ = c THEN None ELSE @,
            !.cpvt[c] = Blank]

(* pvt_find_cpvt: the first call of the list with that index *)
pvt_find_cpvt(p, idx) ==
  LET hits == {i \in DOMAIN p.chans : p.cpvt[p.chans[i]].idx = idx}
  IN  IF hits = {} THEN None ELSE p.chans[Min(hits)]

(* Mutant: the number of calls instead of the lowest free index *)
pvt_get_pseudo_call_idx_Count(p) == p.chansno + 1

(* pvt_get_pseudo_call_idx: the lowest index no call of the list has *)
pvt_get_pseudo_call_idx(p) ==
  LET free == 1 .. MAX_CALL_IDX \ {p.cpvt[c].idx : c \in Live(p)}
  IN  IF free = {} THEN 0 ELSE Min(free)

(* is_dial_possible2: may a call be dialled, ignoring call `me'? *)
is_dial_possible2(p, opts, me) ==
  LET states == {p.cpvt[c].state : c \in Live(p) \ {me}} \cup
                ({p.cpvt[c].state : c \in Live(p) \cap {me}} \ {"init"})
  IN  /\ ~p.ring /\ ~p.cwaiting /\ ~p.dialing
      /\ states \subseteq {"active", "onhold", "released"}
      /\ states \cap {"active", "onhold"} # {} => "hold" \in opts
      /\ ~ {"active", "onhold"} \subseteq states

-----------------------------------------------------------------------------
(* channel.c: which channel reads the audio port *)

(* Mutant: the other calls stay MASTER *)
activate_call_KeepsOthers(p, c) ==
  IF p.cpvt[c].master THEN p
  ELSE [p EXCEPT !.cpvt[c].act = TRUE, !.cpvt[c].master = TRUE,
                 !.cpvt[c].fd0 = IF p.cpvt[c].chan THEN "audio" ELSE @]

activate_call(p, c) ==
  IF p.cpvt[c].master THEN p
  ELSE [p EXCEPT !.cpvt = [k \in Cpvt |->
         IF k = c
         THEN [p.cpvt[c] EXCEPT !.act = TRUE, !.master = TRUE,
                                !.fd0 = IF p.cpvt[c].chan THEN "audio" ELSE @]
         ELSE IF k \in Live(p)
         THEN [p.cpvt[k] EXCEPT !.master = FALSE,
                !.fd0 = IF p.cpvt[k].chan /\ p.cpvt[c].act THEN "pipe" ELSE @]
         ELSE p.cpvt[k]]]

disactivate_call(p, c) ==
  IF p.cpvt[c].chan /\ p.cpvt[c].act
  THEN [p EXCEPT !.cpvt[c].act = FALSE, !.cpvt[c].master = FALSE, !.cpvt[c].fd0 = "none"]
  ELSE p

(* Mutant: the state that is left keeps its count *)
EnterState_CountsTwice(p, c, new) ==
  [p EXCEPT !.cpvt[c].state = new, !.count[new] = @ + 1]

(* change_channel_state: the flags that cache the device state ... *)
EnterState(p, c, new) ==
  LET old  == p.cpvt[c].state
      ends == new \in {"active", "released"}
  IN  [p EXCEPT !.cpvt[c].state = new,
                !.count = [p.count EXCEPT ![old] = @ - 1, ![new] = @ + 1],
                !.dialing = @ /\ ~(ends /\ old \in {"init", "dialing", "alerting"}),
                !.ring = @ /\ ~(ends /\ old = "incoming"),
                !.cwaiting = @ /\ ~(ends /\ old = "waiting")]

(* ... and what happens to the channel *)
change_channel_state(p, c, new) ==
  LET q == EnterState(p, c, new)
  IN  IF p.cpvt[c].state = new THEN p
      ELSE IF new = "released" THEN cpvt_free(disactivate_call(q, c), c)
      ELSE IF ~q.cpvt[c].chan THEN q
      ELSE IF new = "onhold" THEN disactivate_call(q, c)
      ELSE IF new \in {"dialing", "alerting", "active"} THEN activate_call(q, c)
      ELSE q

-----------------------------------------------------------------------------
(* at_command.c: the command lists about calls.  Commands that leave calls   *)
(* alone (CLIR, DDSETEX, CLVL) are left out of the lists.  ATD carries the   *)
(* call it dials, for the modem's answer; the other arguments are indices.   *)

Cmd(name, arg) == [name |-> name, arg |-> arg, res |-> RES_OK, ignore |-> name = "D", sent |-> FALSE]

(* at_queue_run, the write succeeds *)
at_queue_run(p) == IF HeadUnsent(p.queue) THEN [p EXCEPT !.queue = MarkSent(@)] ELSE p

(* at_queue_insert with priority *)
at_queue_insert(p, owner, cmds) ==
  at_queue_run([p EXCEPT !.queue =
    at_queue_add(@, [cpvt |-> owner, cindex |-> 0, cmds |-> cmds], TRUE)])

at_enque_clcc(p) == at_queue_insert(p, SysChan, <<Cmd("CLCC", 0)>>)

at_enque_dial(p, c) ==
  LET hold == IF p.count["active"] > 0 /\ "hold" \in p.cpvt[c].opts
              THEN <<Cmd("CHLD_2", 0)>> ELSE << >>
      q == at_queue_insert(p, c, hold \o <<Cmd("D", c), Cmd("CLCC", 0)>>)
  IN  [q EXCEPT !.cpvt[c].need = TRUE]

at_enque_answer(p, c) ==
  CASE p.cpvt[c].state = "incoming" -> at_queue_insert(p, c, <<Cmd("A", 0)>>)
    [] p.cpvt[c].state = "waiting"  -> at_queue_insert(p, c, <<Cmd("CHLD_2x", p.cpvt[c].idx)>>)
    [] OTHER -> p

at_enque_activate(p, c) ==
  IF p.cpvt[c].state \in {"onhold", "waiting"}
  THEN at_queue_insert(p, c, <<Cmd("CHLD_2x", p.cpvt[c].idx), Cmd("CLCC", 0)>>)
  ELSE p

at_enque_conference(p, c) == at_queue_insert(p, c, <<Cmd("CHLD_3", 0), Cmd("CLCC", 0)>>)

(* AT+CHLD=1x when there are several calls, AT+CHUP otherwise and for an     *)
(* outgoing call that is still being dialled                                 *)
at_enque_hangup(p, owner, idx) ==
  LET early == /\ owner # SysChan
               /\ p.cpvt[owner].dir = "out" /\ p.cpvt[owner].state \in {"init", "dialing"}
      cmd   == IF ~early /\ p.chansno > 1 THEN Cmd("CHLD_1x", idx) ELSE Cmd("CHUP", 0)
      init  == owner # SysChan /\ p.cpvt[owner].state = "init"
      q     == [p EXCEPT !.last = IF init THEN None ELSE @]
  IN  at_queue_insert(q, owner, <<cmd, Cmd("CLCC", 0)>>)
=============================================================================
