------------------------------- MODULE Calls --------------------------------
(***************************************************************************)
(* Voice calls on one connected, initialised device.  Actors:              *)
(*   - Asterisk threads calling channel_request, channel_call,             *)
(*     channel_answer, channel_hangup and CHANNEL(callstate);              *)
(*   - the monitor thread, which handles one line of the modem at a time   *)
(*     (at_response) and then runs the queue;                              *)
(*   - the modem (external) with its own calls, the commands it executes   *)
(*     and the codes it sends unasked.                                     *)
(* Every action is one critical section of the device lock.  What the      *)
(* driver believes (pvt) and what is the case (modem) are separate state;  *)
(* they are brought together only by the lines in rx.                      *)
(*                                                                         *)
(* Writes to the device succeed here; failing writes are in AtQueue.       *)
(***************************************************************************)
EXTENDS CallOps

CONSTANTS MaxIncoming,  \* bound on the calls that come in
          MaxDrops,     \* bound on the times the device is lost
          MaxRx,        \* bound on the lines that wait to be read
          Options       \* sets of dial options: subsets of {"hold", "conference"}

VARIABLES pvt,      \* the driver's device, see CallOps
          rx,       \* lines sent by the modem, not handled yet
          answered, \* the command at the head of the queue got its final code
          modem     \* the modem: its calls, the ATD in progress, calls come in

vars == <<pvt, rx, answered, modem>>

ASSUME CallsAssumption == {MaxIncoming, MaxDrops, MaxRx} \subseteq Nat

Idx == 1 .. MaxCalls

(* The modem's calls by index: own is the struct cpvt whose ATD made it *)
NoCall == [st |-> "none", dir |-> "out", own |-> SysChan]
Line(t, i) == [t |-> t, idx |-> i]

Init ==
  /\ pvt = EmptyPvt(0)
  /\ rx = << >> /\ answered = FALSE
  /\ modem = [call |-> [i \in Idx |-> NoCall], pend |-> None, inc |-> 0, drops |-> 0]

-----------------------------------------------------------------------------
(* Asterisk threads *)

MayAlloc(p) == p.allocs < MaxCalls

(* channel_request: can_dial, then a new channel with a pseudo index *)
Request(opts) ==
  /\ MayAlloc(pvt)
  /\ is_dial_possible2(pvt, opts, None)
  /\ pvt' = cpvt_alloc(pvt, pvt_get_pseudo_call_idx(pvt), "out", "init", opts)
  /\ UNCHANGED <<rx, answered, modem>>

(* channel_call: refused if another call came up since channel_request *)
Call(c) ==
  /\ c \in Live(pvt) /\ pvt.cpvt[c].chan
  /\ pvt.cpvt[c].dir = "out" /\ ~pvt.cpvt[c].called
  /\ LET p == [pvt EXCEPT !.cpvt[c].called = TRUE]
     IN  pvt' = IF is_dial_possible2(pvt, pvt.cpvt[c].opts, c)
                THEN at_enque_dial(p, c)
                ELSE [p EXCEPT !.cpvt[c].opts = {}]
  /\ UNCHANGED <<rx, answered, modem>>

(* channel_hangup *)
HangupCall(p, c) ==
  LET q == IF p.cpvt[c].need
           THEN [at_enque_hangup(p, c, p.cpvt[c].idx) EXCEPT !.cpvt[c].need = FALSE]
           ELSE p
  IN  [disactivate_call(q, c) EXCEPT !.cpvt[c].chan = FALSE]

Hangup(c) ==
  /\ c \in Live(pvt) /\ pvt.cpvt[c].chan
  /\ pvt' = HangupCall(pvt, c)
  /\ UNCHANGED <<rx, answered, modem>>

(* channel_answer, once per call *)
Answer(c) ==
  /\ c \in Live(pvt) /\ pvt.cpvt[c].chan
  /\ pvt.cpvt[c].dir = "in" /\ ~pvt.cpvt[c].called
  /\ pvt' = at_enque_answer([pvt EXCEPT !.cpvt[c].called = TRUE], c)
  /\ UNCHANGED <<rx, answered, modem>>

(* channel_func_write: CHANNEL(callstate)=active on a held call *)
Activate(c) ==
  /\ c \in Live(pvt) /\ pvt.cpvt[c].chan
  /\ pvt.cpvt[c].state = "onhold"
  /\ pvt.queue = << >>
  /\ pvt' = at_enque_activate(pvt, c)
  /\ UNCHANGED <<rx, answered, modem>>

-----------------------------------------------------------------------------
(* The modem (external) *)

HeadCmd == at_queue_task_cmd(Head(pvt.queue))
In(states) == {i \in Idx : modem.call[i].st \in states}
FreeIdx == In({"none"})

(* A waiting call that is alone rings as an ordinary incoming one *)
Promote(call) ==
  IF \A i \in Idx : call[i].st \in {"none", "waiting"}
  THEN [i \in Idx |-> IF call[i].st = "waiting" THEN [call[i] EXCEPT !.st = "incoming"] ELSE call[i]]
  ELSE call

Released(gone) == Promote([i \in Idx |-> IF i \in gone THEN NoCall ELSE modem.call[i]])
CendLines(gone) == SetToSeq({Line("CEND", i) : i \in gone})

Reply(lines, call, pend) ==
  /\ rx' = rx \o lines
  /\ modem' = [modem EXCEPT !.call = call, !.pend = pend]
Ok == Line("OK", 0)
Error == Line("ERROR", 0)
Refuse == Reply(<<Error>>, modem.call, modem.pend)

(* ATD: one call setup at a time, no talking call; it gets its index later *)
ExecD ==
  \/ /\ In({"dialing", "alerting", "active", "incoming", "waiting"}) = {}
     /\ modem.pend = None /\ FreeIdx # {}
     /\ Reply(<<Ok>>, modem.call, HeadCmd.arg)
  \/ Refuse

(* AT+CHUP: ends the call being set up and the talking ones, or rejects the  *)
(* incoming one.  Before ^ORIG there may be no trace of the call.            *)
ExecChup ==
  LET main == In({"dialing", "alerting", "active"})
      gone == IF main = {} /\ modem.pend = None THEN In({"incoming"}) ELSE main
  IN  Reply(<<Ok>> \o CendLines(gone), Released(gone), None)

ExecChld1(i) ==
  IF i \in Idx \ FreeIdx THEN Reply(<<Ok, Line("CEND", i)>>, Released({i}), modem.pend)
  ELSE Refuse

(* Hold the talking calls and talk to those in `up' *)
Swap(up) == [i \in Idx |-> IF i \in up THEN [modem.call[i] EXCEPT !.st = "active"]
                           ELSE IF modem.call[i].st = "active"
                           THEN [modem.call[i] EXCEPT !.st = "onhold"] ELSE modem.call[i]]
(* ^CONN of a call that is answered "appear before OK" *)
Answers(up) == SetToSeq({Line("CONN", i) : i \in up \cap In({"incoming", "waiting"})})
Talk(up) == Reply(Answers(up) \o <<Ok>>, Swap(up), modem.pend)

(* The lines of +CLCC: what is to be told of each index, by rising index *)
ClccLine ==
  [t |-> "CLCC", calls |-> [i \in Idx |-> [st |-> modem.call[i].st, dir |-> modem.call[i].dir]]]

Exec(cmd) ==
  CASE cmd.name = "D"       -> ExecD
    [] cmd.name = "CHUP"    -> ExecChup
    [] cmd.name = "CHLD_1x" -> ExecChld1(cmd.arg)
    [] cmd.name = "A"       -> IF In({"incoming"}) = {} THEN Refuse ELSE Talk(In({"incoming"}))
    [] cmd.name = "CHLD_2x" -> IF cmd.arg \in In({"onhold", "waiting"}) THEN Talk({cmd.arg}) ELSE Refuse
    [] cmd.name = "CHLD_2"  -> IF In({"waiting"}) # {} THEN Talk(In({"waiting"})) ELSE Talk(In({"onhold"}))
    [] cmd.name = "CHLD_3"  -> Reply(<<Ok>>, [i \in Idx |->
           IF modem.call[i].st = "onhold" THEN [modem.call[i] EXCEPT !.st = "active"]
           ELSE modem.call[i]], modem.pend)
    [] cmd.name = "CLCC"    -> Reply((IF FreeIdx = Idx THEN << >>
           ELSE <<ClccLine>>) \o <<Ok>>, modem.call, modem.pend)

(* The modem executes the command that was written *)
ModemExec ==
  /\ HeadSent(pvt.queue) /\ ~answered
  /\ answered' = TRUE
  /\ Exec(HeadCmd)
  /\ UNCHANGED pvt

Unasked(line, call, pend) ==
  /\ Len(rx) < MaxRx
  /\ Reply(<<line>>, call, pend)
  /\ UNCHANGED <<pvt, answered>>

(* ^ORIG: the call that is dialled gets the lowest free index *)
ModemOrig ==
  /\ modem.pend # None /\ FreeIdx # {}
  /\ LET i == Min(FreeIdx)
     IN  Unasked(Line("ORIG", i),
           [modem.call EXCEPT ![i] = [st |-> "dialing", dir |-> "out", own |-> modem.pend]], None)

(* ^CONF: handled by doing nothing *)
ModemAlert(i) ==
  /\ modem.call[i].st = "dialing"
  /\ modem' = [modem EXCEPT !.call[i].st = "alerting"]
  /\ UNCHANGED <<pvt, rx, answered>>

ModemConn(i) ==
  /\ modem.call[i].st \in {"dialing", "alerting"}
  /\ Unasked(Line("CONN", i), [modem.call EXCEPT ![i].st = "active"], modem.pend)

(* RING or +CCWA when a call comes in, and again while it is not answered *)
RingLine(i, st) == Line(IF st = "incoming" THEN "RING" ELSE "CCWA", i)

ModemIncoming ==
  /\ modem.inc < MaxIncoming /\ FreeIdx # {} /\ In({"incoming", "waiting"}) = {}
  /\ LET i  == Min(FreeIdx)
         st == IF FreeIdx = Idx THEN "incoming" ELSE "waiting"
     IN  /\ Len(rx) < MaxRx
         /\ rx' = Append(rx, RingLine(i, st))
         /\ modem' = [modem EXCEPT !.call[i] = [st |-> st, dir |-> "in", own |-> SysChan],
                                   !.inc = @ + 1]
  /\ UNCHANGED <<pvt, answered>>

ModemRings(i) ==
  /\ i \in In({"incoming", "waiting"})
  /\ rx = << >> /\ pvt.queue = << >>
  /\ Unasked(RingLine(i, modem.call[i].st), modem.call, modem.pend)

(* The other side hangs up, or does not take the call *)
RemoteEnds(i) ==
  /\ i \notin FreeIdx
  /\ Unasked(Line("CEND", i), Released({i}), modem.pend)

-----------------------------------------------------------------------------
(* The monitor thread: at_response for the next line, then at_queue_run *)

Handle(t, p) ==
  /\ rx # << >> /\ Head(rx).t = t
  /\ rx' = Tail(rx)
  /\ pvt' = at_queue_run(p)
  /\ UNCHANGED modem

HeadOwner == Head(pvt.queue).cpvt
SetNeed(p, c, v) == IF c = SysChan THEN p ELSE [p EXCEPT !.cpvt[c].need = v]

(* at_response_ok: what the success of the head command changes; an OK that  *)
(* answers no command is "unexpected"                                        *)
OkEffect(p) ==
  IF p.queue = << >> THEN p
  ELSE CASE HeadCmd.name = "D" ->
              SetNeed([p EXCEPT !.dialing = TRUE,
                                !.last = IF HeadOwner = SysChan THEN @ ELSE HeadOwner],
                      HeadOwner, TRUE)
         [] HeadCmd.name \in {"A", "CHLD_2x"} -> SetNeed(p, HeadOwner, TRUE)
         [] HeadCmd.name \in {"CHUP", "CHLD_1x"} -> SetNeed(p, HeadOwner, FALSE)
         [] OTHER -> p

HandleOk ==
  /\ Handle("OK", [OkEffect(pvt) EXCEPT !.queue = at_queue_remove_cmd(@, RES_OK)])
  /\ answered' = FALSE

(* at_response_error: a failed dial or answer only tells Asterisk *)
HandleError ==
  /\ Handle("ERROR", [pvt EXCEPT !.queue = at_queue_remove_cmd(@, RES_ERROR)])
  /\ answered' = FALSE

(* at_response_orig: the call dialled last learns its real index *)
HandleOrig ==
  /\ rx # << >>
  /\ LET p == [pvt EXCEPT !.last = None]
         c == pvt.last
     IN  Handle("ORIG",
           IF c = None THEN p
           ELSE at_enque_clcc(change_channel_state(
                  [p EXCEPT !.cpvt[c].idx = Head(rx).idx], c, "dialing")))
  /\ UNCHANGED answered

(* Mutant: the call is not released *)
HandleCend_Keeps ==
  /\ rx # << >>
  /\ LET p == at_enque_clcc(pvt)
         c == pvt_find_cpvt(pvt, Head(rx).idx)
     IN  Handle("CEND", IF c = None THEN p ELSE [p EXCEPT !.cpvt[c].need = FALSE])
  /\ UNCHANGED answered

(* at_response_cend *)
HandleCend ==
  /\ rx # << >>
  /\ LET p == at_enque_clcc(pvt)
         c == pvt_find_cpvt(pvt, Head(rx).idx)
     IN  Handle("CEND",
           IF c = None THEN p
           ELSE change_channel_state([p EXCEPT !.cpvt[c].need = FALSE], c, "released"))
  /\ UNCHANGED answered

(* at_response_conn: an unknown call that is answered is hung up *)
HandleConn ==
  /\ rx # << >>
  /\ LET p == at_enque_clcc([pvt EXCEPT !.ring = FALSE, !.dialing = FALSE, !.cwaiting = FALSE])
         i == Head(rx).idx
         c == pvt_find_cpvt(pvt, i)
         q == change_channel_state(p, c, "active")
     IN  Handle("CONN",
           IF c = None THEN at_enque_hangup(p, SysChan, i)
           ELSE IF "conference" \in q.cpvt[c].opts THEN at_enque_conference(q, c) ELSE q)
  /\ UNCHANGED answered


HandleRing ==
  /\ Handle("RING", at_enque_clcc([pvt EXCEPT !.ring = TRUE, !.dialing = FALSE, !.cwaiting = FALSE]))
  /\ UNCHANGED answered

HandleCcwa ==
  /\ Handle("CCWA", at_enque_clcc([pvt EXCEPT !.cwaiting = TRUE]))
  /\ UNCHANGED answered

(* start_pbx: without a channel the call is hung up; if the dialplan does    *)
(* not start the call is dropped by the driver only                          *)
start_pbx(p, idx, state, started) ==
  IF ~MayAlloc(p) THEN at_enque_hangup(p, SysChan, idx)
  ELSE LET q == cpvt_alloc(p, idx, "in", state, {})
           c == q.allocs
       IN  IF started THEN [q EXCEPT !.cpvt[c].need = TRUE] ELSE cpvt_free(q, c)

(* one entry of +CLCC: the call, then the cached device state *)
ClccCall(p, e, started) ==
  LET c == pvt_find_cpvt(p, e.idx)
  IN  IF c # None
      THEN IF e.dir = p.cpvt[c].dir THEN change_channel_state(p, c, e.st) ELSE p
      ELSE IF e.dir = "in" /\ e.st \in {"incoming", "waiting"}
           THEN start_pbx(p, e.idx, e.st, started) ELSE p

ClccFlags(p, st) ==
  IF st \in {"waiting", "dialing", "alerting", "incoming"}
  THEN [p EXCEPT !.cwaiting = (st = "waiting"), !.ring = (st = "incoming"),
                 !.dialing = (st \in {"dialing", "alerting"})]
  ELSE p

(* at_parse_clcc ends the string behind the number it found, which hides     *)
(* every line but the first from the loop of at_response_clcc                *)
ParsedEntry(calls) ==
  LET i == Min({k \in Idx : calls[k].st # "none"})
  IN  [idx |-> i, st |-> calls[i].st, dir |-> calls[i].dir]

(* at_response_clcc, with the one entry it gets to see *)
HandleClcc ==
  /\ rx # << >> /\ Head(rx).t = "CLCC"
  /\ LET e == ParsedEntry(Head(rx).calls)
     IN  \E started \in BOOLEAN :
           Handle("CLCC", ClccFlags(ClccCall(pvt, e, started), e.st))
  /\ UNCHANGED answered

(* disconnect_datacard, and the device comes back initialised: the calls the *)
(* driver knows are hung up past the queue, all is forgotten                 *)
Disconnect ==
  /\ modem.drops < MaxDrops
  /\ pvt' = EmptyPvt(pvt.allocs)
  /\ rx' = << >> /\ answered' = FALSE
  /\ modem' = [modem EXCEPT !.call = Released({pvt.cpvt[c].idx : c \in Live(pvt)}),
                            !.pend = None, !.drops = @ + 1]

Monitor == \/ HandleOk \/ HandleError \/ HandleOrig \/ HandleCend \/ HandleConn
           \/ HandleRing \/ HandleCcwa \/ HandleClcc

Next ==
  \/ \E opts \in Options : Request(opts)
  \/ \E c \in Cpvt : Call(c) \/ Hangup(c) \/ Answer(c) \/ Activate(c)
  \/ ModemExec \/ ModemOrig \/ ModemIncoming
  \/ \E i \in Idx : ModemAlert(i) \/ ModemConn(i) \/ ModemRings(i) \/ RemoteEnds(i)
  \/ Monitor \/ Disconnect

Spec == Init /\ [][Next]_vars

(* The monitor keeps reading, the modem executes what it is told, resolves    *)
(* an ATD and keeps ringing.  Nothing is asked of the other side of a call.   *)
FairSpec ==
  /\ Spec
  /\ WF_vars(Monitor) /\ WF_vars(ModemExec) /\ WF_vars(ModemOrig)
  /\ WF_vars(\E i \in Idx : ModemRings(i))

-----------------------------------------------------------------------------
(* Properties *)

(* Every variable has its type. *)
TypeOK ==
  /\ Live(pvt) \subseteq Cpvt /\ pvt.last \in Cpvt \cup {None}
  /\ \A c \in Cpvt : pvt.cpvt[c].state \in CallStates \cup {"unused"}
  /\ \A i \in Idx : modem.call[i].st \in ClccStates \cup {"none"}
  /\ modem.pend \in Cpvt \cup {None}
  /\ answered \in BOOLEAN

(* chansno and chan_count[], which choose between AT+CHUP and AT+CHLD=1x and  *)
(* whether others are put on hold before dialling, agree with the list of     *)
(* calls, and no call stays on the list once it was released.                 *)
CountsExact ==
  /\ pvt.chansno = Len(pvt.chans)
  /\ \A s \in CallStates : pvt.count[s] = Cardinality({c \in Live(pvt) : pvt.cpvt[c].state = s})
  /\ pvt.count["released"] = 0

(* pvt_find_cpvt, by which ^CEND, ^CONN and +CLCC reach a call, becomes        *)
(* ambiguous in one way only: the call dialled last learns from ^ORIG the      *)
(* index another call has already, a pseudo index or that of a call that came  *)
(* in.  A call that is put on the list has an index of its own, and none       *)
(* changes its index otherwise.  (0 is the pseudo index when none is free.)    *)
SameIdx(p, c, d) ==
  /\ c # d /\ {c, d} \subseteq Live(p)
  /\ p.cpvt[c].idx = p.cpvt[d].idx /\ p.cpvt[c].idx # 0

OnlyOrigClashes ==
  [][\A c, d \in Cpvt : SameIdx(pvt', c, d) /\ ~SameIdx(pvt, c, d) =>
       /\ pvt.last \in {c, d} /\ rx # << >> /\ Head(rx).t = "ORIG"
       /\ pvt'.cpvt[pvt.last].idx = Head(rx).idx]_vars

(* Nothing the device keeps points to a call that was freed: neither the       *)
(* queue nor last_dialed_cpvt, which ^ORIG dereferences long after the dial.   *)
NoDanglingCall ==
  /\ \A i \in DOMAIN pvt.queue : pvt.queue[i].cpvt \in Live(pvt) \cup {SysChan}
  /\ pvt.last # None => pvt.last \in Live(pvt) /\ pvt.cpvt[pvt.last].dir = "out"

(* At most one call is MASTER, it has a channel and that channel polls the     *)
(* audio port: somebody reads the audio of a talking call.                     *)
OneMaster ==
  \A c \in Live(pvt) : pvt.cpvt[c].master =>
    /\ pvt.cpvt[c].chan /\ pvt.cpvt[c].fd0 = "audio"
    /\ \A d \in Live(pvt) : pvt.cpvt[d].master => c = d

(* Calls somebody talks on, or is being offered *)
Wanted == {i \in Idx : \E c \in Live(pvt) :
            pvt.cpvt[c].chan /\ pvt.cpvt[c].idx = i /\ pvt.cpvt[c].state # "init"}

Owns(c) == modem.pend = c \/ \E i \in Idx : modem.call[i].own = c

(* "ATD may be still in queue while local hangup called": a call that is hung  *)
(* up locally ends, whenever the hangup comes.                                 *)
HangupEndsCall ==
  \A c \in Cpvt : (c \in Live(pvt) /\ ~pvt.cpvt[c].chan /\ Owns(c)) ~> (c \notin Live(pvt) \/ ~Owns(c))


(* An incoming call that Asterisk hangs up, answered or not, disappears from   *)
(* the driver's list.                                                          *)
DeclinedFreed ==
  \A c \in Cpvt : (c \in Live(pvt) /\ pvt.cpvt[c].dir = "in" /\ ~pvt.cpvt[c].chan) ~> c \notin Live(pvt)
=============================================================================
