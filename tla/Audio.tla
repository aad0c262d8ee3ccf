------------------------------- MODULE Audio --------------------------------
(***************************************************************************)
(* The sound that goes to the device: the calls of one device come and go, *)
(* are held and joined (CallOps), and each of them that is heard is a      *)
(* stream of the mix buffer.  Asterisk's channel threads write frames of   *)
(* any length; the channel that is MASTER is woken by a timer and passes   *)
(* one frame on to the device.  Every action is one critical section of    *)
(* the device lock.                                                        *)
(*                                                                         *)
(* Calls that are bridged to each other (BRIDGE_LOOP) write nothing, which *)
(* is the same as not calling channel_write; the way from the device to    *)
(* the channels is not modelled.                                           *)
(***************************************************************************)
EXTENDS CallOps

CONSTANTS Size,     \* the samples a_write_buf holds
          FRAME,    \* FRAME_SIZE in samples
          Sample,   \* values of a sample
          Voice(_), \* the frames a call may write
          MaxWrites, \* bound on the frames that are written
          txgain

VARIABLES pvt,      \* the device's calls, see CallOps
          mb,       \* a_write_mixb
          a_timer,  \* is there a timer?
          iov,      \* what the last step handed to iov_write, in pieces
          out,      \* what of it the device took
          fate,     \* how that went: all at once, in two parts, or with an error
          writes    \* how many frames were written

vars == <<pvt, mb, a_timer, iov, out, fate, writes>>

MB == INSTANCE MixBuffer WITH Byte <- Sample

ASSUME AudioAssumption ==
  /\ Size \in Nat \ {0} /\ FRAME \in 1 .. Size
  /\ txgain \in Int /\ MaxWrites \in Nat
  /\ {Min(Sample), Max(Sample)} \subseteq Int /\ Sample = Min(Sample) .. Max(Sample) /\ 0 \in Sample
  /\ \A c \in Cpvt : \A data \in Voice(c) : data \in Seq(Sample)

Silence(n) == [i \in 1 .. n |-> 0]

Init ==
  /\ pvt = EmptyPvt(0)
  /\ mb = [rb |-> [buf |-> [p \in 0 .. Size - 1 |-> 0], used |-> 0, read |-> 0, write |-> 0],
           streams |-> << >>, pos |-> [c \in Cpvt |-> [used |-> 0, write |-> 0]], attached |-> 0]
  /\ a_timer = FALSE
  /\ iov = << >> /\ out = << >> /\ fate = "none" /\ writes = 0

NoSound == iov' = << >> /\ out' = << >> /\ fate' = "none"

-----------------------------------------------------------------------------
(* Calls come, change and go *)

(* cpvt_alloc: pvt_on_create_1st_channel resets the mixer and opens a timer,  *)
(* which may fail.  Calls are dialled here; one that comes in has no sound    *)
(* either before it is answered.                                              *)
NewCall ==
  /\ pvt.allocs < MaxCalls
  /\ is_dial_possible2(pvt, {"hold"}, None)
  /\ pvt' = cpvt_alloc(pvt, pvt_get_pseudo_call_idx(pvt), "out", "init", {})
  /\ IF pvt.chansno = 0
     THEN mb' = MB!mixb_init(mb) /\ a_timer' \in {a_timer, TRUE}
     ELSE UNCHANGED <<mb, a_timer>>
  /\ NoSound /\ UNCHANGED writes

(* The sound half of activate_call and disactivate_call *)
Attached(c) ==
  IF pvt.cpvt[c].master \/ pvt.cpvt[c].act THEN mb ELSE MB!mixb_attach(mb, c)
Detached(c) ==
  IF pvt.cpvt[c].chan /\ pvt.cpvt[c].act THEN MB!mixb_detach(mb, c) ELSE mb

(* pvt_on_remove_last_channel *)
TimerAfter == a_timer' = (a_timer /\ pvt'.chansno > 0)

(* change_channel_state, as ^ORIG, ^CONN, ^CEND and +CLCC report what becomes *)
(* of a call                                                                  *)
Follows == {<<"init", "dialing">>, <<"dialing", "active">>, <<"active", "onhold">>,
            <<"onhold", "active">>} \cup (CallStates \X {"released"})
Reported(c, new) ==
  /\ c \in Live(pvt) /\ <<pvt.cpvt[c].state, new>> \in Follows
  /\ pvt' = change_channel_state(pvt, c, new)
  /\ mb' = IF new \in {"onhold", "released"} THEN Detached(c)
           ELSE IF pvt.cpvt[c].chan THEN Attached(c) ELSE mb
  /\ TimerAfter
  /\ NoSound /\ UNCHANGED writes

(* Mutant: the stream is left where it is *)
Hangup_KeepsStream(c) ==
  /\ c \in Live(pvt) /\ pvt.cpvt[c].chan
  /\ pvt' = [disactivate_call(pvt, c) EXCEPT !.cpvt[c].chan = FALSE]
  /\ UNCHANGED <<mb, a_timer, writes>>
  /\ NoSound

(* channel_hangup: the call stays until the modem reports its end *)
Hangup(c) ==
  /\ c \in Live(pvt) /\ pvt.cpvt[c].chan
  /\ pvt' = [disactivate_call(pvt, c) EXCEPT !.cpvt[c].chan = FALSE]
  /\ mb' = Detached(c)
  /\ UNCHANGED <<a_timer, writes>>
  /\ NoSound

-----------------------------------------------------------------------------
(* Sound *)

(* The device (external) takes n samples of the pieces at once ... *)
Taken(pieces, n) == SubSeq(FlattenSeq(pieces), 1, n)

(* Mutant: pieces that were written are written again *)
Rest_All(pieces, n) == pieces

(* ... and iov_write goes on: pieces that are done are skipped, but one that  *)
(* was written in part is only shortened, not advanced                        *)
Rest(pieces, n) ==
  LET before(i) == Len(FlattenSeq(SubSeq(pieces, 1, i)))
      open == {i \in DOMAIN pieces : before(i) > n}
      k == Min(open)
  IN  IF open = {} THEN << >>
      ELSE <<SubSeq(pieces[k], 1, before(k) - Max({n, before(k - 1)}))>>
           \o SubSeq(pieces, k + 1, Len(pieces))

(* One short write, or an error that is not overcome in ten tries *)
iov_write(pieces) ==
  LET all == Len(FlattenSeq(pieces))
  IN  /\ iov' = pieces
      /\ \/ out' = FlattenSeq(pieces) /\ fate' = "whole"
         \/ \E n \in 1 .. all - 1 :
              out' = Taken(pieces, n) \o FlattenSeq(Rest(pieces, n)) /\ fate' = "short"
         \/ \E n \in 0 .. all - 1 : out' = Taken(pieces, n) /\ fate' = "error"

(* timing_write: a frame, what there is of it filled up, or silence *)
FramePieces ==
  LET used == mb.rb.used
  IN  IF used >= FRAME THEN MB!mixb_read_n_iov(mb, FRAME)
      ELSE (IF used > 0 THEN MB!mixb_read_n_iov(mb, used) ELSE << >>) \o <<Silence(FRAME - used)>>

(* channel_read of the MASTER, woken by the timer *)
TimerTick(c) ==
  /\ c \in Live(pvt) /\ pvt.cpvt[c].chan /\ pvt.cpvt[c].master
  /\ pvt.cpvt[c].state \in {"active", "dialing", "alerting"}
  /\ a_timer
  /\ iov_write(FramePieces)
  /\ mb' = IF mb.rb.used = 0 THEN mb ELSE MB!mixb_read_upd(mb, Min({FRAME, mb.rb.used}))
  /\ UNCHANGED <<pvt, a_timer, writes>>

(* ast_frame_adjust_volume (external): by a factor, or by one over it *)
Adjusted(data, gain) ==
  IF gain > 1 THEN [i \in DOMAIN data |-> MB!Saturated(data[i] * gain)]
  ELSE IF gain < -1 THEN [i \in DOMAIN data |->
         IF data[i] >= 0 THEN data[i] \div (-gain) ELSE -((-data[i]) \div (-gain))]
  ELSE data

(* The volume of a frame, divided among the calls that are heard; a txgain    *)
(* of one or less is replaced, a negative one too                             *)
Gained(data) ==
  IF txgain <= 1 THEN Adjusted(data, -mb.attached)
  ELSE Adjusted(Adjusted(data, txgain), -pvt.count["active"])

(* what does not fit pushes out the oldest samples *)
Overflow(c, data) ==
  LET count == MB!mixb_free(mb, c)
  IN  IF count < Len(data) THEN MB!mixb_read_upd(mb, Len(data) - count) ELSE mb

(* channel_write of a voice frame: into the mixer, or without a timer to the  *)
(* device at once if the call is the only one                                 *)
ChannelWrite(c, data) ==
  /\ c \in Live(pvt) /\ pvt.cpvt[c].chan /\ pvt.cpvt[c].state = "active"
  /\ writes < MaxWrites /\ writes' = writes + 1
  /\ IF a_timer
     THEN mb' = MB!mixb_write(Overflow(c, data), c, Gained(data)) /\ NoSound
     ELSE /\ mb.attached = 1
          /\ LET first == SubSeq(Gained(data), 1, Min({FRAME, Len(data)}))
             IN  iov_write(<<first>> \o (IF Len(first) < FRAME THEN <<Silence(FRAME - Len(first))>>
                                         ELSE << >>))
          /\ UNCHANGED mb
  /\ UNCHANGED <<pvt, a_timer>>

Next ==
  \/ NewCall
  \/ \E c \in Cpvt : \/ \E new \in {"dialing", "active", "onhold", "released"} : Reported(c, new)
                     \/ Hangup(c) \/ TimerTick(c)
                     \/ \E data \in Voice(c) : ChannelWrite(c, data)

Spec == Init /\ [][Next]_vars

-----------------------------------------------------------------------------
(* Properties *)

(* The streams of the mixer are those of the calls that have a channel and    *)
(* can be heard, each once, and the counter the volume is divided by is their *)
(* number: no stream outlives its call's struct cpvt, and whoever may write   *)
(* has one.                                                                   *)
StreamsLive ==
  /\ IsInjective(mb.streams) /\ mb.attached = Len(mb.streams)
  /\ Range(mb.streams) = {c \in Live(pvt) : pvt.cpvt[c].act}
  /\ Range(mb.streams) = {c \in Live(pvt) :
       pvt.cpvt[c].chan /\ pvt.cpvt[c].state \in {"active", "dialing", "alerting"}}

(* The device gets exactly one frame at a time, however much or little there  *)
(* is to be heard and in however many parts it takes it.                      *)
FrameWhole == fate \in {"whole", "short"} => Len(out) = FRAME

(* What a call may hand in: its voice, with the volume turned up by the       *)
(* setting and down by the number of calls that sound.                        *)
Inputs == UNION {UNION {{Adjusted(Adjusted(d, gain[1]), -gain[2]) : d \in Voice(c)} :
                           gain \in {1, txgain} \X (1 .. MaxCalls)} : c \in Cpvt}

Mix == INSTANCE Mixer WITH
  Room <- Size, Frame <- FRAME, Stream <- Cpvt, Input <- Inputs,
  mix <- MB!Content(mb.rb),
  at <- [c \in Cpvt |-> IF c \in Range(mb.streams) THEN mb.pos[c].used ELSE -1],
  frame <- FlattenSeq(iov)

(* What the calls hand in is added up sample by sample and handed to the      *)
(* device in order, whoever joins, leaves, runs ahead or stays behind, and    *)
(* wherever in the ring buffer that happens.                                  *)
ImplementsMixer == Mix!Spec
=============================================================================
