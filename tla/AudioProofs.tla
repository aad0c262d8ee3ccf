----------------------------- MODULE AudioProofs -----------------------------
(***************************************************************************)
(* Proofs about Audio, for any number of calls, any frames and any size of *)
(* the buffer.                                                             *)
(*                                                                         *)
(* The streams of the mixer and the calls of the device change in          *)
(* different functions: activate_call and disactivate_call decide by act   *)
(* and master, mixb_attach and mixb_detach do what they are told.  What    *)
(* keeps them together is that act says the same as having a channel and   *)
(* being in a state with sound, which needs what CallOpsProofs knows of    *)
(* the calls: a MASTER has act.                                            *)
(*                                                                         *)
(* The sound needs more: the ring buffer is one (Ring), and every stream   *)
(* stands at most as far behind the read position as there are samples,    *)
(* with the write position that belongs to it (Tracked).  Then every       *)
(* operation of the mix buffer is an operation on the sequence of samples  *)
(* a reader will see (Content): written into at one place, or shortened    *)
(* at the front, wherever in the buffer that wraps around.  The pieces     *)
(* iov_write works with are that sequence cut in up to three, and what is  *)
(* left of them after a short write is as long as what is missing.         *)
(* With that, each step of Audio is the step of Mixer its handler stands   *)
(* for (Sounds).                                                           *)
(***************************************************************************)
EXTENDS Audio, CallOpsProofs

(* The calls with the flag act, and those that should have it *)
Acting(p)  == {c \in Live(p) : p.cpvt[c].act}
Sounding == {"active", "dialing", "alerting"}
Audible(p) == {c \in Live(p) : p.cpvt[c].chan /\ p.cpvt[c].state \in Sounding}

(* The mixer has the streams S, each once, and counts them *)
Streams(m, S) ==
  /\ DOMAIN m = {"rb", "streams", "pos", "attached"}
  /\ m.streams \in Seq(Cpvt) /\ IsInjective(m.streams) /\ Range(m.streams) = S
  /\ m.attached = Len(m.streams)

(* The inductive invariant *)
IndInv == Good(pvt, {}) /\ Acting(pvt) = Audible(pvt) /\ Streams(mb, Acting(pvt))

-----------------------------------------------------------------------------
(* The mixer *)

(* mixb_attach adds a stream. *)
LEMMA AttachStream ==
  ASSUME NEW m, NEW S, Streams(m, S), NEW c \in Cpvt, c \notin S
  PROVE  Streams(MB!mixb_attach(m, c), S \cup {c})
<1> DEFINE r == MB!mixb_attach(m, c)
<1>1. /\ DOMAIN r = DOMAIN m /\ r.streams = Append(m.streams, c) /\ r.attached = m.attached + 1
  BY DEF MB!mixb_attach, Streams
<1>2. m.streams \in Seq(Cpvt) /\ IsInjective(m.streams) /\ Range(m.streams) = S /\ m.attached = Len(m.streams)
  BY DEF Streams
<1> HIDE DEF r
<1>3. Append(m.streams, c) \in Seq(Cpvt) /\ Len(Append(m.streams, c)) = Len(m.streams) + 1
  BY <1>2, AppendProperties
<1>4. Range(Append(m.streams, c)) = S \cup {c} /\ IsInjective(Append(m.streams, c))
  BY <1>2, RangeOfAppend
<1> QED BY <1>1, <1>2, <1>3, <1>4 DEF Streams, r

(* mixb_detach takes one away. *)
LEMMA DetachStream ==
  ASSUME NEW m, NEW S, Streams(m, S), NEW c \in S
  PROVE  Streams(MB!mixb_detach(m, c), S \ {c})
<1> DEFINE r == MB!mixb_detach(m, c)
<1>1. /\ DOMAIN r = DOMAIN m /\ r.streams = RemoveFirst(m.streams, c) /\ r.attached = m.attached - 1
  <2>1. MB!RemoveFirst(m.streams, c) = RemoveFirst(m.streams, c)
    BY DEF MB!RemoveFirst, MB!SelectInSeq, MB!RemoveAt, MB!Min, RemoveFirst, SelectInSeq, RemoveAt, Min
  <2> QED BY <2>1 DEF MB!mixb_detach, Streams
<1>2. m.streams \in Seq(Cpvt) /\ IsInjective(m.streams) /\ Range(m.streams) = S /\ m.attached = Len(m.streams)
  BY DEF Streams
<1> HIDE DEF r
<1>3. /\ RemoveFirst(m.streams, c) \in Seq(Cpvt) /\ IsInjective(RemoveFirst(m.streams, c))
      /\ Range(RemoveFirst(m.streams, c)) = S \ {c}
      /\ Len(RemoveFirst(m.streams, c)) = Len(m.streams) - 1
  BY <1>2, RemoveFirstProperties
<1> QED BY <1>1, <1>2, <1>3 DEF Streams, r

(* Reading and writing samples leave the streams alone. *)
LEMMA ReadStreams ==
  ASSUME NEW m, NEW S, Streams(m, S), NEW n
  PROVE  Streams(MB!mixb_read_upd(m, n), S)
<1>1. LET r == MB!mixb_read_upd(m, n)
      IN  DOMAIN r = DOMAIN m /\ r.streams = m.streams /\ r.attached = m.attached
  BY DEF MB!mixb_read_upd, Streams
<1> QED BY <1>1 DEF Streams

(* mixb_write, whatever it does with the samples *)
LEMMA WriteStreams ==
  ASSUME NEW m, NEW S, Streams(m, S), NEW c, NEW data
  PROVE  Streams(MB!mixb_write(m, c, data), S)
<1>1. ASSUME NEW d
      PROVE  LET r == MB!mixb_mix_write(m, c, d)
             IN  DOMAIN r = DOMAIN m /\ r.streams = m.streams /\ r.attached = m.attached
  BY DEF MB!mixb_mix_write, Streams
<1>2. LET r == MB!mixb_write(m, c, data)
      IN  DOMAIN r = DOMAIN m /\ r.streams = m.streams /\ r.attached = m.attached
  <2> DEFINE len == MB!Min({MB!mixb_free(m, c), Len(data)})
             mix == m.rb.used - m.pos[c].used
             w == MB!mixb_mix_write(m, c, SubSeq(data, 1, MB!Min({mix, len})))
             rb == MB!rb_write(w.rb, SubSeq(data, mix + 1, len))
  <2>1. MB!mixb_write(m, c, data) = IF len <= mix THEN w
           ELSE [w EXCEPT !.rb = rb, !.pos[c] = [used |-> rb.used, write |-> rb.write]]
    BY DEF MB!mixb_write
  <2>2. DOMAIN w = DOMAIN m /\ w.streams = m.streams /\ w.attached = m.attached
    BY <1>1
  <2> HIDE DEF w, rb, len, mix
  <2> QED BY <2>1, <2>2 DEF Streams
<1> QED BY <1>2 DEF Streams

-----------------------------------------------------------------------------
(* The calls *)

(* disactivate_call takes the call's act with its sound. *)
LEMMA DisactivateSound ==
  ASSUME NEW p, Cells(p), NEW c \in Cpvt
  PROVE  LET q == disactivate_call(p, c)
         IN  /\ ~(q.cpvt[c].chan /\ q.cpvt[c].act) /\ q.cpvt[c].chan = p.cpvt[c].chan
             /\ q.cpvt[c].act => p.cpvt[c].act
             /\ q.cpvt[c].state = p.cpvt[c].state /\ q.chans = p.chans
             /\ \A k \in Cpvt : k # c => q.cpvt[k] = p.cpvt[k]
  BY DEF disactivate_call, Cells, PvtFields, CallFields

(* activate_call of a call with a channel: it has act, the others keep theirs. *)
LEMMA ActivateSound ==
  ASSUME NEW p, NEW X, Good(p, X), NEW c \in Live(p), p.cpvt[c].chan
  PROVE  LET q == activate_call(p, c)
         IN  /\ q.cpvt[c].act /\ q.chans = p.chans
             /\ \A k \in Cpvt : /\ q.cpvt[k].chan = p.cpvt[k].chan
                                /\ q.cpvt[k].state = p.cpvt[k].state
                                /\ k # c => q.cpvt[k].act = p.cpvt[k].act
<1>1. Cells(p) /\ c \in Cpvt /\ Masters(p)
  BY GoodQueue DEF Good
<1>2. CASE p.cpvt[c].master
  BY <1>1, <1>2 DEF activate_call, Masters
<1>3. CASE ~p.cpvt[c].master
  <2> DEFINE f == activate_call(p, c).cpvt
  <2>1. /\ activate_call(p, c).chans = p.chans
        /\ \A k \in Cpvt : f[k] =
              IF k = c THEN [p.cpvt[c] EXCEPT !.act = TRUE, !.master = TRUE,
                                              !.fd0 = IF p.cpvt[c].chan THEN "audio" ELSE @]
              ELSE IF k \in Live(p)
              THEN [p.cpvt[k] EXCEPT !.master = FALSE,
                      !.fd0 = IF p.cpvt[k].chan /\ p.cpvt[c].act THEN "pipe" ELSE @]
              ELSE p.cpvt[k]
    BY <1>1, <1>3 DEF activate_call, Cells, PvtFields
  <2>2. \A k \in Cpvt : DOMAIN p.cpvt[k] = CallFields
    BY <1>1 DEF Cells
  <2> HIDE DEF f
  <2>3. f[c].act /\ f[c].chan = p.cpvt[c].chan /\ f[c].state = p.cpvt[c].state
    BY <1>1, <2>1, <2>2 DEF CallFields
  <2>4. ASSUME NEW k \in Cpvt, k # c
        PROVE  f[k].chan = p.cpvt[k].chan /\ f[k].state = p.cpvt[k].state /\ f[k].act = p.cpvt[k].act
    BY <2>1, <2>2, <2>4 DEF CallFields
  <2> QED BY <2>1, <2>3, <2>4 DEF f
<1> QED BY <1>2, <1>3

(* change_channel_state along Follows: act goes on saying what can be heard. *)
LEMMA ChangeSound ==
  ASSUME NEW p, Good(p, {}), Acting(p) = Audible(p), NEW c \in Live(p), NEW new,
         <<p.cpvt[c].state, new>> \in Follows
  PROVE  LET q == change_channel_state(p, c, new)
         IN  /\ Good(q, {}) /\ Acting(q) = Audible(q)
             /\ Acting(q) = IF new \in {"onhold", "released"} THEN Acting(p) \ {c}
                            ELSE IF p.cpvt[c].chan THEN Acting(p) \cup {c} ELSE Acting(p)
<1> DEFINE r == EnterState(p, c, new)
           q == change_channel_state(p, c, new)
<1>1. /\ c \in Cpvt /\ Live(p) \subseteq Cpvt /\ Cells(p) /\ p.cpvt[c].state # "released"
      /\ p.cpvt[c].act <=> (p.cpvt[c].chan /\ p.cpvt[c].state \in Sounding)
  <2>1. p.cpvt[c].act <=> (p.cpvt[c].chan /\ p.cpvt[c].state \in Sounding)
    BY DEF Acting, Audible
  <2>2. p.cpvt[c].state # "released"
    BY DEF Good, Held
  <2> QED BY <2>1, <2>2, GoodQueue
<1>2. new \in CallStates /\ p.cpvt[c].state # new /\ new \in {"dialing", "active", "onhold", "released"}
  BY <1>1 DEF Follows, CallStates, ClccStates
<1>3. Good(q, {})
  BY <1>2, ChangeGood
<1>4. q = IF new = "released" THEN cpvt_free(disactivate_call(r, c), c)
          ELSE IF ~r.cpvt[c].chan THEN r
          ELSE IF new = "onhold" THEN disactivate_call(r, c)
          ELSE activate_call(r, c)
  BY <1>2 DEF change_channel_state
<1>5. /\ Good(r, {} \cup {c}) /\ Live(r) = Live(p) /\ Cells(r) /\ r.cpvt[c].state = new
      /\ r.cpvt[c].chan = p.cpvt[c].chan /\ r.cpvt[c].act = p.cpvt[c].act /\ r.chans = p.chans
      /\ \A k \in Cpvt : k # c => r.cpvt[k] = p.cpvt[k]
  <2>1. /\ Good(r, {} \cup {c}) /\ Live(r) = Live(p)
        /\ r.cpvt[c].chan = p.cpvt[c].chan /\ r.cpvt[c].state = new
    BY <1>2, EnterGood
  <2>2. r.cpvt[c].act = p.cpvt[c].act /\ r.chans = p.chans
        /\ \A k \in Cpvt : k # c => r.cpvt[k] = p.cpvt[k]
    BY <1>1 DEF EnterState, Cells, PvtFields, CallFields
  <2> QED BY <2>1, <2>2, GoodQueue
<1> HIDE DEF q, r
<1>6. CASE new = "released"
  <2> DEFINE d == disactivate_call(r, c)
  <2>1. Good(d, {} \cup {c}) /\ Live(d) = Live(p) /\ Cells(d)
        /\ \A k \in Cpvt : k # c => d.cpvt[k] = p.cpvt[k]
    BY <1>1, <1>5, DisactivateGood, DisactivateSound, GoodQueue
  <2>2. q = cpvt_free(d, c)
    BY <1>4, <1>6
  <2> HIDE DEF d
  <2>3. Live(q) = Live(p) \ {c}
    BY <2>1, <2>2, FreeGood
  <2>4. \A k \in Cpvt : k # c => q.cpvt[k] = p.cpvt[k]
    BY <1>1, <2>1, <2>2 DEF cpvt_free, Cells, PvtFields, CallFields
  <2>5. Acting(q) = Acting(p) \ {c} /\ Audible(q) = Audible(p) \ {c}
    BY <1>1, <2>3, <2>4 DEF Acting, Audible
  <2> QED BY <1>3, <1>6, <2>5 DEF q
<1>7. CASE new # "released" /\ ~p.cpvt[c].chan
  <2>1. q = r
    BY <1>4, <1>5, <1>7
  <2>2. Acting(q) = Acting(p) /\ Audible(q) = Audible(p) /\ c \notin Acting(p)
    BY <1>1, <1>5, <1>7, <2>1 DEF Acting, Audible
  <2> QED BY <1>3, <1>7, <2>2 DEF q
<1>8. CASE new = "onhold" /\ p.cpvt[c].chan
  <2>1. q = disactivate_call(r, c)
    BY <1>4, <1>5, <1>8
  <2>2. /\ ~q.cpvt[c].act /\ q.cpvt[c].state = "onhold" /\ Live(q) = Live(p)
        /\ \A k \in Cpvt : k # c => q.cpvt[k] = p.cpvt[k]
    <3>1. /\ ~(q.cpvt[c].chan /\ q.cpvt[c].act) /\ q.cpvt[c].chan = r.cpvt[c].chan
          /\ q.cpvt[c].state = r.cpvt[c].state /\ q.chans = r.chans
          /\ \A k \in Cpvt : k # c => q.cpvt[k] = r.cpvt[k]
      BY <1>1, <1>5, <2>1, DisactivateSound
    <3>2. ~q.cpvt[c].act /\ q.cpvt[c].state = "onhold"
      BY <1>5, <1>8, <3>1
    <3> QED BY <1>5, <3>1, <3>2 DEF Live
  <2>3. Acting(q) = Acting(p) \ {c} /\ Audible(q) = Audible(p) \ {c}
    BY <1>1, <2>2 DEF Acting, Audible, Sounding
  <2> QED BY <1>3, <1>8, <2>3 DEF q
<1>9. CASE new \in {"dialing", "active"} /\ p.cpvt[c].chan
  <2>1. q = activate_call(r, c)
    BY <1>4, <1>5, <1>9
  <2>2. /\ q.cpvt[c].act /\ q.cpvt[c].chan /\ q.cpvt[c].state = new /\ Live(q) = Live(p)
        /\ \A k \in Cpvt : k # c => /\ q.cpvt[k].chan = p.cpvt[k].chan
                                    /\ q.cpvt[k].act = p.cpvt[k].act
                                    /\ q.cpvt[k].state = p.cpvt[k].state
    <3>1. c \in Live(r) /\ r.cpvt[c].chan /\ Good(r, {} \cup {c})
      BY <1>5, <1>9
    <3>2. /\ q.cpvt[c].act /\ q.chans = r.chans
          /\ \A k \in Cpvt : /\ q.cpvt[k].chan = r.cpvt[k].chan
                             /\ q.cpvt[k].state = r.cpvt[k].state
                             /\ k # c => q.cpvt[k].act = r.cpvt[k].act
      BY <2>1, <3>1, ActivateSound
    <3> QED BY <1>1, <1>5, <1>9, <3>2 DEF Live
  <2>3. Acting(q) = Acting(p) \cup {c} /\ Audible(q) = Audible(p) \cup {c}
    BY <1>1, <1>9, <2>2 DEF Acting, Audible, Sounding
  <2> QED BY <1>3, <1>9, <2>3 DEF q
<1> QED BY <1>2, <1>6, <1>7, <1>8, <1>9

-----------------------------------------------------------------------------
(* The steps *)

(* A new call: it has no sound, and with the first one the mixer is empty. *)
LEMMA NewCallStep ==
  ASSUME IndInv, NewCall
  PROVE  IndInv'
<1> DEFINE idx == pvt_get_pseudo_call_idx(pvt)  c == pvt.allocs + 1
<1>1. /\ Good(pvt, {}) /\ pvt.allocs < MaxCalls /\ idx \in Nat /\ "init" \in CallStates \ {"released"}
      /\ pvt' = cpvt_alloc(pvt, idx, "out", "init", {})
  BY PseudoIdx DEF IndInv, NewCall, CallStates, ClccStates
<1> HIDE DEF idx
<1>2. /\ pvt'.allocs = c /\ c \in Cpvt /\ ~pvt'.cpvt[c].act /\ pvt'.cpvt[c].state = "init"
      /\ \A k \in Cpvt : k # c => pvt'.cpvt[k] = pvt.cpvt[k]
  <2>1. Cells(pvt) /\ c \in Cpvt
    BY <1>1, GoodQueue, CallOpsAssumption DEF Good, Listed, Cpvt
  <2> QED BY <1>1, <2>1 DEF cpvt_alloc, Cells, PvtFields, CallFields, Blank
<1>3. Good(pvt', {}) /\ Live(pvt') = Live(pvt) \cup {c}
  BY <1>1, <1>2, AllocGood
<1> HIDE DEF c
<1>4. c \notin Live(pvt) /\ Live(pvt) \subseteq Cpvt
  BY <1>1, LiveCalls, GoodQueue DEF Good, Listed, c
<1>5. Acting(pvt') = Acting(pvt) /\ Audible(pvt') = Audible(pvt)
  BY <1>2, <1>3, <1>4 DEF Acting, Audible, Sounding
<1>6. Streams(mb', Acting(pvt))
  <2>1. CASE pvt.chansno # 0
    BY <2>1 DEF NewCall, IndInv
  <2>2. CASE pvt.chansno = 0
    <3>1. mb' = MB!mixb_init(mb) /\ Streams(mb, Acting(pvt))
      BY <2>2 DEF NewCall, IndInv
    <3>2. Acting(pvt) = {}
      <4>1. Len(pvt.chans) = 0 /\ pvt.chans \in Seq(1 .. pvt.allocs)
        BY <1>1, <2>2 DEF Good, Listed
      <4> QED BY <4>1 DEF Acting, Live, Range
    <3>3. mb.streams = << >> /\ mb.attached = 0
      <4>1. mb.streams \in Seq(Cpvt) /\ Range(mb.streams) = {} /\ mb.attached = Len(mb.streams)
        BY <3>1, <3>2 DEF Streams
      <4>2. Len(mb.streams) \in Nat /\ DOMAIN mb.streams = 1 .. Len(mb.streams)
        BY <4>1, LenProperties
      <4>3. Len(mb.streams) = 0
        <5> SUFFICES ASSUME Len(mb.streams) # 0
                     PROVE  FALSE
          OBVIOUS
        <5>1. 1 \in DOMAIN mb.streams
          BY <4>2
        <5> QED BY <4>1, <5>1 DEF Range
      <4> QED BY <4>1, <4>3, EmptySeq
    <3>4. DOMAIN mb' = DOMAIN mb /\ mb'.streams = << >> /\ mb'.attached = mb.attached
      BY <3>1 DEF MB!mixb_init, Streams
    <3> QED BY <3>1, <3>3, <3>4 DEF Streams
  <2> QED BY <2>1, <2>2
<1> QED BY <1>3, <1>5, <1>6 DEF IndInv

(* What becomes of a call: act and stream come and go together. *)
LEMMA ReportedStep ==
  ASSUME IndInv, NEW c, NEW new, Reported(c, new)
  PROVE  IndInv'
<1>1. /\ Good(pvt, {}) /\ Acting(pvt) = Audible(pvt) /\ Streams(mb, Acting(pvt))
      /\ c \in Live(pvt) /\ <<pvt.cpvt[c].state, new>> \in Follows
      /\ pvt' = change_channel_state(pvt, c, new)
      /\ mb' = IF new \in {"onhold", "released"} THEN Detached(c)
               ELSE IF pvt.cpvt[c].chan THEN Attached(c) ELSE mb
  BY DEF IndInv, Reported
<1>2. /\ Good(pvt', {}) /\ Acting(pvt') = Audible(pvt')
      /\ Acting(pvt') = IF new \in {"onhold", "released"} THEN Acting(pvt) \ {c}
                        ELSE IF pvt.cpvt[c].chan THEN Acting(pvt) \cup {c} ELSE Acting(pvt)
  BY <1>1, ChangeSound
<1>3. c \in Cpvt /\ (c \in Acting(pvt) <=> (pvt.cpvt[c].chan /\ pvt.cpvt[c].act))
  BY <1>1, GoodQueue DEF Acting, Audible
<1>4. Streams(Detached(c), Acting(pvt) \ {c})
  <2>1. CASE c \in Acting(pvt)
    <3>1. Detached(c) = MB!mixb_detach(mb, c)
      BY <1>3, <2>1 DEF Detached
    <3>2. Streams(MB!mixb_detach(mb, c), Acting(pvt) \ {c})
      BY <1>1, <2>1, DetachStream
    <3> QED BY <3>1, <3>2
  <2>2. CASE c \notin Acting(pvt)
    <3>1. Acting(pvt) \ {c} = Acting(pvt)
      BY <2>2
    <3> QED BY <1>1, <1>3, <2>2, <3>1 DEF Detached
  <2> QED BY <2>1, <2>2
<1>5. pvt.cpvt[c].chan => Streams(Attached(c), Acting(pvt) \cup {c})
  <2>1. pvt.cpvt[c].master => pvt.cpvt[c].act
    BY <1>1 DEF Good, Masters
  <2>2. CASE pvt.cpvt[c].act
    <3>1. Acting(pvt) \cup {c} = Acting(pvt)
      BY <1>1, <2>2 DEF Acting
    <3> QED BY <1>1, <2>2, <3>1 DEF Attached
  <2>3. CASE ~pvt.cpvt[c].act
    <3>1. c \notin Acting(pvt)
      BY <2>3 DEF Acting
    <3>2. Attached(c) = MB!mixb_attach(mb, c)
      BY <2>1, <2>3 DEF Attached
    <3>3. Streams(MB!mixb_attach(mb, c), Acting(pvt) \cup {c})
      BY <1>1, <1>3, <3>1, AttachStream
    <3> QED BY <3>2, <3>3
  <2> QED BY <2>2, <2>3
<1>6. Streams(mb', Acting(pvt'))
  BY <1>1, <1>2, <1>4, <1>5
<1> QED BY <1>2, <1>6 DEF IndInv

(* channel_hangup: the sound goes before the channel. *)
LEMMA HangupStep ==
  ASSUME IndInv, NEW c, Hangup(c)
  PROVE  IndInv'
<1> DEFINE d == disactivate_call(pvt, c)
           r == [d EXCEPT !.cpvt[c].chan = FALSE]
<1>1. /\ Good(pvt, {}) /\ Acting(pvt) = Audible(pvt) /\ Streams(mb, Acting(pvt))
      /\ c \in Live(pvt) /\ pvt.cpvt[c].chan /\ mb' = Detached(c) /\ pvt' = r
  BY DEF IndInv, Hangup
<1>2. c \in Cpvt /\ Cells(pvt) /\ Live(pvt) \subseteq Cpvt
  BY <1>1, GoodQueue
<1>3. /\ Good(d, {}) /\ ~d.cpvt[c].master /\ ~d.cpvt[c].act /\ Live(d) = Live(pvt)
      /\ \A k \in Cpvt : k # c => d.cpvt[k] = pvt.cpvt[k]
  <2>1. Good(d, {}) /\ ~d.cpvt[c].master /\ Live(d) = Live(pvt)
    BY <1>1, DisactivateGood
  <2>2. /\ ~(d.cpvt[c].chan /\ d.cpvt[c].act) /\ d.cpvt[c].chan = pvt.cpvt[c].chan
        /\ \A k \in Cpvt : k # c => d.cpvt[k] = pvt.cpvt[k]
    BY <1>2, DisactivateSound
  <2> QED BY <1>1, <2>1, <2>2
<1> HIDE DEF d
<1>4. /\ Cells(r) /\ Alike(d, r) /\ r.queue = d.queue /\ r.last = d.last
      /\ ~r.cpvt[c].master /\ ~r.cpvt[c].act /\ ~r.cpvt[c].chan
      /\ \A k \in Cpvt : k # c => r.cpvt[k] = d.cpvt[k]
  BY <1>2, <1>3, GoodQueue DEF Cells, PvtFields, CallFields, Alike
<1>5. Live(r) = Live(pvt)
  BY <1>3, <1>4 DEF Live, Alike
<1> HIDE DEF r
<1>6. Good(r, {})
  <2>1. Masters(r)
    BY <1>2, <1>3, <1>4, <1>5 DEF Good, Masters
  <2> QED BY <1>3, <1>4, <2>1, AlikeGood, GoodQueue
<1>7. Acting(r) = Acting(pvt) \ {c} /\ Audible(r) = Audible(pvt) \ {c}
  BY <1>2, <1>3, <1>4, <1>5 DEF Acting, Audible
<1>8. Streams(mb', Acting(pvt) \ {c})
  <2>1. CASE pvt.cpvt[c].act
    <3>1. c \in Acting(pvt) /\ mb' = MB!mixb_detach(mb, c)
      BY <1>1, <2>1 DEF Acting, Detached
    <3> QED BY <1>1, <3>1, DetachStream
  <2>2. CASE ~pvt.cpvt[c].act
    <3>1. Acting(pvt) \ {c} = Acting(pvt) /\ mb' = mb
      BY <1>1, <2>2 DEF Acting, Detached
    <3> QED BY <1>1, <3>1
  <2> QED BY <2>1, <2>2
<1> QED BY <1>1, <1>6, <1>7, <1>8 DEF IndInv

(* Samples move, streams stay. *)
LEMMA SoundStep ==
  ASSUME IndInv, NEW c, TimerTick(c) \/ \E data : ChannelWrite(c, data)
  PROVE  IndInv'
<1>1. Streams(mb, Acting(pvt)) /\ UNCHANGED pvt
  BY DEF IndInv, TimerTick, ChannelWrite
<1>2. Streams(mb', Acting(pvt))
  <2>1. CASE TimerTick(c)
    <3>1. \/ mb' = mb
          \/ mb' = MB!mixb_read_upd(mb, Min({FRAME, mb.rb.used}))
      BY <2>1 DEF TimerTick
    <3> QED BY <1>1, <3>1, ReadStreams
  <2>2. ASSUME NEW data, ChannelWrite(c, data) PROVE Streams(mb', Acting(pvt))
    <3>1. \/ mb' = mb
          \/ mb' = MB!mixb_write(Overflow(c, data), c, Gained(data))
      BY <2>2 DEF ChannelWrite
    <3>2. Streams(Overflow(c, data), Acting(pvt))
      BY <1>1, ReadStreams DEF Overflow
    <3> QED BY <1>1, <3>1, <3>2, WriteStreams
  <2> QED BY <2>1, <2>2
<1> QED BY <1>1, <1>2 DEF IndInv

-----------------------------------------------------------------------------
(* The invariant and what follows *)

(* No calls and an empty mixer. *)
LEMMA InitInv == Init => IndInv
<1> SUFFICES ASSUME Init PROVE IndInv
  OBVIOUS
<1>1. pvt = EmptyPvt(0) /\ Live(pvt) = {}
  BY DEF Init, EmptyPvt, Live, Range
<1>2. Acting(pvt) = {} /\ Audible(pvt) = {}
  BY <1>1 DEF Acting, Audible
<1>3. Good(pvt, {})
  BY <1>1, EmptyGood, CallOpsAssumption
<1>4. DOMAIN mb = {"rb", "streams", "pos", "attached"} /\ mb.streams = << >> /\ mb.attached = 0
  BY DEF Init
<1>5. Streams(mb, {})
  BY <1>4 DEF Streams, IsInjective, Range
<1> QED BY <1>2, <1>3, <1>5 DEF IndInv

(* Every step keeps the invariant. *)
LEMMA NextInv == IndInv /\ [Next]_vars => IndInv'
<1> SUFFICES ASSUME IndInv, [Next]_vars PROVE IndInv'
  OBVIOUS
<1>1. CASE NewCall
  BY <1>1, NewCallStep
<1>2. ASSUME NEW c \in Cpvt, NEW new \in {"dialing", "active", "onhold", "released"},
             Reported(c, new)
      PROVE  IndInv'
  BY <1>2, ReportedStep
<1>3. ASSUME NEW c \in Cpvt, Hangup(c) PROVE IndInv'
  BY <1>3, HangupStep
<1>4. ASSUME NEW c \in Cpvt, TimerTick(c) \/ \E data \in Voice(c) : ChannelWrite(c, data)
      PROVE  IndInv'
  BY <1>4, SoundStep
<1>5. CASE UNCHANGED vars
  BY <1>5 DEF vars, IndInv
<1> QED BY <1>1, <1>2, <1>3, <1>4, <1>5 DEF Next

(* The streams of the mixer are those of the calls that can be heard, each   *)
(* once, and the counter the volume is divided by is their number, however   *)
(* calls come, are held, are hung up and end (activate_call,                 *)
(* disactivate_call, mixb_attach, mixb_detach).                              *)
THEOREM StreamsFollowCalls == Spec => []StreamsLive
<1>1. Init => IndInv
  BY InitInv
<1>2. IndInv /\ [Next]_vars => IndInv'
  BY NextInv
<1>3. IndInv => StreamsLive
  BY DEF IndInv, Streams, Acting, Audible, Sounding, StreamsLive
<1> QED BY <1>1, <1>2, <1>3, PTL DEF Spec

-----------------------------------------------------------------------------
(* The samples of the ring buffer *)

(* Sample is an interval with 0 in it; a sum that is cut off is in it. *)
LEMMA SampleType ==
  /\ Sample \subseteq Int /\ 0 \in Sample
  /\ \A x \in Int : MB!Saturated(x) \in Sample /\ Mix!Saturated(x) = MB!Saturated(x)
  /\ \A x \in Sample : MB!Saturated(x) = x
<1>1. /\ Min(Sample) \in Int /\ Max(Sample) \in Int
      /\ Sample = Min(Sample) .. Max(Sample) /\ 0 \in Sample
  BY AudioAssumption
<1>2. MB!Min(Sample) = Min(Sample) /\ MB!Max(Sample) = Max(Sample)
  BY DEF MB!Min, MB!Max, Min, Max
<1>3. Mix!Min(Sample) = Min(Sample) /\ Mix!Max(Sample) = Max(Sample)
  BY DEF Mix!Min, Mix!Max, Min, Max
<1>4. \A x \in Int : MB!Saturated(x) = IF x > Max(Sample) THEN Max(Sample)
                                       ELSE IF x < Min(Sample) THEN Min(Sample) ELSE x
  BY <1>2 DEF MB!Saturated
<1>5. \A x \in Int : Mix!Saturated(x) = IF x > Max(Sample) THEN Max(Sample)
                                       ELSE IF x < Min(Sample) THEN Min(Sample) ELSE x
  BY <1>3 DEF Mix!Saturated
<1> DEFINE lo == Min(Sample)  hi == Max(Sample)
<1>6. lo \in Int /\ hi \in Int /\ Sample = lo .. hi /\ lo <= 0 /\ 0 <= hi
  BY <1>1
<1> HIDE DEF lo, hi
<1> QED BY <1>4, <1>5, <1>6 DEF lo, hi

(* Positions of the ring: the i-th sample from the read position on *)
Slot(r, i) == MB!Pos(r + i - 1)

Ring(rb) ==
  /\ DOMAIN rb = {"buf", "used", "read", "write"}
  /\ rb.buf \in [0 .. Size - 1 -> Sample]
  /\ rb.used \in 0 .. Size /\ rb.read \in 0 .. Size - 1 /\ rb.write \in 0 .. Size - 1
  /\ rb.write = MB!Pos(rb.read + rb.used)

(* What rb_write_core makes of the samples, seen from the read position. *)
LEMMA CoreWrite ==
  ASSUME NEW rb, Ring(rb), NEW d \in Seq(Sample), rb.used + Len(d) <= Size,
         NEW f, \A x, y \in Sample : f[<<x, y>>] \in Sample
  PROVE  LET q == MB!rb_write_core(rb, d, f)
         IN  /\ Ring(q) /\ q.read = rb.read /\ q.used = rb.used + Len(d)
             /\ \A i \in 1 .. Size :
                  q.buf[Slot(rb.read, i)] =
                    IF i \in rb.used + 1 .. rb.used + Len(d)
                    THEN f[<<rb.buf[Slot(rb.read, i)], d[i - rb.used]>>]
                    ELSE rb.buf[Slot(rb.read, i)]
<1> DEFINE n == Len(d)  u == rb.used  r == rb.read  w == rb.write
           new(k, p) == IF p - w \in 0 .. k - 1 THEN f[<<rb.buf[p], d[p - w + 1]>>]
                        ELSE IF p + Size - w \in 0 .. k - 1 THEN f[<<rb.buf[p], d[p + Size - w + 1]>>]
                        ELSE rb.buf[p]
           q == MB!rb_write_core(rb, d, f)
<1>1. /\ n \in 0 .. Size /\ u \in 0 .. Size /\ r \in 0 .. Size - 1 /\ w \in 0 .. Size - 1
      /\ Size \in Nat \ {0} /\ u + n <= Size
      /\ w = IF r + u >= Size THEN r + u - Size ELSE r + u
      /\ rb.buf \in [0 .. Size - 1 -> Sample]
  <2>1. n \in Nat
    BY LenProperties
  <2>2. u \in 0 .. Size /\ r \in 0 .. Size - 1 /\ w \in 0 .. Size - 1 /\ rb.buf \in [0 .. Size - 1 -> Sample]
        /\ Size \in Nat \ {0}
    BY AudioAssumption DEF Ring
  <2>3. w = IF r + u >= Size THEN r + u - Size ELSE r + u
    BY <2>2 DEF Ring, MB!Pos
  <2> HIDE DEF n
  <2> QED BY <2>1, <2>2, <2>3 DEF n
<1>2. \A i \in 1 .. n : d[i] \in Sample
  BY ElementOfSeq
<1>3. /\ q.buf = [p \in 0 .. Size - 1 |-> new(n, p)] /\ q.used = u + n /\ q.read = r
      /\ q.write = IF w + n >= Size THEN w + n - Size ELSE w + n
      /\ DOMAIN q = {"buf", "used", "read", "write"}
  <2> DEFINE len == IF MB!rb_free(rb) < Len(d) THEN MB!rb_free(rb) ELSE Len(d)
  <2>1. len = n
    BY <1>1 DEF MB!rb_free
  <2>2. /\ q.buf = [p \in 0 .. Size - 1 |-> new(len, p)] /\ q.used = u + len /\ q.read = r
        /\ q.write = IF w + len >= Size THEN w + len - Size ELSE w + len
        /\ DOMAIN q = {"buf", "used", "read", "write"}
    <3>1. DOMAIN rb = {"buf", "used", "read", "write"}
      BY DEF Ring
    <3>2. q.used = u + len /\ q.read = r /\ DOMAIN q = {"buf", "used", "read", "write"}
      BY <3>1 DEF MB!rb_write_core
    <3>3. q.write = IF w + len >= Size THEN w + len - Size ELSE w + len
      <4>1. q.write = LET k == w + len IN IF k >= Size THEN k - Size ELSE k
        BY <3>1 DEF MB!rb_write_core
      <4> HIDE DEF len, q
      <4>2. w \in Int /\ len \in Int /\ Size \in Int
        BY <1>1, <2>1
      <4> HIDE DEF w
      <4> QED BY <4>1, <4>2
    <3>4. q.buf = [p \in 0 .. Size - 1 |-> new(len, p)]
      BY <3>1 DEF MB!rb_write_core
    <3> QED BY <3>2, <3>3, <3>4
  <2> HIDE DEF len, new, q, n, w
  <2> QED BY <2>1, <2>2
<1> HIDE DEF q
<1>4. \A p \in 0 .. Size - 1 : new(n, p) \in Sample
  <2> TAKE p \in 0 .. Size - 1
  <2>1. rb.buf[p] \in Sample
    BY <1>1
  <2>2. p - w \in 0 .. n - 1 => d[p - w + 1] \in Sample
    BY <1>1, <1>2
  <2>3. p + Size - w \in 0 .. n - 1 => d[p + Size - w + 1] \in Sample
    BY <1>1, <1>2
  <2> QED BY <2>1, <2>2, <2>3
<1>5. \A i \in 1 .. Size : Slot(r, i) \in Int
                           /\ Slot(r, i) = IF r + i - 1 >= Size THEN r + i - 1 - Size ELSE r + i - 1
  BY <1>1, SMTT(30) DEF Slot, MB!Pos
<1> HIDE DEF n, u, r, w
<1>6. ASSUME NEW i \in 1 .. Size
      PROVE  /\ Slot(r, i) \in 0 .. Size - 1
             /\ new(n, Slot(r, i)) = IF i \in u + 1 .. u + n THEN f[<<rb.buf[Slot(r, i)], d[i - u]>>]
                                     ELSE rb.buf[Slot(r, i)]
  <2> DEFINE p == Slot(r, i)
  <2>1. /\ p \in 0 .. Size - 1
        /\ i \in u + 1 .. u + n => \/ p - w \in 0 .. n - 1 /\ p - w + 1 = i - u
                                   \/ /\ p - w \notin 0 .. n - 1 /\ p + Size - w \in 0 .. n - 1
                                      /\ p + Size - w + 1 = i - u
        /\ i \notin u + 1 .. u + n => p - w \notin 0 .. n - 1 /\ p + Size - w \notin 0 .. n - 1
    <3>1. p \in Int /\ p = IF r + i - 1 >= Size THEN r + i - 1 - Size ELSE r + i - 1
      BY <1>5
    <3>2. /\ Size \in Nat \ {0} /\ r \in 0 .. Size - 1 /\ u \in 0 .. Size /\ n \in 0 .. Size
          /\ u + n <= Size /\ i \in 1 .. Size
          /\ w \in Int /\ w = IF r + u >= Size THEN r + u - Size ELSE r + u
      BY <1>1
    <3> HIDE DEF p
    <3>3. p \in 0 .. Size - 1
      BY <3>1, <3>2
    <3>4. CASE i \in u + 1 .. u + n
      BY <3>1, <3>2, <3>3, <3>4
    <3>5. CASE i \notin u + 1 .. u + n
      BY <3>1, <3>2, <3>3, <3>5
    <3> QED BY <3>3, <3>4, <3>5
  <2> HIDE DEF p
  <2>2. new(n, p) = IF i \in u + 1 .. u + n THEN f[<<rb.buf[p], d[i - u]>>] ELSE rb.buf[p]
    <3>1. CASE i \in u + 1 .. u + n
      BY <2>1, <3>1
    <3>2. CASE i \notin u + 1 .. u + n
      BY <2>1, <3>2
    <3> QED BY <3>1, <3>2
  <2> HIDE DEF new
  <2> QED BY <2>1, <2>2 DEF p
<1> HIDE DEF new
<1>7. Ring(q)
  <2>1. q.buf \in [0 .. Size - 1 -> Sample]
    BY <1>3, <1>4
  <2>2. q.used \in 0 .. Size /\ q.read \in 0 .. Size - 1 /\ q.write \in 0 .. Size - 1
    <3>1. q.used \in 0 .. Size /\ q.read \in 0 .. Size - 1
      BY <1>1, <1>3, SMTT(30)
    <3>2. q.write = IF w + n >= Size THEN w + n - Size ELSE w + n
      BY <1>3
    <3>3. w \in 0 .. Size - 1 /\ n \in 0 .. Size /\ Size \in Nat \ {0}
      BY <1>1
    <3>4. q.write \in 0 .. Size - 1
      BY <3>2, <3>3
    <3> QED BY <3>1, <3>4
  <2>3. q.write = MB!Pos(q.read + q.used)
    <3>1. q.write = IF r + (u + n) >= Size THEN r + (u + n) - Size ELSE r + (u + n)
      BY <1>1, <1>3
    <3>2. MB!Pos(r + (u + n)) = IF r + (u + n) >= Size THEN r + (u + n) - Size ELSE r + (u + n)
      BY <1>1 DEF MB!Pos
    <3>3. MB!Pos(q.read + q.used) = MB!Pos(r + (u + n))
      BY <1>3
    <3> QED BY <3>1, <3>2, <3>3
  <2> QED BY <1>3, <2>1, <2>2, <2>3 DEF Ring
<1>8. ASSUME NEW i \in 1 .. Size PROVE q.buf[Slot(r, i)] = new(n, Slot(r, i))
  BY <1>3, <1>6
<1> QED BY <1>3, <1>6, <1>7, <1>8 DEF q, n, u, r

(* The smaller and the larger of two numbers. *)
LEMMA TwoNumbers ==
  ASSUME NEW a \in Int, NEW b \in Int
  PROVE  /\ MB!Min({a, b}) = IF a <= b THEN a ELSE b
         /\ Mix!Max({a, b}) = IF a <= b THEN b ELSE a
         /\ Min({a, b}) = IF a <= b THEN a ELSE b
         /\ Max({a, b}) = IF a <= b THEN b ELSE a
<1>1. MB!Min({a, b}) = IF a <= b THEN a ELSE b
  BY DEF MB!Min
<1>2. Min({a, b}) = IF a <= b THEN a ELSE b
  BY DEF Min
<1>3. Mix!Max({a, b}) = IF a <= b THEN b ELSE a
  BY DEF Mix!Max
<1>4. Max({a, b}) = IF a <= b THEN b ELSE a
  BY DEF Max
<1> QED BY <1>1, <1>2, <1>3, <1>4

(* Every stream stands somewhere between the read and the write position *)
Tracked(m) ==
  /\ Ring(m.rb)
  /\ DOMAIN m.pos = Cpvt /\ \A c \in Cpvt : DOMAIN m.pos[c] = {"used", "write"}
  /\ \A c \in Range(m.streams) : /\ m.pos[c].used \in 0 .. m.rb.used
                                 /\ m.pos[c].write = MB!Pos(m.rb.read + m.pos[c].used)

(* mixb_mix_write adds the samples to those that are there. *)
LEMMA MixedIn ==
  ASSUME NEW m, NEW S, Streams(m, S), Tracked(m), NEW c \in S,
         NEW d \in Seq(Sample), m.pos[c].used + Len(d) <= m.rb.used
  PROVE  LET q == MB!mixb_mix_write(m, c, d)
             k == m.pos[c].used
         IN  /\ DOMAIN q = DOMAIN m /\ q.streams = m.streams /\ Ring(q.rb)
             /\ q.rb.used = m.rb.used /\ q.rb.read = m.rb.read
             /\ \A i \in 1 .. Size :
                  q.rb.buf[Slot(m.rb.read, i)] =
                    IF i \in k + 1 .. k + Len(d)
                    THEN MB!Saturated(m.rb.buf[Slot(m.rb.read, i)] + d[i - k])
                    ELSE m.rb.buf[Slot(m.rb.read, i)]
             /\ q.pos[c] = [used |-> k + Len(d), write |-> MB!Pos(m.rb.read + (k + Len(d)))]
             /\ DOMAIN q.pos = Cpvt /\ \A e \in Cpvt : e # c => q.pos[e] = m.pos[e]
<1> DEFINE k == m.pos[c].used
           rb == [m.rb EXCEPT !.write = m.pos[c].write, !.used = k]
           f == MB!saturated_sum
           mine == MB!rb_write_core(rb, d, f)
           q == MB!mixb_mix_write(m, c, d)
<1>1. /\ Ring(m.rb) /\ c \in Range(m.streams) /\ c \in Cpvt
      /\ DOMAIN m = {"rb", "streams", "pos", "attached"}
  <2>1. c \in Range(m.streams) /\ m.streams \in Seq(Cpvt)
    BY DEF Streams
  <2>2. c \in Cpvt
    BY <2>1 DEF Range
  <2> QED BY <2>1, <2>2 DEF Streams, Tracked
<1>2. k \in 0 .. m.rb.used /\ m.pos[c].write = MB!Pos(m.rb.read + k) /\ m.rb.used \in 0 .. Size
  BY <1>1 DEF Tracked, Ring
<1>3. Len(d) \in Nat /\ Size \in Nat \ {0} /\ k + Len(d) <= Size
  BY <1>2, LenProperties, AudioAssumption
<1>4. DOMAIN rb = {"buf", "used", "read", "write"} /\ rb.buf = m.rb.buf /\ rb.read = m.rb.read
      /\ rb.used = k /\ rb.write = m.pos[c].write
  BY <1>1 DEF Ring
<1>5. Ring(rb)
  <2>1. m.pos[c].write \in 0 .. Size - 1
    BY <1>1, <1>2, <1>3 DEF Ring, MB!Pos
  <2>2. k \in 0 .. Size
    BY <1>2, <1>3
  <2> HIDE DEF k, rb
  <2> QED BY <1>1, <1>2, <1>4, <2>1, <2>2 DEF Ring
<1> HIDE DEF rb
<1>6. \A x, y \in Sample : f[<<x, y>>] = MB!Saturated(x + y) /\ f[<<x, y>>] \in Sample
  <2>1. ASSUME NEW x \in Sample, NEW y \in Sample
        PROVE  f[<<x, y>>] = MB!Saturated(x + y)
    BY DEF MB!saturated_sum
  <2>2. ASSUME NEW x \in Sample, NEW y \in Sample
        PROVE  MB!Saturated(x + y) \in Sample
    <3>1. x + y \in Int
      BY SampleType
    <3> QED BY <3>1, SampleType
  <2> QED BY <2>1, <2>2
<1> HIDE DEF f
<1>7. /\ Ring(mine) /\ mine.read = m.rb.read /\ mine.used = k + Len(d)
      /\ \A i \in 1 .. Size :
            mine.buf[Slot(m.rb.read, i)] =
              IF i \in k + 1 .. k + Len(d)
              THEN f[<<m.rb.buf[Slot(m.rb.read, i)], d[i - k]>>]
              ELSE m.rb.buf[Slot(m.rb.read, i)]
  <2>1. rb.used + Len(d) <= Size /\ \A x, y \in Sample : f[<<x, y>>] \in Sample
    BY <1>3, <1>4, <1>6
  <2>2. /\ Ring(mine) /\ mine.read = rb.read /\ mine.used = rb.used + Len(d)
        /\ \A i \in 1 .. Size :
              mine.buf[Slot(rb.read, i)] =
                IF i \in rb.used + 1 .. rb.used + Len(d)
                THEN f[<<rb.buf[Slot(rb.read, i)], d[i - rb.used]>>]
                ELSE rb.buf[Slot(rb.read, i)]
    BY <1>5, <2>1, CoreWrite
  <2> HIDE DEF mine, k
  <2> QED BY <1>4, <2>2
<1>8. /\ q = [m EXCEPT !.pos[c] = [used |-> mine.used, write |-> mine.write], !.rb.buf = mine.buf]
  BY DEF MB!mixb_mix_write, rb, f
<1> HIDE DEF mine, q
<1>9. /\ DOMAIN q = DOMAIN m /\ q.streams = m.streams
      /\ DOMAIN q.rb = DOMAIN m.rb /\ q.rb.buf = mine.buf /\ q.rb.used = m.rb.used
      /\ q.rb.read = m.rb.read /\ q.rb.write = m.rb.write
      /\ q.pos[c] = [used |-> mine.used, write |-> mine.write]
      /\ DOMAIN q.pos = Cpvt /\ \A e \in Cpvt : e # c => q.pos[e] = m.pos[e]
  BY <1>1, <1>8 DEF Ring, Tracked
<1>10. Ring(q.rb)
  BY <1>1, <1>7, <1>9 DEF Ring
<1>11. mine.write = MB!Pos(m.rb.read + (k + Len(d)))
  BY <1>7 DEF Ring
<1>12. ASSUME NEW i \in 1 .. Size
       PROVE  q.rb.buf[Slot(m.rb.read, i)] =
                IF i \in k + 1 .. k + Len(d)
                THEN MB!Saturated(m.rb.buf[Slot(m.rb.read, i)] + d[i - k])
                ELSE m.rb.buf[Slot(m.rb.read, i)]
  <2>1. CASE i \in k + 1 .. k + Len(d)
    <3>1. d[i - k] \in Sample
      <4>1. i - k \in 1 .. Len(d)
        BY <1>2, <1>3, <2>1
      <4> QED BY <4>1, ElementOfSeq
    <3>2. m.rb.buf[Slot(m.rb.read, i)] \in Sample
      <4>1. Slot(m.rb.read, i) \in 0 .. Size - 1
        BY <1>1, <1>3 DEF Slot, MB!Pos, Ring
      <4> QED BY <1>1, <4>1 DEF Ring
    <3> HIDE DEF k
    <3> QED BY <1>6, <1>7, <1>9, <2>1, <3>1, <3>2
  <2>2. CASE i \notin k + 1 .. k + Len(d)
    BY <1>7, <1>9, <2>2
  <2> QED BY <2>1, <2>2
<1> HIDE DEF k
<1> QED BY <1>7, <1>9, <1>10, <1>11, <1>12 DEF q, k

-----------------------------------------------------------------------------
(* What a reader will see *)

(* The samples a reader will see are a sequence. *)
LEMMA ContentType ==
  ASSUME NEW rb, Ring(rb)
  PROVE  /\ MB!Content(rb) \in Seq(Sample) /\ Len(MB!Content(rb)) = rb.used
         /\ \A i \in 1 .. rb.used : /\ MB!Content(rb)[i] = rb.buf[Slot(rb.read, i)]
                                    /\ MB!Content(rb)[i] \in Sample
<1> DEFINE x(i) == rb.buf[Slot(rb.read, i)]
<1>1. rb.used \in 0 .. Size /\ rb.read \in 0 .. Size - 1 /\ Size \in Nat \ {0}
      /\ rb.buf \in [0 .. Size - 1 -> Sample]
  BY AudioAssumption DEF Ring
<1>2. MB!Content(rb) = [i \in 1 .. rb.used |-> x(i)]
  BY DEF MB!Content, Slot
<1>3. \A i \in 1 .. rb.used : x(i) \in Sample
  <2> TAKE i \in 1 .. rb.used
  <2>1. Slot(rb.read, i) \in 0 .. Size - 1
    BY <1>1 DEF Slot, MB!Pos
  <2> QED BY <1>1, <2>1
<1> HIDE DEF x
<1>4. rb.used \in Nat
  BY <1>1
<1> QED BY <1>2, <1>3, <1>4 DEF x

(* Added to a sequence of samples, one by one. *)
LEMMA AddedOneByOne ==
  ASSUME NEW s \in Seq(Sample), NEW k \in 0 .. Len(s), NEW d \in Seq(Sample), NEW t \in Seq(Sample),
         Len(t) = IF k + Len(d) <= Len(s) THEN Len(s) ELSE k + Len(d),
         \A i \in 1 .. Len(t) :
           t[i] = IF i <= Len(s)
                  THEN IF i \in k + 1 .. k + Len(d) THEN MB!Saturated(s[i] + d[i - k]) ELSE s[i]
                  ELSE d[i - k]
  PROVE  t = Mix!Added(s, k, d)
<1> DEFINE n == Len(s)  l == Len(d)
           a(i) == LET old == IF i <= Len(s) THEN s[i] ELSE 0
                   IN  IF i > k /\ i <= k + Len(d) THEN Mix!Saturated(old + d[i - k]) ELSE old
<1>1. n \in Nat /\ l \in Nat /\ k \in 0 .. n /\ Len(t) \in Nat
  BY LenProperties
<1>2. Mix!Max({n, k + l}) = Len(t)
  <2>1. Mix!Max({n, k + l}) = IF n <= k + l THEN k + l ELSE n
    <3>1. n \in Int /\ k + l \in Int
      BY <1>1
    <3> HIDE DEF n, l
    <3> QED BY <3>1, TwoNumbers
  <2> HIDE DEF n, l
  <2> QED BY <1>1, <2>1 DEF n, l
<1>3. Mix!Added(s, k, d) = [i \in 1 .. Len(t) |-> a(i)]
  BY <1>2 DEF Mix!Added
<1>4. ASSUME NEW i \in 1 .. Len(t) PROVE t[i] = a(i)
  <2>1. CASE i <= n /\ i \in k + 1 .. k + l
    <3>1. s[i] \in Sample /\ d[i - k] \in Sample
      <4>1. i \in 1 .. n /\ i - k \in 1 .. l
        BY <1>1, <2>1
      <4> QED BY <4>1, ElementOfSeq
    <3>2. MB!Saturated(s[i] + d[i - k]) = Mix!Saturated(s[i] + d[i - k])
      <4>1. s[i] + d[i - k] \in Int
        <5>1. s[i] \in Int /\ d[i - k] \in Int
          BY <3>1, SampleType
        <5> QED BY <5>1
      <4> QED BY <4>1, SampleType
    <3>3. i > k /\ i <= k + l
      BY <1>1, <2>1
    <3>4. a(i) = Mix!Saturated(s[i] + d[i - k])
      BY <2>1, <3>3
    <3> HIDE DEF a
    <3> QED BY <2>1, <3>2, <3>4
  <2>2. CASE i <= n /\ i \notin k + 1 .. k + l
    <3>1. ~(i > k /\ i <= k + l)
      BY <1>1, <2>2
    <3> QED BY <2>2, <3>1
  <2>3. CASE ~(i <= n)
    <3>1. i > k /\ i <= k + l /\ i - k \in 1 .. l
      BY <1>1, <2>3
    <3>2. d[i - k] \in Sample /\ d[i - k] \in Int
      BY <3>1, ElementOfSeq, SampleType
    <3>3. MB!Saturated(d[i - k]) = Mix!Saturated(d[i - k]) /\ MB!Saturated(d[i - k]) = d[i - k]
      BY <3>2, SampleType
    <3>4. a(i) = Mix!Saturated(0 + d[i - k])
      BY <2>3, <3>1
    <3>5. 0 + d[i - k] = d[i - k]
      BY <3>2
    <3>6. t[i] = d[i - k]
      BY <2>3
    <3> HIDE DEF a
    <3> QED BY <3>3, <3>4, <3>5, <3>6
  <2> QED BY <2>1, <2>2, <2>3
<1>5. t = [i \in 1 .. Len(t) |-> t[i]]
  BY <1>1
<1> HIDE DEF a
<1> QED BY <1>3, <1>4, <1>5

(* mixb_write: what fits is added where the stream stands, and the stream goes on. *)
LEMMA Written ==
  ASSUME NEW m, NEW S, Streams(m, S), Tracked(m), NEW c \in S, NEW data \in Seq(Sample)
  PROVE  LET q   == MB!mixb_write(m, c, data)
             k   == m.pos[c].used
             len == IF Size - k <= Len(data) THEN Size - k ELSE Len(data)
         IN  /\ Tracked(q) /\ q.pos[c].used = k + len
             /\ \A e \in Cpvt : e # c => q.pos[e] = m.pos[e]
             /\ MB!Content(q.rb) = Mix!Added(MB!Content(m.rb), k, SubSeq(data, 1, len))
<1> DEFINE q   == MB!mixb_write(m, c, data)
           k   == m.pos[c].used
           r   == m.rb.read
           u   == m.rb.used
           len == IF Size - k <= Len(data) THEN Size - k ELSE Len(data)
           mix == u - k
           m1  == IF mix <= len THEN mix ELSE len
           d1  == SubSeq(data, 1, m1)
           w   == MB!mixb_mix_write(m, c, d1)
           d2  == SubSeq(data, mix + 1, len)
           rb  == MB!rb_write(w.rb, d2)
<1>1. c \in Cpvt /\ c \in Range(m.streams) /\ DOMAIN m = {"rb", "streams", "pos", "attached"}
  <2>1. c \in Range(m.streams) /\ m.streams \in Seq(Cpvt)
    BY DEF Streams
  <2> QED BY <2>1 DEF Streams, Range
<1>2. /\ k \in 0 .. u /\ u \in 0 .. Size /\ r \in 0 .. Size - 1 /\ Size \in Nat \ {0} /\ Ring(m.rb)
  BY <1>1, AudioAssumption DEF Tracked, Ring
<1>3. Len(data) \in Nat
  BY LenProperties
<1> HIDE DEF k, r, u
<1>4. /\ len \in 0 .. Size - k /\ len <= Len(data) /\ mix \in 0 .. Size /\ m1 \in 0 .. len /\ m1 <= mix
      /\ k + len <= Size /\ k + m1 <= u
  BY <1>2, <1>3
<1>5. q = IF len <= mix THEN w ELSE [w EXCEPT !.rb = rb, !.pos[c] = [used |-> rb.used, write |-> rb.write]]
  <2>1. MB!Min({MB!mixb_free(m, c), Len(data)}) = len
    <3>1. MB!mixb_free(m, c) = Size - k
      BY DEF MB!mixb_free, k
    <3>2. Size - k \in Int /\ Len(data) \in Int
      BY <1>2, <1>3
    <3>3. MB!Min({Size - k, Len(data)}) = len
      BY <3>2, TwoNumbers
    <3> QED BY <3>1, <3>3
  <2> DEFINE l == MB!Min({MB!mixb_free(m, c), Len(data)})
             mw == MB!mixb_mix_write(m, c, SubSeq(data, 1, MB!Min({mix, l})))
             rw == MB!rb_write(mw.rb, SubSeq(data, mix + 1, l))
  <2>2. q = IF l <= mix THEN mw
            ELSE [mw EXCEPT !.rb = rw, !.pos[c] = [used |-> rw.used, write |-> rw.write]]
    BY DEF MB!mixb_write, k, u
  <2>3. MB!Min({mix, len}) = m1
    <3>1. mix \in Int /\ len \in Int
      BY <1>4
    <3> HIDE DEF mix, len
    <3> QED BY <3>1, TwoNumbers
  <2> HIDE DEF l, len, mix, m1
  <2>4. l = len
    BY <2>1 DEF l
  <2> QED BY <2>2, <2>3, <2>4
<1> HIDE DEF len, mix, m1
<1>6. /\ d1 \in Seq(Sample) /\ Len(d1) = m1 /\ \A i \in 1 .. m1 : d1[i] = data[i]
      /\ SubSeq(data, 1, len) \in Seq(Sample) /\ Len(SubSeq(data, 1, len)) = len
      /\ \A i \in 1 .. len : SubSeq(data, 1, len)[i] = data[i]
  <2>1. ASSUME NEW l \in 0 .. Len(data)
        PROVE  /\ SubSeq(data, 1, l) \in Seq(Sample) /\ Len(SubSeq(data, 1, l)) = l
               /\ \A i \in 1 .. l : SubSeq(data, 1, l)[i] = data[i]
    BY <1>3, SubSeqProperties
  <2>2. m1 \in 0 .. Len(data) /\ len \in 0 .. Len(data)
    BY <1>2, <1>3, <1>4
  <2> QED BY <2>1, <2>2
<1> HIDE DEF d1
<1>7. /\ DOMAIN w = DOMAIN m /\ w.streams = m.streams /\ Ring(w.rb) /\ w.rb.used = u /\ w.rb.read = r
      /\ \A i \in 1 .. Size :
           w.rb.buf[Slot(r, i)] = IF i \in k + 1 .. k + m1
                                  THEN MB!Saturated(m.rb.buf[Slot(r, i)] + d1[i - k])
                                  ELSE m.rb.buf[Slot(r, i)]
      /\ w.pos[c] = [used |-> k + m1, write |-> MB!Pos(r + (k + m1))]
      /\ DOMAIN w.pos = Cpvt /\ \A e \in Cpvt : e # c => w.pos[e] = m.pos[e]
  <2>1. d1 \in Seq(Sample) /\ m.pos[c].used + Len(d1) <= m.rb.used
    BY <1>4, <1>6 DEF k, u
  <2>2. /\ DOMAIN w = DOMAIN m /\ w.streams = m.streams /\ Ring(w.rb)
        /\ w.rb.used = m.rb.used /\ w.rb.read = m.rb.read
        /\ \A i \in 1 .. Size :
             w.rb.buf[Slot(m.rb.read, i)] =
               IF i \in m.pos[c].used + 1 .. m.pos[c].used + Len(d1)
               THEN MB!Saturated(m.rb.buf[Slot(m.rb.read, i)] + d1[i - m.pos[c].used])
               ELSE m.rb.buf[Slot(m.rb.read, i)]
        /\ w.pos[c] = [used |-> m.pos[c].used + Len(d1),
                       write |-> MB!Pos(m.rb.read + (m.pos[c].used + Len(d1)))]
        /\ DOMAIN w.pos = Cpvt /\ \A e \in Cpvt : e # c => w.pos[e] = m.pos[e]
    BY <2>1, MixedIn
  <2> HIDE DEF w
  <2> QED BY <1>6, <2>2 DEF k, r, u
<1> HIDE DEF w
<1> DEFINE Goal == /\ Tracked(q) /\ q.pos[c].used = k + len
                   /\ \A e \in Cpvt : e # c => q.pos[e] = m.pos[e]
                   /\ MB!Content(q.rb) = Mix!Added(MB!Content(m.rb), k, SubSeq(data, 1, len))
<1>8. CASE len <= mix
  <2> SUFFICES Goal
    BY DEF q, k, len
  <2>1. q = w /\ m1 = len /\ d1 = SubSeq(data, 1, len)
    BY <1>4, <1>5, <1>8 DEF m1, d1
  <2>2. Tracked(w)
    <3>1. w.pos[c].used \in 0 .. u /\ w.pos[c].write = MB!Pos(r + w.pos[c].used)
          /\ DOMAIN w.pos[c] = {"used", "write"}
      BY <1>2, <1>4, <1>7
    <3>2. \A e \in Cpvt : e # c => DOMAIN w.pos[e] = {"used", "write"}
      BY <1>7 DEF Tracked
    <3>3. \A e \in Range(m.streams) : e # c => /\ w.pos[e].used \in 0 .. u
                                              /\ w.pos[e].write = MB!Pos(r + w.pos[e].used)
      <4>1. \A e \in Range(m.streams) : e \in Cpvt
        BY DEF Streams, Range
      <4> QED BY <1>7, <4>1 DEF Tracked, u, r
    <3> QED BY <1>1, <1>7, <3>1, <3>2, <3>3 DEF Tracked
  <2>3. MB!Content(w.rb) = Mix!Added(MB!Content(m.rb), k, d1)
    <3> DEFINE s == MB!Content(m.rb)  t == MB!Content(w.rb)
    <3>1. s \in Seq(Sample) /\ Len(s) = u /\ \A i \in 1 .. u : s[i] = m.rb.buf[Slot(r, i)]
      BY <1>2, ContentType DEF u, r
    <3>2. t \in Seq(Sample) /\ Len(t) = u /\ \A i \in 1 .. u : t[i] = w.rb.buf[Slot(r, i)]
      BY <1>7, ContentType
    <3> HIDE DEF s, t
    <3>3. k \in 0 .. Len(s) /\ Len(t) = IF k + Len(d1) <= Len(s) THEN Len(s) ELSE k + Len(d1)
      BY <1>2, <1>4, <1>6, <3>1, <3>2
    <3>4. ASSUME NEW i \in 1 .. Len(t)
          PROVE  t[i] = IF i <= Len(s)
                        THEN IF i \in k + 1 .. k + Len(d1) THEN MB!Saturated(s[i] + d1[i - k]) ELSE s[i]
                        ELSE d1[i - k]
      <4>1. i \in 1 .. u /\ i \in 1 .. Size /\ i <= Len(s)
        BY <1>2, <3>1, <3>2
      <4> QED BY <1>6, <1>7, <3>1, <3>2, <4>1
    <3> QED BY <1>6, <3>1, <3>2, <3>3, <3>4, AddedOneByOne DEF s, t
  <2> HIDE DEF q
  <2> QED BY <1>4, <1>7, <2>1, <2>2, <2>3
<1>9. CASE len > mix
  <2> SUFFICES Goal
    BY DEF q, k, len
  <2>1. /\ q = [w EXCEPT !.rb = rb, !.pos[c] = [used |-> rb.used, write |-> rb.write]]
        /\ m1 = mix /\ k + mix = u /\ k + len = u + (len - mix) /\ len - mix \in Nat
    <3>1. q = [w EXCEPT !.rb = rb, !.pos[c] = [used |-> rb.used, write |-> rb.write]]
      BY <1>4, <1>5, <1>9
    <3>2. m1 = mix
      BY <1>4, <1>9 DEF m1
    <3>3. k + mix = u /\ k + len = u + (len - mix) /\ len - mix \in Nat
      BY <1>2, <1>4, <1>9 DEF mix
    <3> QED BY <3>1, <3>2, <3>3
  <2>sums. k \in Nat /\ mix \in Nat /\ len \in Nat /\ m1 = mix /\ u = k + mix /\ mix <= len
    BY <1>2, <1>4, <1>9, <2>1
  <2>2. /\ d2 \in Seq(Sample) /\ Len(d2) = len - mix
        /\ \A i \in 1 .. len - mix : d2[i] = data[mix + i]
    <3>1. \A i \in mix + 1 .. len : i \in 1 .. Len(data)
      BY <1>3, <1>4
    <3>2. mix + 1 \in Int /\ len \in Int
      BY <1>4
    <3>3. d2 \in Seq(Sample) /\ Len(d2) = (IF mix + 1 <= len THEN len - (mix + 1) + 1 ELSE 0)
          /\ \A i \in 1 .. len - (mix + 1) + 1 : d2[i] = data[mix + 1 + i - 1]
      BY <3>1, <3>2, SubSeqProperties
    <3> HIDE DEF d2
    <3> QED BY <1>4, <1>9, <3>3
  <2> HIDE DEF d2, q
  <2>3. /\ Ring(rb) /\ rb.read = r /\ rb.used = k + len
        /\ \A i \in 1 .. Size :
             rb.buf[Slot(r, i)] = IF i \in u + 1 .. k + len THEN d2[i - u] ELSE w.rb.buf[Slot(r, i)]
    <3> DEFINE f == [pair \in Sample \X Sample |-> pair[2]]
               g == MB!rb_write_core(w.rb, d2, f)
    <3>1. \A x, y \in Sample : f[<<x, y>>] = y /\ f[<<x, y>>] \in Sample
      OBVIOUS
    <3>2. rb = g
      BY DEF MB!rb_write
    <3> HIDE DEF f
    <3>3. w.rb.used + Len(d2) = k + len /\ k + len <= Size
      BY <1>4, <1>7, <2>1, <2>2
    <3>4. /\ Ring(g) /\ g.read = w.rb.read /\ g.used = w.rb.used + Len(d2)
          /\ \A i \in 1 .. Size :
               g.buf[Slot(w.rb.read, i)] =
                 IF i \in w.rb.used + 1 .. w.rb.used + Len(d2)
                 THEN f[<<w.rb.buf[Slot(w.rb.read, i)], d2[i - w.rb.used]>>]
                 ELSE w.rb.buf[Slot(w.rb.read, i)]
      <4>1. Ring(w.rb) /\ d2 \in Seq(Sample) /\ w.rb.used + Len(d2) <= Size
        BY <1>7, <2>2, <3>3
      <4>2. \A x, y \in Sample : f[<<x, y>>] \in Sample
        BY <3>1
      <4> QED BY <4>1, <4>2, CoreWrite
    <3> HIDE DEF g
    <3>5. ASSUME NEW i \in 1 .. Size, i \in u + 1 .. k + len
          PROVE  f[<<w.rb.buf[Slot(r, i)], d2[i - u]>>] = d2[i - u]
      <4>1. Slot(r, i) \in 0 .. Size - 1
        BY <1>2 DEF Slot, MB!Pos
      <4>2. w.rb.buf[Slot(r, i)] \in Sample
        BY <1>7, <4>1 DEF Ring
      <4>3. i - u \in 1 .. len - mix
        <5>1. i \in Int /\ u + 1 <= i /\ i <= k + len
          BY <2>sums, <3>5
        <5> QED BY <2>sums, <5>1
      <4>4. d2[i - u] \in Sample
        BY <2>2, <4>3, ElementOfSeq
      <4> QED BY <3>1, <4>2, <4>4
    <3> QED BY <1>7, <3>2, <3>3, <3>4, <3>5
  <2> HIDE DEF rb
  <2>4. /\ q.rb = rb /\ q.streams = m.streams /\ DOMAIN q.pos = Cpvt
        /\ q.pos[c] = [used |-> rb.used, write |-> rb.write]
        /\ \A e \in Cpvt : e # c => q.pos[e] = m.pos[e]
    BY <1>1, <1>7, <2>1
  <2>5. Tracked(q)
    <3>1. /\ q.pos[c].used \in 0 .. rb.used /\ q.pos[c].write = MB!Pos(rb.read + q.pos[c].used)
          /\ DOMAIN q.pos[c] = {"used", "write"}
      BY <2>3, <2>4 DEF Ring
    <3>2. \A e \in Cpvt : e # c => DOMAIN q.pos[e] = {"used", "write"}
      BY <2>4 DEF Tracked
    <3>3. \A e \in Range(m.streams) : e # c => /\ q.pos[e].used \in 0 .. rb.used
                                              /\ q.pos[e].write = MB!Pos(rb.read + q.pos[e].used)
      <4>1. \A e \in Range(m.streams) : e \in Cpvt
        BY DEF Streams, Range
      <4>2. \A e \in Range(m.streams) : m.pos[e].used \in 0 .. u /\ m.pos[e].write = MB!Pos(r + m.pos[e].used)
        BY DEF Tracked, u, r
      <4>3. \A x : x \in 0 .. u => x \in 0 .. rb.used
        BY <1>2, <1>4, <2>1, <2>3, SMTT(30)
      <4> QED BY <2>3, <2>4, <4>1, <4>2, <4>3
    <3> QED BY <2>3, <2>4, <3>1, <3>2, <3>3 DEF Tracked
  <2>6. MB!Content(rb) = Mix!Added(MB!Content(m.rb), k, SubSeq(data, 1, len))
    <3> DEFINE s == MB!Content(m.rb)  t == MB!Content(rb)  d == SubSeq(data, 1, len)
    <3>1. s \in Seq(Sample) /\ Len(s) = u /\ \A i \in 1 .. u : s[i] = m.rb.buf[Slot(r, i)]
      BY <1>2, ContentType DEF u, r
    <3>2. t \in Seq(Sample) /\ Len(t) = k + len /\ \A i \in 1 .. k + len : t[i] = rb.buf[Slot(r, i)]
      BY <2>3, ContentType
    <3>3. d \in Seq(Sample) /\ Len(d) = len /\ \A i \in 1 .. len : d[i] = data[i]
      BY <1>6
    <3> HIDE DEF s, t, d
    <3>4. k \in 0 .. Len(s) /\ Len(t) = IF k + Len(d) <= Len(s) THEN Len(s) ELSE k + Len(d)
      BY <1>2, <1>4, <1>9, <2>1, <3>1, <3>2, <3>3, SMTT(30)
    <3>5. ASSUME NEW i \in 1 .. Len(t)
          PROVE  t[i] = IF i <= Len(s)
                        THEN IF i \in k + 1 .. k + Len(d) THEN MB!Saturated(s[i] + d[i - k]) ELSE s[i]
                        ELSE d[i - k]
      <4>1. i \in 1 .. k + len /\ i \in 1 .. Size
        BY <1>2, <1>4, <3>2
      <4>2. CASE i <= u
        <5>1. t[i] = w.rb.buf[Slot(r, i)] /\ s[i] = m.rb.buf[Slot(r, i)]
          BY <1>2, <2>3, <3>1, <3>2, <4>1, <4>2
        <5>2. CASE i \in k + 1 .. u
          <6>1. i - k \in 1 .. m1 /\ i - k \in 1 .. len /\ i \in k + 1 .. k + m1 /\ i \in k + 1 .. k + len
            <7>1. i \in Int /\ k + 1 <= i /\ i <= u
              BY <2>sums, <5>2
            <7> QED BY <2>sums, <7>1
          <6>2. d1[i - k] = d[i - k]
            BY <1>6, <3>3, <6>1
          <6> QED BY <1>7, <3>1, <3>3, <4>1, <4>2, <5>1, <6>1, <6>2
        <5>3. CASE i \notin k + 1 .. u
          <6>1. i \notin k + 1 .. k + m1 /\ i \notin k + 1 .. k + len
            BY <2>sums, <4>1, <4>2, <5>3
          <6> QED BY <1>7, <3>1, <3>3, <4>1, <4>2, <5>1, <6>1
        <5> QED BY <5>2, <5>3
      <4>3. CASE i > u
        <5>1. i \in u + 1 .. k + len /\ i - u \in 1 .. len - mix /\ mix + (i - u) = i - k /\ i - k \in 1 .. len
              /\ ~(i <= u)
          <6> DEFINE rest == len - mix
          <6>1. /\ rest \in Nat /\ mix \in Nat /\ len = mix + rest /\ u = k + mix /\ k \in Nat
                /\ i \in Int /\ i > u /\ i <= k + len
            BY <1>2, <1>4, <2>1, <4>1, <4>3, SMTT(30)
          <6> HIDE DEF rest
          <6>2. i \in u + 1 .. k + len /\ i - u \in 1 .. rest /\ mix + (i - u) = i - k /\ i - k \in 1 .. len
                /\ ~(i <= u)
            BY <6>1
          <6> QED BY <6>2 DEF rest
        <5>2. t[i] = d2[i - u]
          BY <2>3, <3>2, <4>1, <5>1
        <5>3. d2[i - u] = data[i - k] /\ d[i - k] = data[i - k]
          BY <2>2, <3>3, <5>1
        <5> QED BY <3>1, <5>1, <5>2, <5>3
      <4> QED BY <1>2, <4>1, <4>2, <4>3
    <3> QED BY <3>1, <3>2, <3>3, <3>4, <3>5, AddedOneByOne DEF s, t, d
  <2> QED BY <2>3, <2>4, <2>5, <2>6
<1> QED BY <1>4, <1>8, <1>9

(* What is behind the first samples of a sequence. *)
LEMMA BehindProperties ==
  ASSUME NEW s \in Seq(Sample), NEW n \in Nat
  PROVE  LET b == Mix!Behind(s, n)
         IN  /\ b \in Seq(Sample) /\ Len(b) = (IF n <= Len(s) THEN Len(s) - n ELSE 0)
             /\ \A i \in 1 .. Len(b) : b[i] = s[n + i]
<1> DEFINE b == Mix!Behind(s, n)
<1>1. Len(s) \in Nat /\ \A i \in n + 1 .. Len(s) : s[i] \in Sample
  BY LenProperties, ElementOfSeq
<1>2. /\ b \in Seq(Sample) /\ Len(b) = (IF n + 1 <= Len(s) THEN Len(s) - (n + 1) + 1 ELSE 0)
      /\ \A i \in 1 .. Len(s) - (n + 1) + 1 : b[i] = s[n + 1 + i - 1]
  BY <1>1, SubSeqProperties DEF Mix!Behind
<1> HIDE DEF b
<1>3. Len(b) = (IF n <= Len(s) THEN Len(s) - n ELSE 0)
  BY <1>1, <1>2
<1>4. ASSUME NEW i \in 1 .. Len(b) PROVE b[i] = s[n + i]
  <2>1. i \in 1 .. Len(s) - (n + 1) + 1 /\ n + 1 + i - 1 = n + i
    BY <1>1, <1>3
  <2> QED BY <1>2, <2>1
<1> QED BY <1>2, <1>3, <1>4 DEF b

(* mixb_read_upd: the oldest samples go, and everybody is that much closer.  *)
LEMMA ReadOn ==
  ASSUME NEW m, NEW S, Streams(m, S), Tracked(m), NEW n \in Nat
  PROVE  LET q == MB!mixb_read_upd(m, n)
         IN  /\ Tracked(q)
             /\ \A c \in S : q.pos[c].used = IF m.pos[c].used > n THEN m.pos[c].used - n ELSE 0
             /\ q.rb.used = (IF n <= m.rb.used THEN m.rb.used - n ELSE 0)
             /\ MB!Content(q.rb) = Mix!Behind(MB!Content(m.rb), n)
<1> DEFINE q == MB!mixb_read_upd(m, n)
           rb == MB!rb_read_upd(m.rb, n)
           u == m.rb.used  r == m.rb.read
           at(c) == IF m.pos[c].used > n THEN m.pos[c].used - n ELSE 0
<1>1. /\ DOMAIN m = {"rb", "streams", "pos", "attached"} /\ DOMAIN m.pos = Cpvt
      /\ m.streams \in Seq(Cpvt) /\ Range(m.streams) = S /\ S \subseteq Cpvt
      /\ DOMAIN m.rb = {"buf", "used", "read", "write"}
      /\ u \in 0 .. Size /\ r \in 0 .. Size - 1 /\ Size \in Nat \ {0} /\ Ring(m.rb)
  <2>1. m.streams \in Seq(Cpvt) /\ Range(m.streams) = S
    BY DEF Streams
  <2>2. S \subseteq Cpvt
    BY <2>1 DEF Range
  <2> QED BY <2>1, <2>2, AudioAssumption DEF Streams, Tracked, Ring
<1>2. \A c : MB!Contains(m.streams, c) <=> c \in S
  BY <1>1 DEF MB!Contains, Range
<1>3. /\ q.rb = rb /\ q.streams = m.streams /\ DOMAIN q.pos = Cpvt
      /\ \A c \in Cpvt : q.pos[c] = IF c \in S THEN [used |-> at(c), write |-> MB!Pos(rb.read + at(c))]
                                    ELSE m.pos[c]
  <2>1. q = [m EXCEPT !.rb = rb,
               !.pos = [c \in DOMAIN m.pos |->
                         IF MB!Contains(m.streams, c)
                         THEN [used |-> at(c), write |-> MB!Pos(rb.read + at(c))] ELSE m.pos[c]]]
    BY <1>1 DEF MB!mixb_read_upd
  <2> HIDE DEF q, rb, at
  <2> QED BY <1>1, <1>2, <2>1
<1>4. /\ DOMAIN rb = {"buf", "used", "read", "write"} /\ rb.buf = m.rb.buf
      /\ rb.used = (IF n <= u THEN u - n ELSE 0)
      /\ n < u => rb.read = MB!Pos(r + n) /\ rb.write = m.rb.write
      /\ n >= u => rb.read = 0 /\ rb.write = 0
  BY <1>1 DEF MB!rb_read_upd
<1> HIDE DEF q, rb
<1>5. Ring(rb)
  <2>1. rb.used \in 0 .. Size /\ rb.buf \in [0 .. Size - 1 -> Sample]
    BY <1>1, <1>4 DEF Ring
  <2>2. CASE n < u
    <3>1. rb.read \in 0 .. Size - 1 /\ m.rb.write = MB!Pos(r + u) /\ m.rb.write \in 0 .. Size - 1
      BY <1>1, <1>4, <2>2 DEF Ring, MB!Pos
    <3>2. rb.used = u - n /\ rb.read = MB!Pos(r + n) /\ rb.write = MB!Pos(r + u)
      <4> HIDE DEF r, u
      <4>1. n <= u
        BY <1>1, <2>2
      <4> QED BY <1>4, <2>2, <3>1, <4>1
    <3>3. MB!Pos(MB!Pos(r + n) + (u - n)) = MB!Pos(r + u)
      <4> HIDE DEF r, u
      <4> QED BY <1>1, <2>2 DEF MB!Pos
    <3> QED BY <1>4, <2>1, <2>2, <3>1, <3>2, <3>3 DEF Ring
  <2>3. CASE ~(n < u)
    <3>1. rb.read = 0 /\ rb.write = 0 /\ rb.used = 0 /\ MB!Pos(0 + 0) = 0 /\ 0 \in 0 .. Size - 1
      BY <1>1, <1>4, <2>3 DEF MB!Pos
    <3> QED BY <1>4, <2>1, <3>1 DEF Ring
  <2> QED BY <2>2, <2>3
<1>6. \A c \in S : at(c) \in 0 .. rb.used
  <2> TAKE c \in S
  <2>1. m.pos[c].used \in 0 .. u
    BY <1>1 DEF Tracked
  <2> QED BY <1>1, <1>4, <2>1
<1>7. Tracked(q)
  <2>1. \A c \in Cpvt : DOMAIN q.pos[c] = {"used", "write"}
    BY <1>3 DEF Tracked
  <2>2. \A c \in Range(q.streams) : /\ q.pos[c].used \in 0 .. q.rb.used
                                    /\ q.pos[c].write = MB!Pos(q.rb.read + q.pos[c].used)
    <3> TAKE c \in Range(q.streams)
    <3>1. c \in S /\ c \in Cpvt /\ q.pos[c] = [used |-> at(c), write |-> MB!Pos(rb.read + at(c))]
      BY <1>1, <1>3
    <3> HIDE DEF at
    <3> QED BY <1>3, <1>6, <3>1
  <2> QED BY <1>3, <1>5, <2>1, <2>2 DEF Tracked
<1>8. MB!Content(rb) = Mix!Behind(MB!Content(m.rb), n)
  <2> DEFINE s == MB!Content(m.rb)  t == MB!Content(rb)  b == Mix!Behind(s, n)
  <2>1. s \in Seq(Sample) /\ Len(s) = u /\ \A i \in 1 .. u : s[i] = m.rb.buf[Slot(r, i)]
    BY <1>1, ContentType
  <2>2. t \in Seq(Sample) /\ Len(t) = rb.used /\ \A i \in 1 .. rb.used : t[i] = rb.buf[Slot(rb.read, i)]
    BY <1>5, ContentType
  <2> HIDE DEF s, t
  <2>3. b \in Seq(Sample) /\ Len(b) = (IF n <= Len(s) THEN Len(s) - n ELSE 0)
        /\ \A i \in 1 .. Len(b) : b[i] = s[n + i]
    BY <2>1, BehindProperties
  <2> HIDE DEF b
  <2>4. Len(t) = Len(b) /\ Len(t) \in Nat
    BY <1>1, <1>4, <2>1, <2>2, <2>3
  <2>5. ASSUME NEW i \in 1 .. Len(t) PROVE t[i] = b[i]
    <3>1. n < u /\ n + i \in 1 .. u /\ i \in 1 .. Len(b) /\ i \in 1 .. rb.used
      BY <1>1, <1>4, <2>1, <2>2, <2>3, <2>4
    <3>2. Slot(MB!Pos(r + n), i) = Slot(r, n + i)
      <4> HIDE DEF r, u
      <4> QED BY <1>1, <3>1 DEF Slot, MB!Pos
    <3>3. rb.buf = m.rb.buf /\ rb.read = MB!Pos(r + n)
      BY <1>4, <3>1
    <3>4. t[i] = rb.buf[Slot(rb.read, i)]
      BY <2>2, <3>1
    <3>5. b[i] = s[n + i]
      BY <2>3, <3>1
    <3>6. s[n + i] = m.rb.buf[Slot(r, n + i)]
      <4> HIDE DEF r, u
      <4> QED BY <2>1, <3>1
    <3> QED BY <3>2, <3>3, <3>4, <3>5, <3>6
  <2>6. t = b
    BY <2>2, <2>3, <2>4, <2>5, SeqEqual
  <2> QED BY <2>6 DEF s, t, b
<1>9. \A c \in S : q.pos[c].used = at(c)
  <2> TAKE c \in S
  <2>1. q.pos[c] = [used |-> at(c), write |-> MB!Pos(rb.read + at(c))]
    BY <1>1, <1>3
  <2> HIDE DEF at
  <2> QED BY <2>1
<1> QED BY <1>1, <1>3, <1>4, <1>7, <1>8, <1>9 DEF q

-----------------------------------------------------------------------------
(* What a call hands in *)

(* Dividing brings a number closer to zero. *)
LEMMA Division ==
  ASSUME NEW x \in Nat, NEW k \in Nat \ {0}
  PROVE  x \div k \in 0 .. x
<1> DEFINE y == x \div k
<1>1. y \in Int /\ k * y <= x /\ x < k * (y + 1)
  OBVIOUS
<1> HIDE DEF y
<1>2. y >= 0
  <2> SUFFICES ASSUME y <= -1 PROVE FALSE
    BY <1>1
  <2>1. k * (y + 1) <= 0
    BY <1>1
  <2> QED BY <1>1, <2>1
<1>3. y <= x
  <2>1. (k - 1) * y >= 0
    BY <1>1, <1>2
  <2>2. k * y = (k - 1) * y + y
    BY <1>1
  <2> QED BY <1>1, <2>1, <2>2
<1> QED BY <1>1, <1>2, <1>3 DEF y

(* ast_frame_adjust_volume: as many samples, none of them out of range. *)
LEMMA AdjustedType ==
  ASSUME NEW data \in Seq(Sample), NEW gain \in Int
  PROVE  Adjusted(data, gain) \in Seq(Sample) /\ Len(Adjusted(data, gain)) = Len(data)
<1>1. /\ DOMAIN data = 1 .. Len(data) /\ Len(data) \in Nat
      /\ \A i \in 1 .. Len(data) : data[i] \in Sample /\ data[i] \in Int
  <2>1. \A i \in 1 .. Len(data) : data[i] \in Sample
    BY ElementOfSeq
  <2> QED BY <2>1, LenProperties, SampleType
<1>3. CASE gain > 1
  <2> DEFINE f(i) == MB!Saturated(data[i] * gain)
  <2>1. \A i \in 1 .. Len(data) : f(i) \in Sample
    <3> TAKE i \in 1 .. Len(data)
    <3>1. data[i] * gain \in Int
      BY <1>1
    <3> QED BY <3>1, SampleType
  <2>2. Adjusted(data, gain) = [i \in 1 .. Len(data) |-> f(i)]
    BY <1>1, <1>3 DEF Adjusted
  <2> HIDE DEF f
  <2> QED BY <1>1, <2>1, <2>2
<1>4. CASE gain < -1
  <2> DEFINE f(i) == IF data[i] >= 0 THEN data[i] \div (-gain) ELSE -((-data[i]) \div (-gain))
  <2>1. \A i \in 1 .. Len(data) : f(i) \in Sample
    <3> TAKE i \in 1 .. Len(data)
    <3> DEFINE x == data[i]  k == -gain
    <3>1. x \in Int /\ x \in Sample /\ k \in Nat \ {0}
      BY <1>1, <1>4
    <3>2. Min(Sample) \in Int /\ Max(Sample) \in Int /\ Sample = Min(Sample) .. Max(Sample) /\ 0 \in Sample
      BY AudioAssumption
    <3> HIDE DEF x, k
    <3>3. CASE x >= 0
      <4>1. x \div k \in 0 .. x
        BY <3>1, <3>3, Division
      <4>2. x \div k \in Sample
        BY <3>1, <3>2, <4>1
      <4> QED BY <3>3, <4>2 DEF x, k
    <3>4. CASE x < 0
      <4> DEFINE y == (-x) \div k
      <4>1. y \in 0 .. -x
        <5>1. -x \in Nat
          BY <3>1, <3>4
        <5> QED BY <3>1, <5>1, Division
      <4>2. f(i) = -y
        BY <3>1, <3>4 DEF x, k
      <4> HIDE DEF y, f
      <4>3. -y \in Sample
        BY <3>1, <3>2, <3>4, <4>1
      <4> QED BY <4>2, <4>3
    <3> QED BY <3>1, <3>3, <3>4
  <2>2. Adjusted(data, gain) = [i \in 1 .. Len(data) |-> f(i)]
    BY <1>1, <1>4 DEF Adjusted
  <2> HIDE DEF f
  <2> QED BY <1>1, <2>1, <2>2
<1>2. CASE ~(gain > 1) /\ ~(gain < -1)
  BY <1>2 DEF Adjusted
<1> QED BY <1>2, <1>3, <1>4

(* channel_write turns the volume without changing how much there is. *)
LEMMA GainedType ==
  ASSUME NEW c \in Cpvt, NEW data \in Voice(c),
         mb.attached \in 1 .. MaxCalls, pvt.count["active"] \in 1 .. MaxCalls
  PROVE  Gained(data) \in Inputs /\ Gained(data) \in Seq(Sample) /\ Len(Gained(data)) = Len(data)
<1>1. data \in Seq(Sample) /\ txgain \in Int
  BY AudioAssumption
<1>2. PICK g \in {1, txgain}, n \in 1 .. MaxCalls : Gained(data) = Adjusted(Adjusted(data, g), -n)
  <2>1. CASE txgain <= 1
    <3>1. Adjusted(data, 1) = data
      BY DEF Adjusted
    <3>2. Gained(data) = Adjusted(Adjusted(data, 1), -mb.attached)
      BY <2>1, <3>1 DEF Gained
    <3> QED BY <3>2
  <2>2. CASE ~(txgain <= 1)
    BY <2>2 DEF Gained
  <2> QED BY <2>1, <2>2
<1>3. Gained(data) \in Inputs
  <2> DEFINE e(x, p) == {Adjusted(Adjusted(d, p[1]), -p[2]) : d \in Voice(x)}
             all(x) == {e(x, p) : p \in {1, txgain} \X (1 .. MaxCalls)}
  <2>1. Gained(data) \in e(c, <<g, n>>)
    BY <1>2
  <2>2. Inputs = UNION {UNION all(x) : x \in Cpvt}
    BY DEF Inputs
  <2> HIDE DEF e
  <2>3. e(c, <<g, n>>) \in all(c)
    OBVIOUS
  <2> HIDE DEF all
  <2>4. Gained(data) \in UNION all(c)
    BY <2>1, <2>3
  <2> QED BY <2>2, <2>4
<1>4. n \in Int /\ -n \in Int /\ g \in Int
  BY <1>1, CallOpsAssumption
<1>5. Adjusted(data, g) \in Seq(Sample) /\ Len(Adjusted(data, g)) = Len(data)
  BY <1>1, <1>4, AdjustedType
<1>6. Gained(data) \in Seq(Sample) /\ Len(Gained(data)) = Len(data)
  BY <1>2, <1>4, <1>5, AdjustedType
<1> QED BY <1>3, <1>6

(* The mixer is reset, and streams come and go, without anybody losing his   *)
(* place.                                                                    *)
LEMMA TrackedStreams ==
  ASSUME NEW m, NEW S, Streams(m, S), Tracked(m)
  PROVE  /\ S = {} => Tracked(MB!mixb_init(m)) /\ MB!Content(MB!mixb_init(m).rb) = << >>
         /\ \A c \in Cpvt \ S :
              LET q == MB!mixb_attach(m, c)
              IN  /\ Tracked(q) /\ q.pos[c].used = 0 /\ q.rb = m.rb
                  /\ \A e \in Cpvt : e # c => q.pos[e] = m.pos[e]
         /\ \A c \in S : LET q == MB!mixb_detach(m, c)
                         IN  Tracked(q) /\ q.rb = m.rb /\ q.pos = m.pos
<1>1. /\ DOMAIN m = {"rb", "streams", "pos", "attached"} /\ DOMAIN m.pos = Cpvt
      /\ m.streams \in Seq(Cpvt) /\ Range(m.streams) = S /\ S \subseteq Cpvt
      /\ DOMAIN m.rb = {"buf", "used", "read", "write"} /\ m.rb.buf \in [0 .. Size - 1 -> Sample]
      /\ Size \in Nat \ {0} /\ Ring(m.rb) /\ m.rb.used \in 0 .. Size /\ m.rb.read \in 0 .. Size - 1
  <2>1. m.streams \in Seq(Cpvt) /\ Range(m.streams) = S
    BY DEF Streams
  <2>2. S \subseteq Cpvt
    BY <2>1 DEF Range
  <2> QED BY <2>1, <2>2, AudioAssumption DEF Streams, Tracked, Ring
<1>2. ASSUME S = {}
      PROVE  Tracked(MB!mixb_init(m)) /\ MB!Content(MB!mixb_init(m).rb) = << >>
  <2> DEFINE q == MB!mixb_init(m)
  <2>1. /\ q.pos = m.pos /\ q.streams = << >> /\ DOMAIN q.rb = DOMAIN m.rb /\ q.rb.buf = m.rb.buf
        /\ q.rb.used = 0 /\ q.rb.read = 0 /\ q.rb.write = 0
    BY <1>1 DEF MB!mixb_init
  <2> HIDE DEF q
  <2>2. MB!Pos(0 + 0) = 0
    BY <1>1 DEF MB!Pos
  <2>3. Ring(q.rb)
    BY <1>1, <2>1, <2>2 DEF Ring
  <2>4. Range(q.streams) = {}
    BY <2>1 DEF Range
  <2>5. Tracked(q)
    BY <2>1, <2>3, <2>4 DEF Tracked
  <2>6. MB!Content(q.rb) = << >>
    BY <2>1 DEF MB!Content
  <2> QED BY <2>5, <2>6 DEF q
<1>3. ASSUME NEW c \in Cpvt \ S
      PROVE  LET q == MB!mixb_attach(m, c)
             IN  /\ Tracked(q) /\ q.pos[c].used = 0 /\ q.rb = m.rb
                 /\ \A e \in Cpvt : e # c => q.pos[e] = m.pos[e]
  <2> DEFINE q == MB!mixb_attach(m, c)
  <2>1. /\ q.rb = m.rb /\ q.streams = Append(m.streams, c) /\ DOMAIN q.pos = Cpvt
        /\ q.pos[c] = [used |-> 0, write |-> m.rb.read]
        /\ \A e \in Cpvt : e # c => q.pos[e] = m.pos[e]
    BY <1>1 DEF MB!mixb_attach
  <2> HIDE DEF q
  <2>2. Range(q.streams) = S \cup {c}
    BY <1>1, <2>1, RangeOfAppend DEF Streams
  <2>3. MB!Pos(m.rb.read + 0) = m.rb.read /\ 0 \in 0 .. m.rb.used
    BY <1>1 DEF MB!Pos
  <2>4. \A e \in Cpvt : DOMAIN q.pos[e] = {"used", "write"}
    BY <2>1 DEF Tracked
  <2>5. \A e \in Range(q.streams) : /\ q.pos[e].used \in 0 .. q.rb.used
                                    /\ q.pos[e].write = MB!Pos(q.rb.read + q.pos[e].used)
    <3> TAKE e \in Range(q.streams)
    <3>1. CASE e = c
      BY <2>1, <2>3, <3>1
    <3>2. CASE e # c
      BY <1>1, <2>1, <2>2, <3>2 DEF Tracked
    <3> QED BY <3>1, <3>2
  <2>6. Tracked(q)
    BY <1>1, <2>1, <2>4, <2>5 DEF Tracked
  <2> QED BY <2>1, <2>6 DEF q
<1>4. ASSUME NEW c \in S
      PROVE  LET q == MB!mixb_detach(m, c) IN Tracked(q) /\ q.rb = m.rb /\ q.pos = m.pos
  <2> DEFINE q == MB!mixb_detach(m, c)
  <2>1. q.rb = m.rb /\ q.pos = m.pos
    BY <1>1 DEF MB!mixb_detach
  <2>2. Range(q.streams) = S \ {c}
    <3>1. Streams(q, S \ {c})
      BY DetachStream
    <3> HIDE DEF q
    <3> QED BY <3>1 DEF Streams
  <2> HIDE DEF q
  <2>3. Tracked(q)
    BY <1>1, <2>1, <2>2 DEF Tracked
  <2> QED BY <2>1, <2>3 DEF q
<1> QED BY <1>2, <1>3, <1>4

(* The numbers of a frame of n samples handed in by a stream that has filled *)
(* k of Z: what overflows goes first, and then it fits.                      *)
LEMMA Overflowing ==
  ASSUME NEW Z \in Nat \ {0}, NEW k \in 0 .. Z, NEW n \in Nat,
         NEW over \in Int, over = (IF 0 <= k + n - Z THEN k + n - Z ELSE 0),
         NEW a \in Int, a = (IF k > over THEN k - over ELSE 0)
  PROVE  /\ over \in Nat /\ (Z - k < n => over = n - (Z - k)) /\ (~(Z - k < n) => over = 0)
         /\ (IF Z - a <= n THEN Z - a ELSE n) = (IF Z < n THEN Z ELSE n)
<1>1. CASE Z - k < n
  <2>1. over = n - (Z - k) /\ over \in Nat
    BY <1>1
  <2>2. CASE k > over
    <3>1. a = Z - n /\ ~(Z < n)
      BY <2>1, <2>2
    <3> QED BY <1>1, <2>1, <3>1
  <2>3. CASE ~(k > over)
    <3>1. a = 0 /\ Z <= n
      BY <2>1, <2>3
    <3> QED BY <1>1, <2>1, <3>1
  <2> QED BY <2>2, <2>3
<1>2. CASE ~(Z - k < n)
  <2>1. over = 0 /\ a = k
    BY <1>2
  <2> QED BY <1>2, <2>1
<1> QED BY <1>1, <1>2

(* The first samples of a sequence. *)
LEMMA FrontProperties ==
  ASSUME NEW s \in Seq(Sample), NEW n \in Nat
  PROVE  LET b == Mix!Front(s, n)
         IN  /\ b \in Seq(Sample) /\ Len(b) = (IF n < Len(s) THEN n ELSE Len(s))
             /\ \A i \in 1 .. Len(b) : b[i] = s[i]
<1> DEFINE l == IF n < Len(s) THEN n ELSE Len(s)  b == Mix!Front(s, n)
<1>1. Len(s) \in Nat /\ l \in 0 .. Len(s)
  BY LenProperties
<1>2. b = SubSeq(s, 1, l)
  BY DEF Mix!Front
<1> HIDE DEF b, l
<1>3. \A i \in 1 .. l : s[i] \in Sample
  BY <1>1, ElementOfSeq
<1>4. b \in Seq(Sample) /\ Len(b) = l /\ \A i \in 1 .. l : b[i] = s[i]
  BY <1>1, <1>2, <1>3, SubSeqProperties
<1> QED BY <1>4 DEF b, l

(* What becomes of the mixer when a stream hands samples in *)
Handed(m, c, data) ==
  LET room == MB!mixb_free(m, c)
  IN  MB!mixb_write(IF room < Len(data) THEN MB!mixb_read_upd(m, Len(data) - room) ELSE m, c, data)

(* The samples that have to go, and where streams are when they have gone *)
Over(m, c, data) == Mix!Max({0, m.pos[c].used + Len(data) - Size})
Ahead(m, e, n) == IF m.pos[e].used > n THEN m.pos[e].used - n ELSE 0

(* channel_write with a timer: what does not fit pushes out the oldest       *)
(* samples, the rest is mixed in.                                            *)
LEMMA HandedIn ==
  ASSUME NEW m, NEW S, Streams(m, S), Tracked(m), NEW c \in S, NEW data \in Seq(Sample)
  PROVE  LET q    == Handed(m, c, data)
             over == Over(m, c, data)
             fits == Mix!Front(data, Size)
         IN  /\ Tracked(q)
             /\ \A e \in S : q.pos[e].used = IF e = c THEN Ahead(m, c, over) + Len(fits)
                                            ELSE Ahead(m, e, over)
             /\ MB!Content(q.rb) =
                  Mix!Added(Mix!Behind(MB!Content(m.rb), over), Ahead(m, c, over), fits)
<1> DEFINE n    == Len(data)
           k    == m.pos[c].used
           room == MB!mixb_free(m, c)
           o    == IF room < n THEN MB!mixb_read_upd(m, n - room) ELSE m
           q    == MB!mixb_write(o, c, data)
           over == Mix!Max({0, k + n - Size})
           at(e) == IF m.pos[e].used > over THEN m.pos[e].used - over ELSE 0
           fits == Mix!Front(data, Size)
           s    == MB!Content(m.rb)
           a    == at(c)
           len  == IF Size - a <= n THEN Size - a ELSE n
<1>1. S \subseteq Cpvt /\ S = Range(m.streams)
  <2>1. m.streams \in Seq(Cpvt) /\ Range(m.streams) = S
    BY DEF Streams
  <2> QED BY <2>1 DEF Range
<1>2. /\ Size \in Nat \ {0} /\ m.rb.used \in 0 .. Size
      /\ \A e \in S : m.pos[e].used \in 0 .. m.rb.used /\ m.pos[e].used \in 0 .. Size
  BY <1>1, AudioAssumption DEF Tracked, Ring
<1>3. n \in Nat /\ k \in 0 .. Size
  BY <1>2, LenProperties
<1>4. room = Size - k
  BY DEF MB!mixb_free
<1>5. over = (IF 0 <= k + n - Size THEN k + n - Size ELSE 0) /\ over \in Int
  <2>1. k + n - Size \in Int /\ 0 \in Int
    BY <1>2, <1>3
  <2> HIDE DEF k, n
  <2>2. over = (IF 0 <= k + n - Size THEN k + n - Size ELSE 0)
    BY <2>1, TwoNumbers
  <2> QED BY <2>1, <2>2
<1> HIDE DEF n, over, room
<1>6. a \in Int /\ a = (IF k > over THEN k - over ELSE 0)
  BY <1>2, <1>3, <1>5
<1>7. /\ over \in Nat /\ (Size - k < n => over = n - (Size - k)) /\ (~(Size - k < n) => over = 0)
      /\ len = (IF Size < n THEN Size ELSE n)
  <2> HIDE DEF k, a
  <2> QED BY <1>2, <1>3, <1>5, <1>6, Overflowing
<1>8. /\ Streams(o, S) /\ Tracked(o)
      /\ \A e \in S : o.pos[e].used = at(e)
      /\ MB!Content(o.rb) = Mix!Behind(s, over)
  <2>1. CASE room < n
    <3>1. o = MB!mixb_read_upd(m, over)
      BY <1>4, <1>7, <2>1
    <3>2. Streams(o, S)
      BY <3>1, ReadStreams
    <3>3. /\ Tracked(o) /\ MB!Content(o.rb) = Mix!Behind(s, over)
          /\ \A e \in S : o.pos[e].used = IF m.pos[e].used > over THEN m.pos[e].used - over ELSE 0
      <4> HIDE DEF o
      <4> QED BY <1>7, <3>1, ReadOn
    <3> HIDE DEF o
    <3> QED BY <3>2, <3>3
  <2>2. CASE ~(room < n)
    <3>1. o = m /\ over = 0
      BY <1>4, <1>7, <2>2
    <3>2. \A e \in S : m.pos[e].used = at(e)
      BY <1>2, <3>1
    <3>3. s = Mix!Behind(s, over)
      <4>1. s \in Seq(Sample)
        BY ContentType DEF Tracked
      <4> DEFINE b == Mix!Behind(s, 0)
      <4> HIDE DEF s
      <4>2. Len(s) \in Nat
        BY <4>1
      <4>3. /\ b \in Seq(Sample) /\ Len(b) = (IF 0 <= Len(s) THEN Len(s) - 0 ELSE 0)
            /\ \A i \in 1 .. Len(b) : b[i] = s[0 + i]
        BY <4>1, BehindProperties
      <4> HIDE DEF b
      <4>4. Len(s) = Len(b) /\ \A i \in 1 .. Len(s) : s[i] = b[i]
        BY <4>2, <4>3
      <4>5. s = b
        BY <4>1, <4>3, <4>4, SeqEqual
      <4> QED BY <3>1, <4>5 DEF b
    <3> HIDE DEF o, at
    <3> QED BY <3>1, <3>2, <3>3
  <2> QED BY <2>1, <2>2
<1>9. Len(fits) = len /\ fits = SubSeq(data, 1, len)
  <2>1. fits = SubSeq(data, 1, len)
    BY <1>7 DEF Mix!Front, n
  <2>2. Len(fits) = (IF Size < n THEN Size ELSE n)
    BY <1>2, FrontProperties DEF n
  <2> QED BY <1>7, <2>1, <2>2
<1>10. /\ Tracked(q) /\ q.pos[c].used = a + len
       /\ \A e \in Cpvt : e # c => q.pos[e] = o.pos[e]
       /\ MB!Content(q.rb) = Mix!Added(Mix!Behind(s, over), a, SubSeq(data, 1, len))
  <2>1. o.pos[c].used = a
    BY <1>8
  <2> HIDE DEF a, o, q
  <2> DEFINE oa == o.pos[c].used
             l  == IF Size - oa <= Len(data) THEN Size - oa ELSE Len(data)
  <2>2. /\ Tracked(q) /\ q.pos[c].used = oa + l
        /\ \A e \in Cpvt : e # c => q.pos[e] = o.pos[e]
        /\ MB!Content(q.rb) = Mix!Added(MB!Content(o.rb), oa, SubSeq(data, 1, l))
    BY <1>8, Written DEF q
  <2>3. oa = a /\ l = len
    BY <2>1 DEF n
  <2> HIDE DEF oa, l, len
  <2> QED BY <1>8, <2>2, <2>3
<1> HIDE DEF q, o, at, fits, len, s
<1>11. ASSUME NEW e \in S PROVE q.pos[e].used = IF e = c THEN at(c) + Len(fits) ELSE at(e)
  BY <1>1, <1>8, <1>9, <1>10
<1> QED BY <1>9, <1>10, <1>11 DEF Handed, Over, Ahead, q, o, at, fits, s, n, over, room

-----------------------------------------------------------------------------
(* What the device gets *)

(* A sequence of up to three pieces, put together. *)
LEMMA FlattenUp ==
  ASSUME NEW s, Len(s) \in 1 .. 3
  PROVE  FlattenSeq(s) = IF Len(s) = 1 THEN s[1] ELSE IF Len(s) = 2 THEN s[1] \o s[2]
                         ELSE (s[1] \o s[2]) \o s[3]
<1> DEFINE n == Len(s)  a == s[1]  b == s[2]  c == s[3]
<1>0. n \in 1 .. 3 /\ Len(s) = n /\ s[1] = a /\ s[2] = b /\ s[3] = c
  OBVIOUS
<1> HIDE DEF n, a, b, c
<1> USE <1>0
<1> DEFINE e(f, i) == IF i = 1 THEN s[i] ELSE f[i - 1] \o s[i]
           F(f) == f = [i \in 1 .. n |-> e(f, i)]
           g == CHOOSE f : F(f)
           two == a \o b
           three == two \o c
           w == [i \in 1 .. n |-> IF i = 1 THEN a ELSE IF i = 2 THEN two ELSE three]
<1>1. FlattenSeq(s) = g[n]
  BY DEF FlattenSeq, n
<1>2. F(w)
  <2>1. ASSUME NEW i \in 1 .. n PROVE w[i] = e(w, i)
    <3>1. CASE i = 1
      BY <3>1
    <3>2. CASE i = 2
      <4>1. 1 \in 1 .. n /\ 2 \in 1 .. n /\ s[2] = b
        BY <3>2
      <4>2. w[2] = two /\ w[1] = a
        BY <4>1
      <4> HIDE DEF w
      <4>3. w[i - 1] = a /\ i # 1
        BY <3>2, <4>2
      <4> QED BY <3>2, <4>1, <4>2, <4>3
    <3>3. CASE i = 3
      <4>1. 2 \in 1 .. n /\ 3 \in 1 .. n /\ s[3] = c
        BY <3>3
      <4>2. w[3] = three /\ w[2] = two
        BY <4>1
      <4> HIDE DEF w
      <4>3. w[i - 1] = two /\ i # 1
        <5>1. i - 1 = 2 /\ i # 1
          BY <3>3
        <5> QED BY <4>2, <5>1
      <4> QED BY <3>3, <4>1, <4>2, <4>3
    <3> QED BY <3>1, <3>2, <3>3
  <2>2. w = [i \in 1 .. n |-> w[i]]
    <3> HIDE DEF a, two, three, n
    <3> QED BY Zenon
  <2> HIDE DEF w, e
  <2> QED BY <2>1, <2>2, Zenon
<1>3. F(g)
  BY <1>2, Zenon
<1> HIDE DEF g
<1>4. \A i \in 1 .. n : g[i] = e(g, i)
  BY <1>3
<1> HIDE DEF e
<1>5. e(g, 1) = s[1] /\ e(g, 2) = g[1] \o s[2] /\ e(g, 3) = g[2] \o s[3]
  BY DEF e
<1> HIDE DEF F
<1>6. g[1] = a
  BY <1>4, <1>5
<1>7. n >= 2 => g[2] = two
  BY <1>4, <1>5, <1>6
<1> HIDE DEF two
<1>8. n = 3 => g[3] = three
  <2> SUFFICES ASSUME n = 3 PROVE g[3] = three
    OBVIOUS
  <2>1. g[3] = g[2] \o s[3] /\ g[2] = two /\ s[3] = c
    BY <1>4, <1>5, <1>7
  <2> QED BY <2>1
<1>9. n = 1 \/ n = 2 \/ n = 3
  OBVIOUS
<1>10. CASE n = 1
  BY <1>1, <1>6, <1>10 DEF n, a
<1>11. CASE n = 2
  BY <1>1, <1>7, <1>11 DEF n, a, b, two
<1>12. CASE n = 3
  <2>1. FlattenSeq(s) = three
    BY <1>1, <1>8, <1>12
  <2> QED BY <1>12, <2>1 DEF n, a, b, c, two, three
<1> QED BY <1>9, <1>10, <1>11, <1>12

(* Up to three pieces put together, as a concatenation *)
LEMMA Together ==
  ASSUME NEW s \in Seq(Seq(Sample)), Len(s) \in 1 .. 3
  PROVE  LET n == Len(s)
             w == FlattenSeq(s)
         IN  /\ w = IF n = 1 THEN s[1] ELSE IF n = 2 THEN s[1] \o s[2] ELSE (s[1] \o s[2]) \o s[3]
             /\ w \in Seq(Sample)
             /\ Len(w) = IF n = 1 THEN Len(s[1]) ELSE IF n = 2 THEN Len(s[1]) + Len(s[2])
                         ELSE Len(s[1]) + Len(s[2]) + Len(s[3])
<1> DEFINE n == Len(s)  w == FlattenSeq(s)
           one == s[1]  two == s[1] \o s[2]  three == (s[1] \o s[2]) \o s[3]
<1>1. w = IF n = 1 THEN one ELSE IF n = 2 THEN two ELSE three
  BY FlattenUp
<1> HIDE DEF w
<1>2. \A i \in 1 .. n : s[i] \in Seq(Sample) /\ Len(s[i]) \in Nat
  <2>1. \A i \in 1 .. n : s[i] \in Seq(Sample)
    BY ElementOfSeq
  <2> QED BY <2>1, LenProperties
<1>3. n = 1 \/ n = 2 \/ n = 3
  OBVIOUS
<1> HIDE DEF n
<1>4. n # 1 => two \in Seq(Sample) /\ Len(two) = Len(s[1]) + Len(s[2])
  <2> SUFFICES ASSUME n # 1 PROVE two \in Seq(Sample) /\ Len(two) = Len(s[1]) + Len(s[2])
    OBVIOUS
  <2>1. s[1] \in Seq(Sample) /\ s[2] \in Seq(Sample)
    BY <1>2, <1>3
  <2> QED BY <2>1, ConcatProperties, Zenon
<1> HIDE DEF two
<1>5. n = 3 => three \in Seq(Sample) /\ Len(three) = Len(s[1]) + Len(s[2]) + Len(s[3])
  <2> SUFFICES ASSUME n = 3 PROVE three \in Seq(Sample) /\ Len(three) = Len(s[1]) + Len(s[2]) + Len(s[3])
    OBVIOUS
  <2>1. two \in Seq(Sample) /\ s[3] \in Seq(Sample) /\ three = two \o s[3]
    <3>1. n # 1 /\ 3 \in 1 .. n
      OBVIOUS
    <3>2. two \in Seq(Sample) /\ s[3] \in Seq(Sample)
      BY <1>2, <1>4, <3>1
    <3> QED BY <3>2 DEF two
  <2>2. three \in Seq(Sample) /\ Len(three) = Len(two) + Len(s[3])
    BY <2>1, ConcatProperties, Zenon
  <2>3. Len(two) = Len(s[1]) + Len(s[2])
    <3> HIDE DEF three
    <3>1. n # 1
      OBVIOUS
    <3> QED BY <1>4, <3>1, Zenon
  <2> HIDE DEF three
  <2> QED BY <2>2, <2>3
<1> HIDE DEF three
<1>6. CASE n = 1
  <2>1. w = s[1] /\ s[1] \in Seq(Sample)
    BY <1>1, <1>2, <1>6
  <2> QED BY <1>6, <2>1 DEF w, n
<1>7. CASE n = 2
  <2>1. w = two
    BY <1>1, <1>7
  <2> QED BY <1>4, <1>7, <2>1 DEF w, n, two
<1>8. CASE n = 3
  <2>1. w = three
    BY <1>1, <1>8
  <2> QED BY <1>5, <1>8, <2>1 DEF w, n, three
<1> QED BY <1>3, <1>6, <1>7, <1>8

(* What iov_write still has to write has the length that is missing. *)
LEMMA RestLength ==
  ASSUME NEW s \in Seq(Seq(Sample)), Len(s) \in 1 .. 3, NEW n \in 1 .. Len(FlattenSeq(s)) - 1
  PROVE  LET w == FlattenSeq(Rest(s, n))
         IN  w \in Seq(Sample) /\ Len(w) = Len(FlattenSeq(s)) - n
<1> DEFINE N == Len(s)
           before(i) == Len(FlattenSeq(SubSeq(s, 1, i)))
           open == {i \in DOMAIN s : before(i) > n}
           k == Min(open)
           h == SubSeq(s[k], 1, before(k) - Max({n, before(k - 1)}))
           r == <<h>> \o SubSeq(s, k + 1, N)
           l(i) == Len(s[i])
           sum(i) == IF i = 0 THEN 0 ELSE IF i = 1 THEN l(1) ELSE IF i = 2 THEN l(1) + l(2)
                     ELSE l(1) + l(2) + l(3)
<1>1. /\ N \in 1 .. 3 /\ DOMAIN s = 1 .. N
      /\ \A i \in 1 .. N : s[i] \in Seq(Sample) /\ l(i) \in Nat
  <2>1. \A i \in 1 .. N : s[i] \in Seq(Sample)
    BY ElementOfSeq
  <2> QED BY <2>1, LenProperties
<1> HIDE DEF N
<1>2. before(0) = 0
  <2>1. SubSeq(s, 1, 0) = << >>
    BY SubSeqEmpty
  <2> QED BY <2>1 DEF FlattenSeq
<1>3. ASSUME NEW i \in 1 .. N PROVE before(i) = sum(i)
  <2> DEFINE p == SubSeq(s, 1, i)
  <2>1. \A j \in 1 .. i : s[j] \in Seq(Sample)
    BY <1>1
  <2>2. p \in Seq(Seq(Sample)) /\ Len(p) = i /\ \A j \in 1 .. i : p[j] = s[j]
    BY <1>1, <2>1, SubSeqProperties
  <2> HIDE DEF p
  <2>3. Len(p) \in 1 .. 3 /\ i \in 1 .. 3
    BY <1>1, <2>2
  <2>4. Len(FlattenSeq(p)) = IF i = 1 THEN Len(p[1]) ELSE IF i = 2 THEN Len(p[1]) + Len(p[2])
                             ELSE Len(p[1]) + Len(p[2]) + Len(p[3])
    BY <2>2, <2>3, Together
  <2>5. i = 1 \/ i = 2 \/ i = 3
    BY <2>3
  <2>6. before(i) = Len(FlattenSeq(p))
    BY DEF p
  <2> HIDE DEF before
  <2>7. CASE i = 1
    BY <2>2, <2>4, <2>6, <2>7
  <2>8. CASE i = 2
    <3>1. p[1] = s[1] /\ p[2] = s[2]
      BY <2>2, <2>8
    <3>2. before(i) = Len(p[1]) + Len(p[2])
      BY <2>4, <2>6, <2>8
    <3>3. sum(i) = Len(s[1]) + Len(s[2])
      BY <2>8
    <3> QED BY <3>1, <3>2, <3>3
  <2>9. CASE i = 3
    <3>1. p[1] = s[1] /\ p[2] = s[2] /\ p[3] = s[3]
      BY <2>2, <2>9
    <3>2. before(i) = Len(p[1]) + Len(p[2]) + Len(p[3])
      BY <2>4, <2>6, <2>9
    <3>3. sum(i) = Len(s[1]) + Len(s[2]) + Len(s[3])
      BY <2>9
    <3> QED BY <3>1, <3>2, <3>3
  <2> QED BY <2>5, <2>7, <2>8, <2>9
<1>4. Len(FlattenSeq(s)) = sum(N) /\ n \in Nat /\ 1 <= n /\ n < sum(N) /\ sum(N) \in Nat
  <2>1. FlattenSeq(s) \in Seq(Sample)
    BY <1>1, Together
  <2>2. Len(FlattenSeq(s)) \in Nat
    BY <2>1, LenProperties
  <2>3. Len(FlattenSeq(s)) = IF N = 1 THEN l(1) ELSE IF N = 2 THEN l(1) + l(2) ELSE l(1) + l(2) + l(3)
    BY <1>1, Together DEF N
  <2>4. Len(FlattenSeq(s)) = sum(N)
    <3>1. N \in 1 .. 3
      BY <1>1
    <3> HIDE DEF l
    <3> QED BY <2>3, <3>1
  <2> HIDE DEF sum
  <2> QED BY <2>2, <2>4
<1> HIDE DEF before, sum
<1>5. /\ k \in 1 .. N /\ sum(k) > n /\ (k > 1 => sum(k - 1) <= n)
      /\ \A i \in 1 .. N : sum(i) \in Nat /\ sum(i) = sum(i - 1) + l(i)
      /\ open # {}
  <2>1. \A i \in 1 .. N : sum(i) \in Nat /\ sum(i) = sum(i - 1) + l(i)
    <3> TAKE i \in 1 .. N
    <3>1. i = 1 \/ i = 2 \/ i = 3
      BY <1>1
    <3>2. CASE i = 1
      BY <1>1, <3>2 DEF sum
    <3>3. CASE i = 2
      <4>1. l(1) \in Nat /\ l(2) \in Nat
        BY <1>1, <3>3
      <4> HIDE DEF l
      <4> QED BY <3>3, <4>1 DEF sum
    <3>4. CASE i = 3
      <4>1. l(1) \in Nat /\ l(2) \in Nat /\ l(3) \in Nat
        BY <1>1, <3>4
      <4> HIDE DEF l
      <4> QED BY <3>4, <4>1 DEF sum
    <3> QED BY <3>1, <3>2, <3>3, <3>4
  <2>2. open = {i \in 1 .. N : sum(i) > n}
    BY <1>1, <1>3
  <2>3. N \in open
    BY <1>1, <1>4, <2>2
  <2>4. \E m \in open : \A j \in open : m <= j
    <3>1. CASE 1 \in open
      BY <2>2, <3>1
    <3>2. CASE 1 \notin open /\ 2 \in open
      <4>1. \A j \in open : j \in 1 .. 3
        BY <1>1, <2>2
      <4>2. \A j \in open : 2 <= j
        BY <3>2, <4>1
      <4> QED BY <3>2, <4>2
    <3>3. CASE 1 \notin open /\ 2 \notin open
      <4>1. \A j \in open : j \in 1 .. 3
        BY <1>1, <2>2
      <4>2. \A j \in open : j = 3
        BY <3>3, <4>1
      <4> QED BY <2>3, <4>2
    <3> QED BY <3>1, <3>2, <3>3
  <2>5. k \in open /\ \A j \in open : k <= j
    BY <2>4 DEF Min
  <2> HIDE DEF k, open
  <2>6. k > 1 => sum(k - 1) <= n
    <3> SUFFICES ASSUME k > 1 PROVE sum(k - 1) <= n
      OBVIOUS
    <3>1. k - 1 \in 1 .. N /\ ~(k <= k - 1)
      BY <1>1, <2>2, <2>5
    <3>2. k - 1 \notin open
      BY <2>5, <3>1
    <3> QED BY <2>1, <2>2, <3>1, <3>2
  <2> QED BY <2>1, <2>2, <2>3, <2>5, <2>6
<1>6. Rest(s, n) = r
  BY <1>5 DEF Rest, before, N
<1> HIDE DEF k, open
<1>7. Max({n, before(k - 1)}) = n /\ before(k) = sum(k)
  <2>1. before(k - 1) \in Int /\ before(k - 1) <= n
    <3>1. CASE k = 1
      BY <1>2, <3>1
    <3>2. CASE k > 1
      <4>1. k - 1 \in 1 .. N
        BY <1>1, <1>5, <3>2
      <4> QED BY <1>3, <1>5, <3>2, <4>1
    <3> QED BY <1>1, <1>5, <3>1, <3>2
  <2>2. Max({n, before(k - 1)}) = n
    <3> DEFINE b == before(k - 1)
    <3>1. n \in Int /\ b \in Int /\ b <= n
      BY <1>4, <2>1
    <3> HIDE DEF b
    <3>2. Max({n, b}) = n
      <4>1. Max({n, b}) = IF n <= b THEN b ELSE n
        BY <3>1, TwoNumbers
      <4> QED BY <3>1, <4>1
    <3> QED BY <3>2 DEF b
  <2> QED BY <1>3, <1>5, <2>2
<1>8. h \in Seq(Sample) /\ Len(h) = sum(k) - n
  <2> DEFINE x == sum(k) - n  p == s[k]
  <2>1. h = SubSeq(p, 1, x)
    BY <1>7
  <2>2. x \in 1 .. Len(p)
    <3>1. sum(k - 1) <= n
      <4>1. CASE k = 1
        BY <4>1 DEF sum
      <4>2. CASE k > 1
        BY <1>5, <4>2
      <4> QED BY <1>1, <1>5, <4>1, <4>2
    <3>2. sum(k) \in Nat /\ l(k) \in Nat /\ sum(k) = sum(k - 1) + l(k) /\ sum(k) > n
      BY <1>1, <1>5
    <3>3. sum(k - 1) \in Int
      <4>1. CASE k = 1
        BY <4>1 DEF sum
      <4>2. CASE k > 1
        <5>1. k - 1 \in 1 .. N
          BY <1>1, <1>5, <4>2
        <5> QED BY <1>5, <5>1
      <4> QED BY <1>1, <1>5, <4>1, <4>2
    <3> QED BY <3>1, <3>2, <3>3
  <2>3. p \in Seq(Sample)
    BY <1>1, <1>5
  <2> HIDE DEF x, p, h
  <2>4. \A i \in 1 .. x : p[i] \in Sample
    BY <2>2, <2>3, ElementOfSeq
  <2>5. h \in Seq(Sample) /\ Len(h) = x
    BY <2>1, <2>2, <2>4, SubSeqProperties
  <2> QED BY <2>5 DEF x
<1> HIDE DEF h
<1>9. /\ r \in Seq(Seq(Sample)) /\ Len(r) = 1 + N - k
      /\ r[1] = h /\ \A i \in 2 .. 1 + N - k : r[i] = s[k + i - 1]
  <2> DEFINE t == SubSeq(s, k + 1, N)
  <2>1. \A i \in k + 1 .. N : s[i] \in Seq(Sample)
    BY <1>1, <1>5
  <2>2. /\ t \in Seq(Seq(Sample)) /\ Len(t) = (IF k + 1 <= N THEN N - (k + 1) + 1 ELSE 0)
        /\ \A i \in 1 .. N - (k + 1) + 1 : t[i] = s[k + 1 + i - 1]
    BY <1>1, <1>5, <2>1, SubSeqProperties, SMTT(30)
  <2> HIDE DEF t
  <2>3. Len(t) = N - k
    BY <1>1, <1>5, <2>2
  <2>4. <<h>> \in Seq(Seq(Sample)) /\ Len(<<h>>) = 1 /\ <<h>>[1] = h
    BY <1>8
  <2>5. /\ r \in Seq(Seq(Sample)) /\ Len(r) = Len(<<h>>) + Len(t)
        /\ \A i \in 1 .. Len(<<h>>) + Len(t) : r[i] = IF i <= Len(<<h>>) THEN <<h>>[i] ELSE t[i - Len(<<h>>)]
    BY <2>2, <2>4, ConcatProperties, Zenon DEF t
  <2> HIDE DEF r
  <2>6. Len(r) = 1 + N - k /\ r[1] = h
    <3>1. N \in Int /\ k \in Int /\ k <= N
      BY <1>1, <1>5
    <3>2. Len(<<h>>) + Len(t) = 1 + N - k /\ 1 \in 1 .. Len(<<h>>) + Len(t) /\ 1 <= Len(<<h>>)
      BY <2>3, <2>4, <3>1
    <3> QED BY <2>4, <2>5, <3>2
  <2>7. ASSUME NEW i \in 2 .. 1 + N - k PROVE r[i] = s[k + i - 1]
    <3>1. i \in 1 .. Len(<<h>>) + Len(t) /\ ~(i <= Len(<<h>>)) /\ i - Len(<<h>>) = i - 1
          /\ i - 1 \in 1 .. N - (k + 1) + 1 /\ k + 1 + (i - 1) - 1 = k + i - 1
      BY <1>1, <1>5, <2>3, <2>4
    <3> QED BY <2>2, <2>5, <3>1
  <2> QED BY <2>5, <2>6, <2>7
<1> HIDE DEF r
<1>10. /\ Len(r) \in 1 .. 3 /\ N \in 1 .. 3 /\ k \in 1 .. 3
       /\ Len(r) = 1 => k = N
       /\ Len(r) = 2 => k = N - 1 /\ k + 1 = N
       /\ Len(r) = 3 => k = 1 /\ N = 3
  <2>1. N \in 1 .. 3 /\ k \in 1 .. N
    BY <1>1, <1>5
  <2>2. Len(r) = 1 + N - k
    BY <1>9
  <2> DEFINE x == Len(r)
  <2>3. x = 1 + N - k
    BY <2>2
  <2> HIDE DEF x, l
  <2>4. /\ x \in 1 .. 3 /\ k \in 1 .. 3
        /\ x = 1 => k = N
        /\ x = 2 => k = N - 1 /\ k + 1 = N
        /\ x = 3 => k = 1 /\ N = 3
    BY <2>1, <2>3
  <2> QED BY <2>1, <2>4 DEF x
<1>11. /\ FlattenSeq(r) \in Seq(Sample)
       /\ Len(FlattenSeq(r)) = IF Len(r) = 1 THEN Len(r[1]) ELSE IF Len(r) = 2 THEN Len(r[1]) + Len(r[2])
                               ELSE Len(r[1]) + Len(r[2]) + Len(r[3])
  BY <1>9, <1>10, Together
<1>12. Len(FlattenSeq(r)) = sum(N) - n
  <2>1. CASE Len(r) = 1
    <3>1. k = N
      BY <1>10, <2>1
    <3> QED BY <1>8, <1>9, <1>11, <2>1, <3>1
  <2>2. CASE Len(r) = 2
    <3>1. k = N - 1 /\ k + 1 = N
      BY <1>10, <2>2
    <3>2. r[2] = s[N] /\ l(N) \in Nat /\ sum(N) = sum(k) + l(N) /\ sum(k) \in Nat
      BY <1>1, <1>5, <1>9, <2>2, <3>1
    <3>3. Len(FlattenSeq(r)) = (sum(k) - n) + l(N)
      <4>1. Len(FlattenSeq(r)) = Len(r[1]) + Len(r[2])
        BY <1>11, <2>2
      <4>2. Len(r[1]) = sum(k) - n /\ Len(r[2]) = l(N)
        BY <1>8, <1>9, <3>2
      <4> QED BY <4>1, <4>2
    <3> QED BY <3>2, <3>3
  <2>3. CASE Len(r) = 3
    <3>1. k = 1 /\ N = 3
      BY <1>10, <2>3
    <3>2. r[2] = s[2] /\ r[3] = s[3]
      BY <1>9, <3>1
    <3>3. l(2) \in Nat /\ l(3) \in Nat /\ sum(2) = sum(1) + l(2) /\ sum(3) = sum(2) + l(3) /\ sum(1) \in Nat
      BY <1>1, <1>5, <3>1
    <3>4. Len(FlattenSeq(r)) = (sum(1) - n) + l(2) + l(3)
      <4>1. Len(FlattenSeq(r)) = Len(r[1]) + Len(r[2]) + Len(r[3])
        BY <1>11, <2>3
      <4>2. Len(r[1]) = sum(1) - n /\ Len(r[2]) = l(2) /\ Len(r[3]) = l(3)
        BY <1>8, <1>9, <3>1, <3>2
      <4> QED BY <4>1, <4>2
    <3>5. sum(N) = sum(1) + l(2) + l(3) /\ n \in Nat
      BY <1>4, <3>1, <3>3
    <3> DEFINE x == sum(1)  y == l(2)  z == l(3)
    <3>6. x \in Nat /\ y \in Nat /\ z \in Nat /\ sum(N) = x + y + z
          /\ Len(FlattenSeq(r)) = (x - n) + y + z
      BY <3>3, <3>4, <3>5
    <3> HIDE DEF x, y, z
    <3> QED BY <3>5, <3>6
  <2> QED BY <1>10, <2>1, <2>2, <2>3
<1> QED BY <1>4, <1>6, <1>11, <1>12

(* Silence is a sequence of samples; a frame is filled up with it. *)
LEMMA SilenceType ==
  ASSUME NEW n \in Nat
  PROVE  Silence(n) \in Seq(Sample) /\ Len(Silence(n)) = n /\ Mix!Zeros(n) = Silence(n)
<1>1. 0 \in Sample
  BY SampleType
<1> QED BY <1>1 DEF Silence, Mix!Zeros

(* A frame that is filled up with silence *)
LEMMA PaddedProperties ==
  ASSUME NEW s \in Seq(Sample), Len(s) <= FRAME
  PROVE  /\ Mix!Padded(s) = IF Len(s) = FRAME THEN s ELSE s \o Silence(FRAME - Len(s))
         /\ Mix!Padded(s) \in Seq(Sample) /\ Len(Mix!Padded(s)) = FRAME
<1> DEFINE z == Silence(FRAME - Len(s))
<1>1. Len(s) \in Nat /\ FRAME \in Nat /\ FRAME - Len(s) \in Nat
  BY LenProperties, AudioAssumption
<1>2. z \in Seq(Sample) /\ Len(z) = FRAME - Len(s) /\ Mix!Padded(s) = s \o z
  BY <1>1, SilenceType DEF Mix!Padded
<1> HIDE DEF z
<1>3. s \o z \in Seq(Sample) /\ Len(s \o z) = Len(s) + Len(z)
  BY <1>2, ConcatProperties, Zenon
<1>4. ASSUME Len(s) = FRAME PROVE Mix!Padded(s) = s
  <2>1. z = << >>
    BY <1>1, <1>2, <1>4, EmptySeq
  <2>2. s \o << >> = s
    BY ConcatEmptySeq, Zenon
  <2> QED BY <1>2, <2>1, <2>2
<1>5. Len(Mix!Padded(s)) = FRAME /\ Mix!Padded(s) \in Seq(Sample)
  BY <1>1, <1>2, <1>3
<1> QED BY <1>2, <1>4, <1>5 DEF z

(* The io vectors of the first samples, put together, are these samples.     *)
LEMMA PiecesFront ==
  ASSUME NEW m, Ring(m.rb), NEW n \in 1 .. m.rb.used
  PROVE  LET p == MB!mixb_read_n_iov(m, n)
         IN  /\ p \in Seq(Seq(Sample)) /\ Len(p) \in 1 .. 2
             /\ Mix!Front(MB!Content(m.rb), n) = IF Len(p) = 1 THEN p[1] ELSE p[1] \o p[2]
<1> DEFINE p == MB!mixb_read_n_iov(m, n)
           s == MB!Content(m.rb)
           f == Mix!Front(s, n)
           r == m.rb.read
           u == m.rb.used
           A(k) == [i \in 1 .. k |-> m.rb.buf[r + i - 1]]
           B(k) == [i \in 1 .. k |-> m.rb.buf[i - 1]]
<1>1. /\ Size \in Nat \ {0} /\ u \in 0 .. Size /\ r \in 0 .. Size - 1 /\ n \in Nat \ {0} /\ n <= u
      /\ m.rb.buf \in [0 .. Size - 1 -> Sample]
  <2>1. u \in 0 .. Size /\ r \in 0 .. Size - 1 /\ m.rb.buf \in [0 .. Size - 1 -> Sample]
    BY DEF Ring
  <2>2. Size \in Nat \ {0}
    BY AudioAssumption
  <2> HIDE DEF u, r
  <2> QED BY <2>1, <2>2 DEF u
<1>2. ASSUME NEW k \in Nat, r + k <= Size
      PROVE  A(k) \in Seq(Sample) /\ Len(A(k)) = k
  <2>1. \A i \in 1 .. k : r + i - 1 \in 0 .. Size - 1
    BY <1>1, <1>2
  <2>2. \A i \in 1 .. k : m.rb.buf[r + i - 1] \in Sample
    BY <1>1, <2>1
  <2> QED BY <2>2
<1>3. ASSUME NEW k \in Nat, k <= Size
      PROVE  B(k) \in Seq(Sample) /\ Len(B(k)) = k
  <2>1. \A i \in 1 .. k : i - 1 \in 0 .. Size - 1
    BY <1>1, <1>3
  <2>2. \A i \in 1 .. k : m.rb.buf[i - 1] \in Sample
    BY <1>1, <2>1
  <2> QED BY <2>2
<1>4. s \in Seq(Sample) /\ Len(s) = u /\ \A i \in 1 .. u : s[i] = m.rb.buf[Slot(r, i)]
  BY ContentType
<1>5. f \in Seq(Sample) /\ Len(f) = n /\ \A i \in 1 .. n : f[i] = m.rb.buf[Slot(r, i)]
  <2> DEFINE t == Mix!Front(s, n)
  <2> HIDE DEF s
  <2>1. t \in Seq(Sample) /\ Len(t) = (IF n < Len(s) THEN n ELSE Len(s)) /\ \A i \in 1 .. Len(t) : t[i] = s[i]
    BY <1>1, <1>4, FrontProperties
  <2> HIDE DEF t
  <2>2. Len(t) = n
    BY <1>1, <1>4, <2>1
  <2>3. \A i \in 1 .. n : i \in 1 .. u
    BY <1>1
  <2>4. \A i \in 1 .. n : t[i] = m.rb.buf[Slot(r, i)]
    BY <1>4, <2>1, <2>2, <2>3
  <2> QED BY <2>1, <2>2, <2>4 DEF t
<1>6. MB!rb_read_n_iov(m.rb, n) = IF r + n > Size THEN [n0 |-> Size - r, n1 |-> n - (Size - r)]
                                  ELSE [n0 |-> n, n1 |-> 0]
  BY <1>1 DEF MB!rb_read_n_iov, MB!Iov
<1> HIDE DEF s, f
<1>7. ASSUME NEW n0 \in Nat, NEW n1 \in Nat, r + n0 <= Size, n1 <= Size
      PROVE  MB!Pieces(m, [n0 |-> n0, n1 |-> n1]) = <<A(n0)>> \o (IF n1 > 0 THEN <<B(n1)>> ELSE << >>)
  <2> DEFINE iov0 == [n0 |-> n0, n1 |-> n1]
             a == A(n0)  b == B(n1)
  <2>1. a \in Seq(Sample) /\ Len(a) = n0 /\ b \in Seq(Sample) /\ Len(b) = n1
    BY <1>2, <1>3, <1>7
  <2>2. MB!Text(m.rb, iov0) = a \o b
    BY DEF MB!Text
  <2>3. MB!Text(m.rb, [iov0 EXCEPT !.n0 = 0]) = << >> \o b
    <3>1. [iov0 EXCEPT !.n0 = 0] = [n0 |-> 0, n1 |-> n1]
      OBVIOUS
    <3>2. [i \in 1 .. 0 |-> m.rb.buf[r + i - 1]] = << >>
      OBVIOUS
    <3>3. MB!Text(m.rb, [n0 |-> 0, n1 |-> n1]) = [i \in 1 .. 0 |-> m.rb.buf[r + i - 1]] \o b
      BY DEF MB!Text
    <3> HIDE DEF b
    <3> QED BY <3>1, <3>2, <3>3
  <2> HIDE DEF a, b
  <2>4. << >> \o b = b
    BY <2>1, ConcatEmptySeq, Zenon
  <2>5. SubSeq(a \o b, 1, n0) = a
    <3> DEFINE ab == a \o b  t == SubSeq(ab, 1, n0)
    <3>1. /\ ab \in Seq(Sample) /\ Len(ab) = Len(a) + Len(b)
          /\ \A i \in 1 .. Len(a) + Len(b) : ab[i] = IF i <= Len(a) THEN a[i] ELSE b[i - Len(a)]
      BY <2>1, ConcatProperties, Zenon
    <3> HIDE DEF ab
    <3>2. \A i \in 1 .. n0 : ab[i] = a[i] /\ ab[i] \in Sample
      <4> TAKE i \in 1 .. n0
      <4>1. i \in 1 .. Len(a) + Len(b) /\ i <= Len(a) /\ i \in 1 .. Len(a)
        BY <2>1
      <4>2. a[i] \in Sample
        BY <2>1, <4>1, ElementOfSeq
      <4> QED BY <3>1, <4>1, <4>2
    <3>3. t \in Seq(Sample) /\ Len(t) = n0 /\ \A i \in 1 .. n0 : t[i] = ab[i]
      BY <3>2, SubSeqProperties
    <3> HIDE DEF t
    <3>4. t = a
      BY <2>1, <3>2, <3>3, SeqEqual
    <3> QED BY <3>4 DEF t, ab
  <2>6. MB!Pieces(m, iov0) = <<SubSeq(MB!Text(m.rb, iov0), 1, n0)>> \o
                             (IF n1 > 0 THEN <<MB!Text(m.rb, [iov0 EXCEPT !.n0 = 0])>> ELSE << >>)
    BY DEF MB!Pieces
  <2>7. MB!Pieces(m, iov0) = <<a>> \o (IF n1 > 0 THEN <<b>> ELSE << >>)
    BY <2>2, <2>3, <2>4, <2>5, <2>6
  <2> QED BY <2>7 DEF a, b
<1> HIDE DEF A, B
<1>8. CASE r + n > Size
  <2> DEFINE n0 == Size - r  n1 == n - (Size - r)
  <2>1. n0 \in Nat /\ n1 \in Nat /\ r + n0 <= Size /\ n1 <= Size /\ n1 > 0 /\ n0 + n1 = n
    <3> HIDE DEF r, u
    <3> QED BY <1>1, <1>8
  <2>2. p = MB!Pieces(m, [n0 |-> n0, n1 |-> n1])
    BY <1>6, <1>8 DEF MB!mixb_read_n_iov
  <2> HIDE DEF n0, n1, p
  <2>3. p = <<A(n0)>> \o <<B(n1)>>
    BY <1>7, <2>1, <2>2
  <2>4. A(n0) \in Seq(Sample) /\ B(n1) \in Seq(Sample) /\ Len(A(n0)) = n0 /\ Len(B(n1)) = n1
    BY <1>2, <1>3, <2>1
  <2>5. p \in Seq(Seq(Sample)) /\ Len(p) = 2 /\ p[1] = A(n0) /\ p[2] = B(n1)
    BY <2>3, <2>4
  <2>6. f = A(n0) \o B(n1)
    <3> DEFINE t == A(n0) \o B(n1)
    <3>1. /\ t \in Seq(Sample) /\ Len(t) = Len(A(n0)) + Len(B(n1))
          /\ \A i \in 1 .. Len(A(n0)) + Len(B(n1)) : t[i] = IF i <= Len(A(n0)) THEN A(n0)[i] ELSE B(n1)[i - Len(A(n0))]
      BY <2>4, ConcatProperties, Zenon
    <3> HIDE DEF t
    <3>2. ASSUME NEW i \in 1 .. n PROVE f[i] = t[i]
      <4>1. t[i] = IF i <= n0 THEN A(n0)[i] ELSE B(n1)[i - n0]
        BY <2>1, <2>4, <3>1
      <4>2. CASE i <= n0
        <5>1. i \in 1 .. n0 /\ Slot(r, i) = r + i - 1
          BY <1>1, <2>1, <4>2, SMTT(30) DEF Slot, MB!Pos, n0
        <5>2. A(n0)[i] = m.rb.buf[r + i - 1]
          BY <5>1 DEF A
        <5> QED BY <1>5, <4>1, <4>2, <5>1, <5>2
      <4>3. CASE ~(i <= n0)
        <5>1. i - n0 \in 1 .. n1 /\ Slot(r, i) = i - n0 - 1
          <6> HIDE DEF r, u
          <6>1. i \in Int /\ i > n0 /\ i <= n /\ n0 = Size - r /\ i - n0 \in 1 .. n1
            BY <1>1, <2>1, <4>3 DEF n0
          <6>2. r + i - 1 >= Size /\ r + i - 1 - Size = i - n0 - 1
            BY <1>1, <6>1
          <6>3. Slot(r, i) = IF r + i - 1 >= Size THEN r + i - 1 - Size ELSE r + i - 1
            BY <1>1, <6>1 DEF Slot, MB!Pos
          <6> QED BY <6>1, <6>2, <6>3
        <5>2. B(n1)[i - n0] = m.rb.buf[i - n0 - 1]
          BY <5>1 DEF B
        <5> QED BY <1>5, <4>1, <4>3, <5>1, <5>2
      <4> QED BY <4>2, <4>3
    <3>3. Len(t) = n
      BY <2>1, <2>4, <3>1
    <3>4. f = t
      BY <1>5, <3>1, <3>2, <3>3, SeqEqual
    <3> QED BY <3>4 DEF t
  <2> QED BY <2>5, <2>6 DEF p, f, s
<1>9. CASE ~(r + n > Size)
  <2>1. p = MB!Pieces(m, [n0 |-> n, n1 |-> 0])
    BY <1>6, <1>9 DEF MB!mixb_read_n_iov
  <2> HIDE DEF p
  <2>2. n \in Nat /\ 0 \in Nat /\ r + n <= Size /\ 0 <= Size
    BY <1>1, <1>9
  <2>3. p = <<A(n)>> \o << >>
    <3>1. MB!Pieces(m, [n0 |-> n, n1 |-> 0]) = <<A(n)>> \o (IF 0 > 0 THEN <<B(0)>> ELSE << >>)
      BY <1>7, <2>2
    <3>2. ~(0 > 0)
      OBVIOUS
    <3> QED BY <2>1, <3>1, <3>2
  <2>4. A(n) \in Seq(Sample) /\ Len(A(n)) = n
    BY <1>2, <2>2
  <2>5. p \in Seq(Seq(Sample)) /\ Len(p) = 1 /\ p[1] = A(n)
    BY <2>3, <2>4
  <2>6. ASSUME NEW i \in 1 .. n PROVE f[i] = A(n)[i]
    <3>1. Slot(r, i) = r + i - 1
      BY <1>1, <1>9 DEF Slot, MB!Pos
    <3>2. A(n)[i] = m.rb.buf[r + i - 1]
      BY DEF A
    <3> QED BY <1>5, <3>1, <3>2
  <2>7. f = A(n)
    BY <1>5, <2>4, <2>6, SeqEqual
  <2> QED BY <2>5, <2>7 DEF p, f, s
<1> QED BY <1>8, <1>9

-----------------------------------------------------------------------------
(* The steps as steps of Mixer *)

(* How far the streams of a mixer have got, as Mixer sees it. *)
At(m) == [c \in Cpvt |-> IF c \in Range(m.streams) THEN m.pos[c].used ELSE -1]

(* What is handed to the device: one frame, in up to three pieces *)
IsFrame(pieces, frame) ==
  /\ pieces \in Seq(Seq(Sample)) /\ Len(pieces) \in 1 .. 3
  /\ FlattenSeq(pieces) = frame /\ Len(frame) = FRAME

(* What every step does to the sound *)
Sounds == Tracked(mb') /\ FrameWhole' /\ Mix!Next

(* A step without a sound *)
LEMMA Silent ==
  ASSUME NoSound
  PROVE  FlattenSeq(iov') = << >> /\ FrameWhole'
<1>1. iov' = << >> /\ fate' = "none"
  BY DEF NoSound
<1>2. FlattenSeq(iov') = << >>
  BY <1>1 DEF FlattenSeq
<1>3. FrameWhole'
  BY <1>1 DEF FrameWhole
<1> QED BY <1>2, <1>3

(* However iov_write goes, it is the frame or an error. *)
LEMMA WrittenWhole ==
  ASSUME NEW pieces, NEW frame, IsFrame(pieces, frame), iov_write(pieces)
  PROVE  FlattenSeq(iov') = frame /\ FrameWhole'
<1> DEFINE w == FlattenSeq(pieces)
<1>1. /\ pieces \in Seq(Seq(Sample)) /\ Len(pieces) \in 1 .. 3 /\ w = frame /\ Len(w) = FRAME
      /\ iov' = pieces
  BY DEF IsFrame, iov_write
<1>2. w \in Seq(Sample) /\ FRAME \in Nat
  <2>1. w \in Seq(Sample)
    BY <1>1, Together
  <2>2. FRAME \in Nat
    BY AudioAssumption
  <2> QED BY <2>1, <2>2
<1>3. CASE out' = w /\ fate' = "whole"
  BY <1>1, <1>3 DEF FrameWhole
<1>4. ASSUME NEW n \in 1 .. Len(w) - 1,
             out' = Taken(pieces, n) \o FlattenSeq(Rest(pieces, n)), fate' = "short"
      PROVE  FrameWhole'
  <2> DEFINE t == Taken(pieces, n)  r == FlattenSeq(Rest(pieces, n))
  <2>1. r \in Seq(Sample) /\ Len(r) = FRAME - n
    BY <1>1, RestLength
  <2>2. n \in 1 .. FRAME /\ n \in Nat
    BY <1>1, <1>2
  <2>3. t \in Seq(Sample) /\ Len(t) = n
    <3>1. \A i \in 1 .. n : w[i] \in Sample
      <4>1. \A i \in 1 .. n : i \in 1 .. Len(w)
        BY <1>1, <1>2, <2>2
      <4> QED BY <1>2, <4>1, ElementOfSeq
    <3>2. t = SubSeq(w, 1, n)
      BY DEF Taken
    <3> HIDE DEF t, w
    <3> QED BY <2>2, <3>1, <3>2, SubSeqProperties
  <2> HIDE DEF t, r
  <2>4. Len(t \o r) = Len(t) + Len(r)
    BY <2>1, <2>3, ConcatProperties, Zenon
  <2>5. Len(t \o r) = FRAME
    BY <1>2, <2>1, <2>2, <2>3, <2>4
  <2> QED BY <1>4, <2>5 DEF FrameWhole, t, r
<1>5. ASSUME fate' = "error" PROVE FrameWhole'
  BY <1>5 DEF FrameWhole
<1>6. FrameWhole'
  BY <1>3, <1>4, <1>5 DEF iov_write
<1> QED BY <1>1, <1>6

(* timing_write passes a frame from the front of the mixer on. *)
LEMMA FrontFrame ==
  ASSUME Ring(mb.rb)
  PROVE  IsFrame(FramePieces, Mix!Padded(Mix!Front(MB!Content(mb.rb), FRAME)))
<1> DEFINE u == mb.rb.used
           s == MB!Content(mb.rb)
           p(n) == MB!mixb_read_n_iov(mb, n)
           f(n) == Mix!Front(s, n)
           z == Silence(FRAME - u)
           frame == Mix!Padded(f(FRAME))
<1>1. u \in Nat /\ FRAME \in Nat \ {0}
  BY AudioAssumption DEF Ring
<1>2. s \in Seq(Sample) /\ Len(s) = u
  BY ContentType
<1>3. ASSUME NEW n \in Nat
      PROVE  f(n) \in Seq(Sample) /\ Len(f(n)) = (IF n < u THEN n ELSE u)
             /\ \A i \in 1 .. Len(f(n)) : f(n)[i] = s[i]
  <2> HIDE DEF s
  <2> QED BY <1>2, FrontProperties
<1>4. ASSUME NEW n \in 1 .. u
      PROVE  /\ p(n) \in Seq(Seq(Sample)) /\ Len(p(n)) \in 1 .. 2 /\ FlattenSeq(p(n)) = f(n)
             /\ f(n) = IF Len(p(n)) = 1 THEN p(n)[1] ELSE p(n)[1] \o p(n)[2]
  <2>1. /\ p(n) \in Seq(Seq(Sample)) /\ Len(p(n)) \in 1 .. 2
        /\ f(n) = IF Len(p(n)) = 1 THEN p(n)[1] ELSE p(n)[1] \o p(n)[2]
    BY PiecesFront
  <2> HIDE DEF p, f
  <2>2. Len(p(n)) \in 1 .. 3 /\ (Len(p(n)) = 1 \/ Len(p(n)) = 2)
    BY <2>1
  <2>3. FlattenSeq(p(n)) = IF Len(p(n)) = 1 THEN p(n)[1] ELSE IF Len(p(n)) = 2 THEN p(n)[1] \o p(n)[2]
                           ELSE (p(n)[1] \o p(n)[2]) \o p(n)[3]
    BY <2>2, FlattenUp
  <2> QED BY <2>1, <2>2, <2>3
<1> HIDE DEF p, f, s
<1>5. f(FRAME) \in Seq(Sample) /\ Len(f(FRAME)) <= FRAME
  BY <1>1, <1>3
<1>6. /\ frame = IF Len(f(FRAME)) = FRAME THEN f(FRAME) ELSE f(FRAME) \o Silence(FRAME - Len(f(FRAME)))
      /\ frame \in Seq(Sample) /\ Len(frame) = FRAME
  BY <1>5, PaddedProperties
<1> HIDE DEF frame
<1>7. CASE u >= FRAME
  <2>1. FramePieces = p(FRAME)
    BY <1>7 DEF FramePieces, p
  <2>2. FRAME \in 1 .. u
    BY <1>1, <1>7
  <2>3. Len(f(FRAME)) = FRAME
    BY <1>1, <1>3, <1>7
  <2>4. IsFrame(p(FRAME), frame)
    <3>1. /\ p(FRAME) \in Seq(Seq(Sample)) /\ Len(p(FRAME)) \in 1 .. 2
          /\ FlattenSeq(p(FRAME)) = f(FRAME)
      BY <1>4, <2>2
    <3>2. Len(p(FRAME)) \in 1 .. 3
      BY <3>1
    <3>3. f(FRAME) = frame /\ Len(frame) = FRAME
      BY <1>6, <2>3
    <3> QED BY <3>1, <3>2, <3>3 DEF IsFrame
  <2> QED BY <2>1, <2>4 DEF frame, f, s
<1>8. CASE u < FRAME
  <2>1. z \in Seq(Sample) /\ Len(z) = FRAME - u /\ ~(u >= FRAME)
    <3>1. FRAME - u \in Nat /\ ~(u >= FRAME)
      <4> HIDE DEF u
      <4> QED BY <1>1, <1>8
    <3> QED BY <3>1, SilenceType
  <2>2. Len(f(FRAME)) = u /\ f(FRAME) = f(u)
    <3>1. Len(f(FRAME)) = u /\ Len(f(u)) = u
      BY <1>1, <1>3, <1>8
    <3>2. \A i \in 1 .. u : f(FRAME)[i] = f(u)[i]
      BY <1>1, <1>3, <3>1
    <3> QED BY <1>1, <1>3, <3>1, <3>2, SeqEqual
  <2>3. frame = f(u) \o z
    BY <1>1, <1>6, <1>8, <2>2
  <2> HIDE DEF z
  <2>4. CASE u > 0
    <3> DEFINE q == p(u) \o <<z>>
    <3>1. u \in 1 .. u
      BY <1>1, <2>4
    <3>2. FramePieces = q
      BY <2>1, <2>4 DEF FramePieces, p, z
    <3>3. /\ p(u) \in Seq(Seq(Sample)) /\ Len(p(u)) \in 1 .. 2
          /\ f(u) = IF Len(p(u)) = 1 THEN p(u)[1] ELSE p(u)[1] \o p(u)[2]
      BY <1>4, <3>1
    <3>4. /\ q \in Seq(Seq(Sample)) /\ Len(q) = Len(p(u)) + 1
          /\ q[Len(p(u)) + 1] = z /\ \A i \in 1 .. Len(p(u)) : q[i] = p(u)[i]
      <4>1. <<z>> \in Seq(Seq(Sample)) /\ Len(<<z>>) = 1 /\ <<z>>[1] = z
        BY <2>1
      <4> DEFINE e == <<z>>
      <4> HIDE DEF e
      <4>2. e \in Seq(Seq(Sample)) /\ Len(e) = 1 /\ e[1] = z
        BY <4>1 DEF e
      <4>3. /\ q \in Seq(Seq(Sample)) /\ Len(q) = Len(p(u)) + Len(e)
            /\ \A i \in 1 .. Len(p(u)) + Len(e) : q[i] = IF i <= Len(p(u)) THEN p(u)[i] ELSE e[i - Len(p(u))]
        BY <3>3, <4>2, ConcatProperties, Zenon DEF e
      <4> DEFINE x == Len(p(u))
      <4> HIDE DEF q, x
      <4>4. x \in Nat /\ Len(q) = x + 1 /\ x + 1 \in 1 .. x + 1 /\ ~(x + 1 <= x) /\ (x + 1) - x = 1
        BY <3>3, <4>2, <4>3 DEF x
      <4>5. q[x + 1] = z
        BY <4>2, <4>3, <4>4 DEF x
      <4>6. \A i \in 1 .. x : i \in 1 .. x + 1 /\ i <= x
        BY <4>4
      <4>7. \A i \in 1 .. x : q[i] = p(u)[i]
        BY <4>2, <4>3, <4>6 DEF x
      <4> QED BY <4>3, <4>4, <4>5, <4>7 DEF x
    <3> HIDE DEF q
    <3>5. Len(q) \in 1 .. 3 /\ (Len(p(u)) = 1 \/ Len(p(u)) = 2)
      <4> DEFINE x == Len(p(u))  y == Len(q)
      <4>1. x \in 1 .. 2 /\ y = x + 1
        BY <3>3, <3>4
      <4> HIDE DEF x, y
      <4>2. y \in 1 .. 3 /\ (x = 1 \/ x = 2)
        BY <4>1
      <4> QED BY <4>2 DEF x, y
    <3>6. FlattenSeq(q) = IF Len(q) = 1 THEN q[1] ELSE IF Len(q) = 2 THEN q[1] \o q[2]
                          ELSE (q[1] \o q[2]) \o q[3]
      BY <3>5, FlattenUp
    <3>7. FlattenSeq(q) = f(u) \o z
      <4>1. CASE Len(p(u)) = 1
        <5>1. Len(q) = 2 /\ q[1] = p(u)[1] /\ q[2] = z
          BY <3>4, <4>1
        <5>2. f(u) = p(u)[1] /\ FlattenSeq(q) = q[1] \o q[2]
          BY <3>3, <3>6, <4>1, <5>1
        <5> QED BY <5>1, <5>2
      <4>2. CASE Len(p(u)) = 2
        <5>1. Len(q) = 3 /\ q[1] = p(u)[1] /\ q[2] = p(u)[2] /\ q[3] = z
          BY <3>4, <4>2
        <5>2. f(u) = p(u)[1] \o p(u)[2] /\ FlattenSeq(q) = (q[1] \o q[2]) \o q[3]
          BY <3>3, <3>6, <4>2, <5>1
        <5> QED BY <5>1, <5>2
      <4> QED BY <3>5, <4>1, <4>2
    <3>8. IsFrame(q, frame)
      BY <1>6, <2>3, <3>4, <3>5, <3>7 DEF IsFrame
    <3> QED BY <3>2, <3>8 DEF frame, f, s
  <2>5. CASE ~(u > 0)
    <3> DEFINE q == <<z>>
    <3>1. FramePieces = << >> \o q
      BY <2>1, <2>5 DEF FramePieces, z
    <3>2. q \in Seq(Seq(Sample)) /\ Len(q) = 1 /\ q[1] = z
      BY <2>1
    <3> HIDE DEF q
    <3>3. << >> \o q = q
      BY <3>2, ConcatEmptySeq, Zenon
    <3>4. Len(q) \in 1 .. 3
      BY <3>2
    <3>5. FlattenSeq(q) = z
      BY <3>2, <3>4, FlattenUp
    <3>6. f(u) \o z = z
      <4>1. Len(f(u)) = 0 /\ f(u) \in Seq(Sample)
        BY <1>1, <1>3, <2>5
      <4>2. f(u) = << >>
        BY <4>1, EmptySeq
      <4>3. << >> \o z = z
        BY <2>1, ConcatEmptySeq, Zenon
      <4> QED BY <4>2, <4>3
    <3>7. IsFrame(q, frame)
      BY <1>6, <2>3, <3>2, <3>4, <3>5, <3>6 DEF IsFrame
    <3> QED BY <3>1, <3>3, <3>7 DEF frame, f, s
  <2> QED BY <2>4, <2>5
<1> QED BY <1>1, <1>7, <1>8

(* Steps of Mixer, in the terms of the mix buffer. *)
LEMMA MixerSteps ==
  ASSUME NEW c \in Cpvt
  PROVE  LET s == MB!Content(mb.rb)  t == MB!Content(mb'.rb)  frame == FlattenSeq(iov')
             Later(n) == [e \in Cpvt |-> IF At(mb)[e] > n THEN At(mb)[e] - n
                                         ELSE IF At(mb)[e] >= 0 THEN 0 ELSE -1]
         IN  /\ t = s /\ At(mb') = At(mb) /\ frame = << >> => Mix!Next
             /\ t = << >> /\ At(mb') = At(mb) /\ (\A e \in Cpvt : At(mb)[e] = -1) /\ frame = << >> => Mix!Next
             /\ t = s /\ At(mb') = [At(mb) EXCEPT ![c] = 0] /\ frame = << >> => Mix!Next
             /\ t = s /\ At(mb') = [At(mb) EXCEPT ![c] = -1] /\ frame = << >> => Mix!Next
             /\ /\ t = Mix!Behind(s, FRAME) /\ At(mb') = Later(FRAME)
                /\ frame = Mix!Padded(Mix!Front(s, FRAME))
                => Mix!Next
             /\ \A data \in Inputs :
                  /\ t = s /\ At(mb') = At(mb) /\ frame = Mix!Padded(Mix!Front(data, FRAME)) => Mix!Next
                  /\ LET over == Mix!Max({0, At(mb)[c] + Len(data) - Size})
                         fits == Mix!Front(data, Size)
                     IN  /\ At(mb)[c] >= 0 /\ frame = << >>
                         /\ t = Mix!Added(Mix!Behind(s, over), Later(over)[c], fits)
                         /\ At(mb') = [Later(over) EXCEPT ![c] = @ + Len(fits)]
                         => Mix!Next
<1> DEFINE s == MB!Content(mb.rb)  t == MB!Content(mb'.rb)  frame == FlattenSeq(iov')
           Later(n) == [e \in Cpvt |-> IF At(mb)[e] > n THEN At(mb)[e] - n
                                       ELSE IF At(mb)[e] >= 0 THEN 0 ELSE -1]
<1>1. t = s /\ At(mb') = At(mb) /\ frame = << >> => Mix!Next
  BY DEF Mix!Next, Mix!Quiet, At
<1>2. t = << >> /\ At(mb') = At(mb) /\ (\A e \in Cpvt : At(mb)[e] = -1) /\ frame = << >> => Mix!Next
  BY DEF Mix!Next, Mix!Restart, At
<1>3. t = s /\ At(mb') = [At(mb) EXCEPT ![c] = 0] /\ frame = << >> => Mix!Next
  BY DEF Mix!Next, Mix!Join, At
<1>4. t = s /\ At(mb') = [At(mb) EXCEPT ![c] = -1] /\ frame = << >> => Mix!Next
  BY DEF Mix!Next, Mix!Leave, At
<1>5. /\ t = Mix!Behind(s, FRAME) /\ At(mb') = Later(FRAME)
      /\ frame = Mix!Padded(Mix!Front(s, FRAME))
      => Mix!Next
  BY DEF Mix!Next, Mix!Hear, Mix!Later, At
<1>6. ASSUME NEW data \in Inputs,
             t = s, At(mb') = At(mb), frame = Mix!Padded(Mix!Front(data, FRAME))
      PROVE  Mix!Next
  <2>1. Mix!HearAtOnce(data)
    BY <1>6 DEF Mix!HearAtOnce, At
  <2> QED BY <2>1 DEF Mix!Next, Inputs
<1>7. ASSUME NEW data \in Inputs,
             LET over == Mix!Max({0, At(mb)[c] + Len(data) - Size})
                 fits == Mix!Front(data, Size)
             IN  /\ At(mb)[c] >= 0 /\ frame = << >>
                 /\ t = Mix!Added(Mix!Behind(s, over), Later(over)[c], fits)
                 /\ At(mb') = [Later(over) EXCEPT ![c] = @ + Len(fits)]
      PROVE  Mix!Next
  <2>1. Mix!HandIn(c, data)
    BY <1>7 DEF Mix!HandIn, Mix!Later, At
  <2> QED BY <2>1 DEF Mix!Next, Inputs
<1> QED BY <1>1, <1>2, <1>3, <1>4, <1>5, <1>6, <1>7

(* A new call has no sound; the first one finds an empty mixer. *)
LEMMA NewCallSounds ==
  ASSUME IndInv, Tracked(mb), NewCall
  PROVE  Sounds
<1>1. Good(pvt, {}) /\ Streams(mb, Acting(pvt)) /\ FlattenSeq(iov') = << >> /\ FrameWhole'
  BY Silent DEF IndInv, NewCall
<1>2. 1 \in Cpvt
  BY CallOpsAssumption DEF Cpvt
<1>3. CASE pvt.chansno # 0
  <2>1. mb' = mb
    BY <1>3 DEF NewCall
  <2> QED BY <1>1, <1>2, <2>1, MixerSteps DEF Sounds
<1>4. CASE pvt.chansno = 0
  <2>1. mb' = MB!mixb_init(mb)
    BY <1>4 DEF NewCall
  <2>2. Acting(pvt) = {}
    <3>1. Len(pvt.chans) = 0 /\ pvt.chans \in Seq(1 .. pvt.allocs)
      BY <1>1, <1>4 DEF Good, Listed
    <3> QED BY <3>1 DEF Acting, Live, Range
  <2>3. Tracked(mb') /\ MB!Content(mb'.rb) = << >>
    BY <1>1, <2>1, <2>2, TrackedStreams
  <2>4. Range(mb.streams) = {} /\ Range(mb'.streams) = {}
    <3>1. mb'.streams = << >>
      BY <1>1, <2>1 DEF MB!mixb_init, Streams
    <3>2. Range(<< >>) = {}
      BY DEF Range
    <3> QED BY <1>1, <2>2, <3>1, <3>2 DEF Streams
  <2>5. At(mb') = At(mb) /\ \A e \in Cpvt : At(mb)[e] = -1
    BY <2>4 DEF At
  <2> QED BY <1>1, <1>2, <2>3, <2>5, MixerSteps DEF Sounds
<1> QED BY <1>3, <1>4

(* A stream goes. *)
LEMMA DetachSounds ==
  ASSUME IndInv, Tracked(mb), NEW c \in Live(pvt), mb' = Detached(c), NoSound
  PROVE  Sounds
<1>1. Streams(mb, Acting(pvt)) /\ FlattenSeq(iov') = << >> /\ FrameWhole' /\ c \in Cpvt
  BY Silent, GoodQueue DEF IndInv
<1>2. CASE ~(pvt.cpvt[c].chan /\ pvt.cpvt[c].act)
  <2>1. mb' = mb
    BY <1>2 DEF Detached
  <2> QED BY <1>1, <2>1, MixerSteps DEF Sounds
<1>3. CASE pvt.cpvt[c].chan /\ pvt.cpvt[c].act
  <2>1. mb' = MB!mixb_detach(mb, c) /\ c \in Acting(pvt)
    BY <1>3 DEF Detached, Acting
  <2>2. Tracked(mb') /\ mb'.rb = mb.rb /\ mb'.pos = mb.pos
    BY <1>1, <2>1, TrackedStreams
  <2>3. Range(mb.streams) = Acting(pvt) /\ Range(mb'.streams) = Acting(pvt) \ {c}
    <3>1. Streams(mb', Acting(pvt) \ {c})
      BY <1>1, <2>1, DetachStream
    <3> QED BY <1>1, <3>1 DEF Streams
  <2>4. At(mb') = [At(mb) EXCEPT ![c] = -1]
    BY <1>1, <2>1, <2>2, <2>3 DEF At
  <2> QED BY <1>1, <2>2, <2>4, MixerSteps DEF Sounds
<1> QED BY <1>2, <1>3

(* What becomes of a call: its stream comes, goes or stays. *)
LEMMA ReportedSounds ==
  ASSUME IndInv, Tracked(mb), NEW c, NEW new, Reported(c, new)
  PROVE  Sounds
<1>1. /\ Streams(mb, Acting(pvt)) /\ FlattenSeq(iov') = << >> /\ FrameWhole' /\ c \in Live(pvt) /\ c \in Cpvt
      /\ NoSound
  BY Silent, GoodQueue DEF IndInv, Reported
<1>2. CASE new \in {"onhold", "released"}
  <2>1. mb' = Detached(c)
    BY <1>2 DEF Reported
  <2> QED BY <1>1, <2>1, DetachSounds
<1>3. CASE new \notin {"onhold", "released"} /\ mb' = mb
  BY <1>1, <1>3, MixerSteps DEF Sounds
<1>4. CASE new \notin {"onhold", "released"} /\ mb' # mb
  <2>1. mb' = MB!mixb_attach(mb, c) /\ ~pvt.cpvt[c].act
    BY <1>4 DEF Reported, Attached
  <2>2. c \in Cpvt \ Acting(pvt)
    BY <1>1, <2>1 DEF Acting
  <2>3. /\ Tracked(mb') /\ mb'.rb = mb.rb /\ mb'.pos[c].used = 0
        /\ \A e \in Cpvt : e # c => mb'.pos[e] = mb.pos[e]
    BY <1>1, <2>1, <2>2, TrackedStreams
  <2>4. Range(mb.streams) = Acting(pvt) /\ Range(mb'.streams) = Acting(pvt) \cup {c}
    <3>1. Streams(mb', Acting(pvt) \cup {c})
      BY <1>1, <2>1, <2>2, AttachStream
    <3> QED BY <1>1, <3>1 DEF Streams
  <2>5. At(mb') = [At(mb) EXCEPT ![c] = 0]
    BY <1>1, <2>3, <2>4 DEF At
  <2> QED BY <1>1, <2>3, <2>5, MixerSteps DEF Sounds
<1> QED BY <1>2, <1>3, <1>4

(* The MASTER passes a frame on. *)
LEMMA TickSounds ==
  ASSUME IndInv, Tracked(mb), NEW c, TimerTick(c)
  PROVE  Sounds
<1> DEFINE u == mb.rb.used  s == MB!Content(mb.rb)  S == Acting(pvt)
           n == IF FRAME <= u THEN FRAME ELSE u
           Later(k) == [e \in Cpvt |-> IF At(mb)[e] > k THEN At(mb)[e] - k
                                       ELSE IF At(mb)[e] >= 0 THEN 0 ELSE -1]
<1>1. Streams(mb, S) /\ Ring(mb.rb) /\ u \in Nat /\ FRAME \in Nat /\ Range(mb.streams) = S /\ S \subseteq Cpvt
  <2>1. Ring(mb.rb) /\ FRAME \in Nat /\ Streams(mb, S)
    BY AudioAssumption DEF Tracked, IndInv
  <2>2. Range(mb.streams) = S /\ S \subseteq Cpvt
    BY <2>1 DEF Streams, Range
  <2>3. u \in Nat
    BY <2>1, AudioAssumption DEF Ring
  <2> QED BY <2>1, <2>2, <2>3
<1>2. /\ FlattenSeq(iov') = Mix!Padded(Mix!Front(s, FRAME)) /\ FrameWhole'
  <2>1. IsFrame(FramePieces, Mix!Padded(Mix!Front(s, FRAME))) /\ iov_write(FramePieces)
    BY <1>1, FrontFrame DEF TimerTick
  <2> HIDE DEF s
  <2> QED BY <2>1, WrittenWhole
<1>3. s \in Seq(Sample) /\ Len(s) = u
  BY <1>1, ContentType
<1>4. \A e \in S : mb.pos[e].used \in 0 .. u
  BY <1>1 DEF Tracked
<1>5. Mix!Behind(s, n) = Mix!Behind(s, FRAME)
  <2>1. CASE FRAME <= u
    BY <2>1
  <2>2. CASE ~(FRAME <= u)
    <3> HIDE DEF s
    <3>1. n = u /\ n \in Nat /\ n <= Len(s) /\ Len(s) - n = 0
      BY <1>1, <1>3, <2>2
    <3> HIDE DEF n
    <3>2. Mix!Behind(s, n) \in Seq(Sample) /\ Len(Mix!Behind(s, n)) = 0
      BY <1>3, <3>1, BehindProperties
    <3>3. Mix!Behind(s, FRAME) \in Seq(Sample) /\ Len(Mix!Behind(s, FRAME)) = 0
      BY <1>1, <1>3, <2>2, BehindProperties
    <3> QED BY <3>2, <3>3, EmptySeq
  <2> QED BY <2>1, <2>2
<1>6. /\ Tracked(mb') /\ mb'.streams = mb.streams
      /\ MB!Content(mb'.rb) = Mix!Behind(s, n)
      /\ \A e \in S : mb'.pos[e].used = IF mb.pos[e].used > n THEN mb.pos[e].used - n ELSE 0
  <2>1. CASE u = 0
    <3>1. mb' = mb /\ n = 0
      BY <1>1, <2>1 DEF TimerTick
    <3>2. Mix!Behind(s, n) = s
      <4> DEFINE b == Mix!Behind(s, n)
      <4> HIDE DEF s
      <4>1. b \in Seq(Sample) /\ Len(b) = 0
        <5>1. n \in Nat /\ n <= Len(s) /\ Len(s) - n = 0
          BY <1>3, <2>1, <3>1
        <5> HIDE DEF n
        <5>2. b \in Seq(Sample) /\ Len(b) = (IF n <= Len(s) THEN Len(s) - n ELSE 0)
          BY <1>3, <5>1, BehindProperties
        <5> QED BY <5>1, <5>2
      <4> HIDE DEF b
      <4>2. b = << >> /\ s = << >>
        BY <1>3, <2>1, <4>1, EmptySeq
      <4> QED BY <4>2 DEF b
    <3>3. \A e \in S : mb.pos[e].used = 0
      BY <1>4, <2>1
    <3> HIDE DEF n, s
    <3> QED BY <3>1, <3>2, <3>3 DEF s
  <2>2. CASE u # 0
    <3>1. Min({FRAME, u}) = n /\ n \in Nat
      <4>1. FRAME \in Int /\ u \in Int
        BY <1>1
      <4> HIDE DEF u
      <4> QED BY <1>1, <4>1, TwoNumbers
    <3>2. mb' = MB!mixb_read_upd(mb, n)
      BY <2>2, <3>1 DEF TimerTick
    <3> HIDE DEF n
    <3>3. mb'.streams = mb.streams
      BY <1>1, <3>2 DEF MB!mixb_read_upd, Streams
    <3> QED BY <1>1, <3>1, <3>2, <3>3, ReadOn
  <2> QED BY <2>1, <2>2
<1>7. At(mb') = Later(FRAME)
  <2>1. At(mb') = [e \in Cpvt |-> IF e \in S THEN mb'.pos[e].used ELSE -1]
    BY <1>1, <1>6 DEF At
  <2>2. At(mb) = [e \in Cpvt |-> IF e \in S THEN mb.pos[e].used ELSE -1]
    BY <1>1 DEF At
  <2> HIDE DEF n, S
  <2>3. ASSUME NEW e \in Cpvt PROVE At(mb')[e] = Later(FRAME)[e]
    <3>1. CASE e \in S
      <4> DEFINE k == mb.pos[e].used
      <4>1. k \in 0 .. u /\ At(mb)[e] = k /\ At(mb')[e] = IF k > n THEN k - n ELSE 0
        BY <1>4, <1>6, <2>1, <2>2, <3>1
      <4> HIDE DEF k, u
      <4>2. (IF k > n THEN k - n ELSE 0) = IF k > FRAME THEN k - FRAME ELSE 0
        BY <1>1, <4>1 DEF n
      <4>3. Later(FRAME)[e] = IF k > FRAME THEN k - FRAME ELSE 0
        BY <1>1, <4>1
      <4> QED BY <4>1, <4>2, <4>3
    <3>2. CASE e \notin S
      <4>1. At(mb)[e] = -1 /\ At(mb')[e] = -1
        BY <2>1, <2>2, <3>2
      <4> QED BY <1>1, <4>1
    <3> QED BY <3>1, <3>2
  <2>4. DOMAIN At(mb') = Cpvt /\ DOMAIN Later(FRAME) = Cpvt
    BY <2>1
  <2> QED BY <2>1, <2>3, <2>4
<1>8. c \in Cpvt
  BY GoodQueue DEF TimerTick, IndInv
<1>9. MB!Content(mb'.rb) = Mix!Behind(s, FRAME)
  BY <1>5, <1>6
<1>10. Mix!Next
  BY <1>2, <1>7, <1>8, <1>9, MixerSteps
<1> QED BY <1>2, <1>6, <1>10 DEF Sounds

(* Whoever writes is counted: the volume is divided by at least one. *)
LEMMA Counted ==
  ASSUME IndInv, NEW c \in Acting(pvt), pvt.cpvt[c].state = "active"
  PROVE  mb.attached \in 1 .. MaxCalls /\ pvt.count["active"] \in 1 .. MaxCalls
<1> DEFINE q == mb.streams  I == InState(pvt, "active")
<1>1. /\ Good(pvt, {}) /\ c \in Live(pvt) /\ Live(pvt) \subseteq Cpvt
      /\ q \in Seq(Cpvt) /\ IsInjective(q) /\ c \in Range(q) /\ mb.attached = Len(q)
  BY GoodQueue DEF IndInv, Streams, Acting
<1>2. MaxCalls \in Nat /\ Cpvt = 1 .. MaxCalls /\ IsFiniteSet(Cpvt) /\ Cardinality(Cpvt) = MaxCalls
  <2>1. MaxCalls \in Nat \ {0}
    BY CallOpsAssumption
  <2>2. IsFiniteSet(1 .. MaxCalls) /\ Cardinality(1 .. MaxCalls) = MaxCalls
    BY <2>1, FS_Interval
  <2> QED BY <2>1, <2>2 DEF Cpvt
<1>3. Len(q) \in 1 .. MaxCalls
  <2>1. Len(q) \in Nat /\ DOMAIN q = 1 .. Len(q)
    BY <1>1, LenProperties
  <2>2. Len(q) >= 1
    <3>1. PICK i \in DOMAIN q : q[i] = c
      BY <1>1 DEF Range
    <3> QED BY <2>1, <3>1
  <2>3. q \in Injection(1 .. Len(q), Cpvt)
    <3>1. q \in [1 .. Len(q) -> Cpvt]
      BY <1>1, <2>1
    <3> QED BY <1>1, <2>1, <3>1 DEF Injection, IsInjective
  <2>4. Cardinality(1 .. Len(q)) <= Cardinality(Cpvt)
    BY <1>2, <2>3, FS_Injection
  <2>5. Cardinality(1 .. Len(q)) = Len(q)
    <3> DEFINE l == Len(q)
    <3>1. l \in Int /\ 1 \in Int /\ ~(1 > l) /\ l - 1 + 1 = l
      BY <2>1, <2>2
    <3> HIDE DEF l
    <3>2. Cardinality(1 .. l) = IF 1 > l THEN 0 ELSE l - 1 + 1
      BY <3>1, FS_Interval
    <3> QED BY <3>1, <3>2 DEF l
  <2> QED BY <1>2, <2>1, <2>2, <2>4, <2>5
<1>4. pvt.count["active"] \in 1 .. MaxCalls
  <2>1. "active" \in CallStates
    BY DEF CallStates, ClccStates
  <2>2. pvt.count["active"] = Cardinality(I)
    BY <1>1, <2>1 DEF Good, Counts
  <2>3. c \in I /\ I \in SUBSET Cpvt
    BY <1>1 DEF InState
  <2> HIDE DEF I
  <2>4. IsFiniteSet(I) /\ Cardinality(I) <= MaxCalls
    BY <1>2, <2>3, FS_Subset
  <2>5. Cardinality(I) \in Nat /\ Cardinality(I) # 0
    BY <2>3, <2>4, FS_CardinalityType, FS_EmptySet
  <2> QED BY <1>2, <2>2, <2>4, <2>5
<1> QED BY <1>1, <1>3, <1>4

(* channel_write: mixed in, or passed on at once. *)
LEMMA WriteSounds ==
  ASSUME IndInv, Tracked(mb), NEW c, NEW data \in Voice(c), c \in Cpvt, ChannelWrite(c, data)
  PROVE  Sounds
<1> DEFINE s == MB!Content(mb.rb)  S == Acting(pvt)  g == Gained(data)
           Later(k) == [e \in Cpvt |-> IF At(mb)[e] > k THEN At(mb)[e] - k
                                       ELSE IF At(mb)[e] >= 0 THEN 0 ELSE -1]
<1>1. /\ Streams(mb, S) /\ Range(mb.streams) = S /\ c \in S /\ S \subseteq Cpvt
      /\ pvt.cpvt[c].state = "active"
  <2>1. Streams(mb, S) /\ Good(pvt, {}) /\ Acting(pvt) = Audible(pvt)
    BY DEF IndInv
  <2>2. c \in Audible(pvt) /\ pvt.cpvt[c].state = "active"
    BY DEF ChannelWrite, Audible, Sounding
  <2> QED BY <2>1, <2>2, GoodQueue DEF Streams, Acting
<1>2. g \in Inputs /\ g \in Seq(Sample) /\ Len(g) = Len(data)
  <2>1. mb.attached \in 1 .. MaxCalls /\ pvt.count["active"] \in 1 .. MaxCalls
    BY <1>1, Counted
  <2> QED BY <2>1, GainedType
<1> HIDE DEF g
<1>3. CASE a_timer
  <2> DEFINE n    == Len(g)
             k    == mb.pos[c].used
             over == Over(mb, c, g)
             at(e) == Ahead(mb, e, over)
             fits == Mix!Front(g, Size)
  <2>1. mb' = Handed(mb, c, g) /\ NoSound
    BY <1>2, <1>3 DEF ChannelWrite, Overflow, Handed, g
  <2>2. FlattenSeq(iov') = << >> /\ FrameWhole'
    BY <2>1, Silent
  <2>3. /\ Tracked(mb')
        /\ \A e \in S : mb'.pos[e].used = IF e = c THEN at(c) + Len(fits) ELSE at(e)
        /\ MB!Content(mb'.rb) = Mix!Added(Mix!Behind(s, over), at(c), fits)
    <3> DEFINE q == Handed(mb, c, g)
    <3>1. /\ Tracked(q)
          /\ \A e \in S : q.pos[e].used = IF e = c THEN at(c) + Len(fits) ELSE at(e)
          /\ MB!Content(q.rb) = Mix!Added(Mix!Behind(s, over), at(c), fits)
      <4> HIDE DEF S
      <4> QED BY <1>1, <1>2, HandedIn
    <3>2. mb' = q
      BY <2>1
    <3> HIDE DEF q, s, over, fits
    <3> QED BY <3>1, <3>2
  <2>4. Range(mb'.streams) = S
    <3> DEFINE room == MB!mixb_free(mb, c)
               o == IF room < Len(g) THEN MB!mixb_read_upd(mb, Len(g) - room) ELSE mb
    <3>1. Streams(o, S)
      BY <1>1, ReadStreams
    <3>2. Streams(mb', S)
      <4>1. mb' = MB!mixb_write(o, c, g)
        BY <2>1 DEF Handed
      <4> HIDE DEF o
      <4> QED BY <3>1, <4>1, WriteStreams
    <3> QED BY <3>2 DEF Streams
  <2>5. /\ At(mb) = [e \in Cpvt |-> IF e \in S THEN mb.pos[e].used ELSE -1]
        /\ At(mb') = [e \in Cpvt |-> IF e \in S THEN mb'.pos[e].used ELSE -1]
    BY <1>1, <2>4 DEF At
  <2>6. /\ \A e \in S : mb.pos[e].used \in Nat /\ At(mb)[e] = mb.pos[e].used
        /\ over \in Nat
    <3>1. \A e \in S : mb.pos[e].used \in Nat
      BY <1>1, AudioAssumption DEF Tracked, Ring
    <3>2. \A e \in S : At(mb)[e] = mb.pos[e].used
      BY <1>1, <2>5
    <3>3. over \in Nat
      <4>1. k + n - Size \in Int /\ 0 \in Int
        <5>1. k \in Nat /\ n \in Nat /\ Size \in Nat
          BY <1>1, <1>2, <3>1, LenProperties, AudioAssumption
        <5> HIDE DEF k, n
        <5> QED BY <5>1
      <4>2. over = IF 0 <= k + n - Size THEN k + n - Size ELSE 0
        <5>1. over = Mix!Max({0, k + n - Size})
          BY DEF Over
        <5> HIDE DEF k, n, over
        <5> QED BY <4>1, <5>1, TwoNumbers
      <4> HIDE DEF k, n, over
      <4> QED BY <4>1, <4>2
    <3> QED BY <3>1, <3>2, <3>3
  <2>7. over = Mix!Max({0, At(mb)[c] + Len(g) - Size}) /\ At(mb)[c] >= 0
    <3>1. At(mb)[c] = k /\ k \in Nat
      BY <1>1, <2>6
    <3>2. over = Mix!Max({0, k + Len(g) - Size})
      BY DEF Over
    <3> HIDE DEF k, over
    <3> QED BY <3>1, <3>2
  <2> HIDE DEF over, s, fits, n, k
  <2>8. \A e \in S : Later(over)[e] = at(e)
    <3> TAKE e \in S
    <3>1. e \in Cpvt
      BY <1>1
    <3> QED BY <2>6, <3>1 DEF Ahead
  <2>9. \A e \in Cpvt \ S : Later(over)[e] = -1 /\ At(mb')[e] = -1
    BY <2>5, <2>6
  <2>10. At(mb') = [Later(over) EXCEPT ![c] = @ + Len(fits)]
    <3> DEFINE L == Later(over)  R == [L EXCEPT ![c] = @ + Len(fits)]
    <3>1. DOMAIN L = Cpvt
      OBVIOUS
    <3>2. \A e \in S : L[e] = at(e)
      BY <2>8
    <3>3. \A e \in Cpvt \ S : L[e] = -1
      BY <2>9
    <3> HIDE DEF L, at
    <3>4. ASSUME NEW e \in Cpvt PROVE At(mb')[e] = R[e]
      <4>1. CASE e \in S
        BY <1>1, <2>3, <2>5, <3>1, <3>2, <4>1
      <4>2. CASE e \notin S
        BY <1>1, <2>9, <3>1, <3>3, <4>2
      <4> QED BY <4>1, <4>2
    <3>5. At(mb') = [e \in Cpvt |-> At(mb')[e]] /\ R = [e \in Cpvt |-> R[e]]
      BY <2>5, <3>1
    <3> HIDE DEF R
    <3>6. At(mb') = R
      BY <3>4, <3>5
    <3> QED BY <3>6 DEF R, L
  <2>11. MB!Content(mb'.rb) = Mix!Added(Mix!Behind(s, over), Later(over)[c], fits)
    BY <1>1, <2>3, <2>8
  <2>12. Mix!Next
    <3> DEFINE ov == Mix!Max({0, At(mb)[c] + Len(g) - Size})
    <3>1. /\ At(mb)[c] >= 0 /\ FlattenSeq(iov') = << >>
          /\ MB!Content(mb'.rb) = Mix!Added(Mix!Behind(s, ov), Later(ov)[c], Mix!Front(g, Size))
          /\ At(mb') = [Later(ov) EXCEPT ![c] = @ + Len(Mix!Front(g, Size))]
          => Mix!Next
      BY <1>2, MixerSteps DEF s
    <3>2. ov = over
      BY <2>7
    <3> HIDE DEF ov, Later
    <3> QED BY <2>2, <2>7, <2>10, <2>11, <3>1, <3>2 DEF fits
  <2> QED BY <2>2, <2>3, <2>12 DEF Sounds
<1>4. CASE ~a_timer
  <2> DEFINE first == Mix!Front(g, FRAME)
             rest == Silence(FRAME - Len(first))
             pieces == <<first>> \o (IF Len(first) < FRAME THEN <<rest>> ELSE << >>)
             frame == Mix!Padded(first)
  <2>1. FRAME \in Nat \ {0} /\ Len(data) \in Nat /\ Len(g) \in Nat
    BY <1>2, AudioAssumption, LenProperties
  <2>2. first = SubSeq(g, 1, Min({FRAME, Len(data)}))
    <3>1. FRAME \in Int /\ Len(data) \in Int
      BY <2>1
    <3>2. Min({FRAME, Len(data)}) = IF FRAME <= Len(data) THEN FRAME ELSE Len(data)
      BY <3>1, TwoNumbers
    <3>3. Min({FRAME, Len(data)}) = IF FRAME < Len(g) THEN FRAME ELSE Len(g)
      BY <1>2, <2>1, <3>2
    <3> QED BY <3>3 DEF Mix!Front
  <2>3. iov_write(pieces) /\ mb' = mb
    BY <1>4, <2>2 DEF ChannelWrite, g
  <2>4. first \in Seq(Sample) /\ Len(first) \in Nat /\ Len(first) <= FRAME
    <3>1. first \in Seq(Sample) /\ Len(first) = (IF FRAME < Len(g) THEN FRAME ELSE Len(g))
      BY <1>2, <2>1, FrontProperties
    <3> HIDE DEF first
    <3> QED BY <2>1, <3>1
  <2> HIDE DEF first
  <2>5. /\ frame = IF Len(first) = FRAME THEN first ELSE first \o rest
        /\ frame \in Seq(Sample) /\ Len(frame) = FRAME
    BY <2>4, PaddedProperties
  <2>6. rest \in Seq(Sample)
    <3>1. FRAME - Len(first) \in Nat
      BY <2>1, <2>4
    <3> QED BY <3>1, SilenceType
  <2> HIDE DEF rest, frame
  <2>7. IsFrame(pieces, frame)
    <3>1. CASE Len(first) = FRAME
      <4>1. pieces = <<first>> \o << >>
        <5>1. ~(Len(first) < FRAME)
          BY <2>1, <3>1
        <5> QED BY <5>1
      <4> HIDE DEF pieces
      <4>3. pieces \in Seq(Seq(Sample)) /\ Len(pieces) = 1 /\ pieces[1] = first
        BY <2>4, <4>1
      <4>4. Len(pieces) \in 1 .. 3
        BY <4>3
      <4>5. FlattenSeq(pieces) = frame
        BY <2>5, <3>1, <4>3, <4>4, FlattenUp
      <4> QED BY <2>5, <4>3, <4>4, <4>5 DEF IsFrame
    <3>2. CASE Len(first) # FRAME
      <4>1. pieces = <<first>> \o <<rest>>
        BY <2>1, <2>4, <3>2
      <4> HIDE DEF pieces
      <4>3. pieces \in Seq(Seq(Sample)) /\ Len(pieces) = 2 /\ pieces[1] = first /\ pieces[2] = rest
        BY <2>4, <2>6, <4>1
      <4>4. Len(pieces) \in 1 .. 3 /\ Len(pieces) # 1
        BY <4>3
      <4>5. FlattenSeq(pieces) = frame
        BY <2>5, <3>2, <4>3, <4>4, FlattenUp
      <4> QED BY <2>5, <4>3, <4>4, <4>5 DEF IsFrame
    <3> QED BY <3>1, <3>2
  <2> HIDE DEF pieces
  <2>8. FlattenSeq(iov') = frame /\ FrameWhole'
    BY <2>3, <2>7, WrittenWhole
  <2>9. Mix!Next
    BY <1>2, <2>3, <2>8, MixerSteps DEF frame, first
  <2> QED BY <2>3, <2>8, <2>9 DEF Sounds
<1> QED BY <1>3, <1>4

(* An empty buffer. *)
LEMMA InitSounds ==
  ASSUME Init
  PROVE  Tracked(mb) /\ FrameWhole /\ Mix!Init
<1>1. /\ mb.rb = [buf |-> [p \in 0 .. Size - 1 |-> 0], used |-> 0, read |-> 0, write |-> 0]
      /\ mb.streams = << >> /\ mb.pos = [c \in Cpvt |-> [used |-> 0, write |-> 0]]
      /\ iov = << >> /\ fate = "none"
  BY DEF Init
<1>2. 0 \in Sample /\ Size \in Nat \ {0}
  BY SampleType, AudioAssumption
<1>3. Ring(mb.rb)
  <2>1. MB!Pos(0 + 0) = 0
    BY <1>2 DEF MB!Pos
  <2> QED BY <1>1, <1>2, <2>1 DEF Ring
<1>4. Range(mb.streams) = {}
  BY <1>1 DEF Range
<1>5. Tracked(mb)
  BY <1>1, <1>3, <1>4 DEF Tracked
<1>6. FrameWhole
  BY <1>1 DEF FrameWhole
<1>7. MB!Content(mb.rb) = << >>
  BY <1>1 DEF MB!Content
<1>8. FlattenSeq(iov) = << >>
  BY <1>1 DEF FlattenSeq
<1>9. Mix!Init
  BY <1>4, <1>7, <1>8 DEF Mix!Init
<1> QED BY <1>5, <1>6, <1>9

(* Every step is one of Mixer, and a frame stays whole. *)
LEMMA NextSounds ==
  ASSUME IndInv, Tracked(mb), FrameWhole, [Next]_vars
  PROVE  Tracked(mb') /\ FrameWhole' /\ [Mix!Next]_(Mix!mvars)
<1>1. CASE NewCall
  BY <1>1, NewCallSounds DEF Sounds
<1>2. ASSUME NEW c \in Cpvt, NEW new \in {"dialing", "active", "onhold", "released"},
             Reported(c, new)
      PROVE  Sounds
  BY <1>2, ReportedSounds
<1>3. ASSUME NEW c \in Cpvt, Hangup(c) PROVE Sounds
  <2>1. c \in Live(pvt) /\ mb' = Detached(c) /\ NoSound
    BY <1>3 DEF Hangup
  <2> QED BY <2>1, DetachSounds
<1>4. ASSUME NEW c \in Cpvt, TimerTick(c) PROVE Sounds
  BY <1>4, TickSounds
<1>5. ASSUME NEW c \in Cpvt, NEW data \in Voice(c), ChannelWrite(c, data) PROVE Sounds
  BY <1>5, WriteSounds
<1>6. CASE UNCHANGED vars
  BY <1>6 DEF vars, FrameWhole, Mix!mvars
<1> QED BY <1>1, <1>2, <1>3, <1>4, <1>5, <1>6 DEF Next, Sounds

(* However many parts the device takes a frame in (iov_write, timing_write), *)
(* it gets one frame, unless the write fails.                                *)
THEOREM FramesAreWhole == Spec => []FrameWhole
<1>1. Init => IndInv /\ Tracked(mb) /\ FrameWhole
  BY InitInv, InitSounds
<1>2. IndInv /\ Tracked(mb) /\ FrameWhole /\ [Next]_vars => (IndInv /\ Tracked(mb) /\ FrameWhole)'
  BY NextInv, NextSounds
<1> QED BY <1>1, <1>2, PTL DEF Spec

(* The mix buffer does what Mixer promises: what the calls hand in is added  *)
(* up and heard in order, whoever joins, leaves, runs ahead or stays behind  *)
(* (mixb_write, mixb_read_upd, channel_write, timing_write).                 *)
THEOREM MixesInOrder == Spec => ImplementsMixer
<1>1. Init => IndInv /\ Tracked(mb) /\ FrameWhole /\ Mix!Init
  BY InitInv, InitSounds
<1>2. IndInv /\ Tracked(mb) /\ FrameWhole /\ [Next]_vars
      => (IndInv /\ Tracked(mb) /\ FrameWhole)' /\ [Mix!Next]_(Mix!mvars)
  BY NextInv, NextSounds
<1> QED BY <1>1, <1>2, PTL DEF Spec, ImplementsMixer, Mix!Spec
=============================================================================
