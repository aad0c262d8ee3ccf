----------------------------- MODULE MixBuffer ------------------------------
(***************************************************************************)
(* The buffer a device's outgoing audio is mixed in (mixbuffer.c), as      *)
(* operators on a record mb: the ring buffer, the list of streams, their   *)
(* counter, and of every stream (part of its call's struct cpvt) how many  *)
(* bytes of the buffer it has filled and where it goes on.  The unit is    *)
(* the 16 bit sample; all lengths in bytes are even.                       *)
(***************************************************************************)
EXTENDS RingBuffer, SequencesExt

(* ast_slinear_saturated_add (external) *)
Saturated(x) == IF x > Max(Byte) THEN Max(Byte) ELSE IF x < Min(Byte) THEN Min(Byte) ELSE x

(* rb_write_core: method, a function of <<old byte, new byte>>, says what is   *)
(* stored                                                                      *)
rb_write_core(rb, data, method) ==
  LET len == IF rb_free(rb) < Len(data) THEN rb_free(rb) ELSE Len(data)
      s   == rb.write + len
  IN  [rb EXCEPT
        !.buf = [p \in 0 .. Size - 1 |->
           IF p - rb.write \in 0 .. len - 1 THEN method[<<@[p], data[p - rb.write + 1]>>]
           ELSE IF p + Size - rb.write \in 0 .. len - 1
           THEN method[<<@[p], data[p + Size - rb.write + 1]>>]
           ELSE @[p]],
        !.write = IF s >= Size THEN s - Size ELSE s,
        !.used = @ + len]

rb_write(rb, data) == rb_write_core(rb, data, [pair \in Byte \X Byte |-> pair[2]])
saturated_sum == [pair \in Byte \X Byte |-> Saturated(pair[1] + pair[2])]

(* mixb_init: neither the samples nor the counter are reset *)
mixb_init(mb) ==
  [mb EXCEPT !.streams = << >>, !.rb.used = 0, !.rb.read = 0, !.rb.write = 0]

mixb_attach(mb, c) ==
  [mb EXCEPT !.pos[c] = [used |-> 0, write |-> mb.rb.read],
             !.streams = Append(@, c), !.attached = @ + 1]

mixb_detach(mb, c) == [mb EXCEPT !.streams = RemoveFirst(@, c), !.attached = @ - 1]

mixb_free(mb, c) == Size - mb.pos[c].used

(* the ring buffer's own position and count are put aside *)
mixb_mix_write(mb, c, data) ==
  LET mine == rb_write_core([mb.rb EXCEPT !.write = mb.pos[c].write, !.used = mb.pos[c].used],
                            data, saturated_sum)
  IN  [mb EXCEPT !.pos[c] = [used |-> mine.used, write |-> mine.write], !.rb.buf = mine.buf]

(* Mutant: what is behind the others' samples is added to what was there *)
mixb_write_MixesAll(mb, c, data) ==
  LET len == Min({mixb_free(mb, c), Len(data)})
      m   == mixb_mix_write(mb, c, SubSeq(data, 1, len))
  IN  IF m.pos[c].used > m.rb.used
      THEN [m EXCEPT !.rb.used = m.pos[c].used, !.rb.write = m.pos[c].write] ELSE m

(* mix as far as others have written, copy what lies behind *)
mixb_write(mb, c, data) ==
  LET len == Min({mixb_free(mb, c), Len(data)})
      mix == mb.rb.used - mb.pos[c].used
      m   == mixb_mix_write(mb, c, SubSeq(data, 1, Min({mix, len})))
      rb  == rb_write(m.rb, SubSeq(data, mix + 1, len))
  IN  IF len <= mix THEN m
      ELSE [m EXCEPT !.rb = rb, !.pos[c] = [used |-> rb.used, write |-> rb.write]]

mixb_read_upd(mb, n) ==
  LET rb == rb_read_upd(mb.rb, n)
      at(c) == IF mb.pos[c].used > n THEN mb.pos[c].used - n ELSE 0
  IN  [mb EXCEPT !.rb = rb,
         !.pos = [c \in DOMAIN @ |-> IF Contains(mb.streams, c)
                    THEN [used |-> at(c), write |-> Pos(rb.read + at(c))] ELSE @[c]]]

(* the samples of an io vector pair, piece by piece *)
Pieces(mb, iov) ==
  <<SubSeq(Text(mb.rb, iov), 1, iov.n0)>> \o
  (IF iov.n1 > 0 THEN <<Text(mb.rb, [iov EXCEPT !.n0 = 0])>> ELSE << >>)
mixb_read_n_iov(mb, n) == Pieces(mb, rb_read_n_iov(mb.rb, n))
=============================================================================
