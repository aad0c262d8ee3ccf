----------------------------- MODULE RingBuffer -----------------------------
(***************************************************************************)
(* The ring buffer the monitor reads the modem into (ringbuffer.c), as     *)
(* operators on a record rb.  Positions are those of the code: buf is      *)
(* indexed from 0, and write may stand at Size, one behind the last byte.  *)
(*                                                                         *)
(* An io vector pair is kept as its two lengths: n0 bytes from rb.read on  *)
(* and n1 bytes from the start of the buffer.  None: nothing was found.    *)
(***************************************************************************)
EXTENDS Integers, Sequences, FiniteSetsExt

CONSTANTS Size,    \* rb->size
          Byte     \* the bytes that can be received

ASSUME RingAssumption == Size \in Nat \ {0} /\ Byte # {}

None == [n0 |-> -1, n1 |-> -1]
Iov(n0, n1) == [n0 |-> n0, n1 |-> n1]

rb_init == [buf |-> [i \in 0 .. Size - 1 |-> CHOOSE b \in Byte : TRUE],
            used |-> 0, read |-> 0, write |-> 0]

(* Mutant: the room in front of the read position is forgotten *)
rb_free_Linear(rb) == Size - rb.write

rb_free(rb) == Size - rb.used

Pos(i) == IF i >= Size THEN i - Size ELSE i

(* The bytes a reader sees, oldest first *)
Content(rb) == [i \in 1 .. rb.used |-> rb.buf[Pos(rb.read + i - 1)]]

(* The bytes an io vector pair refers to, put together (at_response) *)
Text(rb, iov) == [i \in 1 .. iov.n0 |-> rb.buf[rb.read + i - 1]] \o
                 [i \in 1 .. iov.n1 |-> rb.buf[i - 1]]

(* 0: the content starts with mem, 1: it does not, -1: too short to tell *)
rb_memcmp(rb, mem) ==
  IF rb.used < Len(mem) THEN -1
  ELSE IF \A i \in 1 .. Len(mem) : rb.buf[Pos(rb.read + i - 1)] = mem[i] THEN 0 ELSE 1

(* The used bytes up to the end of the buffer, and those behind the wrap *)
FirstPiece(rb)  == IF rb.read + rb.used > Size THEN Size - rb.read ELSE rb.used
SecondPiece(rb) == rb.used - FirstPiece(rb)

rb_read_n_iov(rb, len) ==
  IF rb.used < len \/ len = 0 THEN None
  ELSE IF rb.read + len > Size THEN Iov(Size - rb.read, len - (Size - rb.read))
  ELSE Iov(len, 0)

(* Offsets in a piece that starts at position from where mem is found *)
Found(rb, from, len, mem) ==
  {k \in 0 .. len - Len(mem) : \A j \in 1 .. Len(mem) : rb.buf[from + k + j - 1] = mem[j]}

rb_read_until_char_iov(rb, c) ==
  LET in0 == Found(rb, rb.read, FirstPiece(rb), <<c>>)
      in1 == Found(rb, 0, SecondPiece(rb), <<c>>)
  IN  IF in0 # {} THEN Iov(Min(in0), 0)
      ELSE IF in1 # {} THEN Iov(FirstPiece(rb), Min(in1))
      ELSE None

(* Offsets where mem starts in the first piece and ends in the second.  The  *)
(* code compares the part behind the wrap, i bytes long, with mem + i, not    *)
(* with the last i bytes of mem: the same for two bytes only.  Beyond the     *)
(* end of mem is a NUL, which the modem does not send.                        *)
FoundAcross(rb, mem) ==
  {k \in 0 .. FirstPiece(rb) - 1 :
     LET i == Len(mem) - (FirstPiece(rb) - k)
     IN  /\ i \in 1 .. SecondPiece(rb)
         /\ \A j \in 1 .. Len(mem) - i : rb.buf[rb.read + k + j - 1] = mem[j]
         /\ \A j \in 1 .. i : i + j <= Len(mem) /\ rb.buf[j - 1] = mem[i + j]}

(* for mem of more than one byte *)
rb_read_until_mem_iov(rb, mem) ==
  LET in0    == Found(rb, rb.read, FirstPiece(rb), mem)
      across == FoundAcross(rb, mem)
      in1    == Found(rb, 0, SecondPiece(rb), mem)
  IN  IF in0 # {} THEN Iov(Min(in0), 0)
      ELSE IF across # {} THEN Iov(Min(across), 0)
      ELSE IF in1 # {} THEN Iov(FirstPiece(rb), Min(in1))
      ELSE None

(* Mutant: an empty buffer is not reset to its start *)
rb_read_upd_NoReset(rb, n) ==
  LET len == IF rb.used < n THEN rb.used ELSE n
  IN  [rb EXCEPT !.used = @ - len, !.read = Pos(@ + len)]

rb_read_upd(rb, n) ==
  LET len  == IF rb.used < n THEN rb.used ELSE n
      left == rb.used - len
  IN  IF left = 0 THEN [buf |-> rb.buf, used |-> 0, read |-> 0, write |-> 0]
      ELSE [buf |-> rb.buf, used |-> left, read |-> Pos(rb.read + len), write |-> rb.write]

(* Mutant: the second io vector starts with the first bytes again *)
Received_Again(rb, bytes) ==
  [p \in 0 .. Size - 1 |->
     IF p - rb.write \in 0 .. Len(bytes) - 1 THEN bytes[p - rb.write + 1]
     ELSE IF p + Size - rb.write \in 0 .. Len(bytes) - 1 THEN bytes[p + 1]
     ELSE rb.buf[p]]

(* rb_write_iov and readv: the bytes go to the write position and, behind    *)
(* the end of the buffer, to its start                                       *)
Received(rb, bytes) ==
  [p \in 0 .. Size - 1 |->
     IF p - rb.write \in 0 .. Len(bytes) - 1 THEN bytes[p - rb.write + 1]
     ELSE IF p + Size - rb.write \in 0 .. Len(bytes) - 1
     THEN bytes[p + Size - rb.write + 1]
     ELSE rb.buf[p]]

rb_write_upd(rb, n) ==
  [buf |-> rb.buf, used |-> rb.used + n, read |-> rb.read,
   write |-> IF rb.write + n > Size THEN rb.write + n - Size ELSE rb.write + n]

(* what at_read does to the buffer *)
Receive(rb, bytes) == rb_write_upd([rb EXCEPT !.buf = Received(rb, bytes)], Len(bytes))

(* The buffer as it should be: the write position is read + used, counted    *)
(* round the buffer; it may stand at the end of the buffer but then not at   *)
(* its start.                                                                *)
RingOK(rb) ==
  /\ rb \in [buf : [0 .. Size - 1 -> Byte], used : 0 .. Size,
             read : 0 .. Size - 1, write : 0 .. Size]
  /\ rb.write = IF rb.read + rb.used > Size THEN rb.read + rb.used - Size
                ELSE rb.read + rb.used
=============================================================================
