--------------------------- MODULE ReadPathProofs ---------------------------
(***************************************************************************)
(* Proofs about ReadPath, for a ring buffer of any size and any messages:  *)
(* the positions of the buffer stay consistent and it hands out the bytes  *)
(* in the order they came in.                                              *)
(***************************************************************************)
EXTENDS ReadPath, TLAPS, SequenceTheorems, WellFoundedInduction

-----------------------------------------------------------------------------
(* The operators of RingBuffer *)

(* What a reader sees has the length the buffer says. *)
LEMMA ContentType ==
  ASSUME NEW r, RingOK(r)
  PROVE  /\ Content(r) \in Seq(Byte)
         /\ Len(Content(r)) = r.used
         /\ \A i \in 1 .. r.used : Content(r)[i] = r.buf[Pos(r.read + i - 1)]
<1>1. r.used \in Nat /\ \A i \in 1 .. r.used : r.buf[Pos(r.read + i - 1)] \in Byte
  BY RingAssumption DEF RingOK, Pos
<1>2. Content(r) \in Seq(Byte)
  BY <1>1, IsASeq DEF Content
<1> QED BY <1>1, <1>2 DEF Content

(* An empty buffer is consistent. *)
LEMMA InitRing == RingOK(rb_init) /\ rb_init.used = 0
<1>1. (CHOOSE b \in Byte : TRUE) \in Byte
  BY RingAssumption
<1> QED BY <1>1, RingAssumption DEF rb_init, RingOK

(* The fields of a consistent buffer. *)
LEMMA RingFields ==
  ASSUME NEW r, RingOK(r)
  PROVE  /\ r = [buf |-> r.buf, used |-> r.used, read |-> r.read, write |-> r.write]
         /\ r.buf \in [0 .. Size - 1 -> Byte] /\ r.used \in 0 .. Size
         /\ r.read \in 0 .. Size - 1 /\ r.write \in 0 .. Size
         /\ r.write = IF r.read + r.used > Size THEN r.read + r.used - Size
                      ELSE r.read + r.used
  BY DEF RingOK

(* A buffer whose fields are these is consistent. *)
LEMMA RingFrom ==
  ASSUME NEW bf \in [0 .. Size - 1 -> Byte], NEW us \in 0 .. Size,
         NEW rd \in 0 .. Size - 1, NEW wr \in 0 .. Size,
         wr = IF rd + us > Size THEN rd + us - Size ELSE rd + us
  PROVE  RingOK([buf |-> bf, used |-> us, read |-> rd, write |-> wr])
  BY DEF RingOK

(* The write position after a write of n bytes. *)
LEMMA WriteUpd ==
  ASSUME NEW us \in 0 .. Size, NEW rd \in 0 .. Size - 1, NEW n \in Nat, n <= Size - us,
         NEW wr, wr = IF rd + us > Size THEN rd + us - Size ELSE rd + us,
         NEW x, x = IF wr + n > Size THEN wr + n - Size ELSE wr + n
  PROVE  /\ us + n \in 0 .. Size /\ x \in 0 .. Size
         /\ x = IF rd + (us + n) > Size THEN rd + (us + n) - Size ELSE rd + (us + n)
  BY RingAssumption

(* Writing keeps the buffer consistent and appends to what a reader sees. *)
LEMMA WriteRing ==
  ASSUME NEW r, RingOK(r), NEW s \in Seq(Byte), Len(s) <= rb_free(r)
  PROVE  /\ RingOK(Receive(r, s))
         /\ Content(Receive(r, s)) = Content(r) \o s
<1> DEFINE n == Len(s)
           us == r.used
           rd == r.read
           wr == r.write
           bf == r.buf
           B == Received(r, s)
           x == IF wr + n > Size THEN wr + n - Size ELSE wr + n
           w == [buf |-> B, used |-> us + n, read |-> rd, write |-> x]
<1>1. /\ Size \in Nat \ {0} /\ n \in Nat /\ n <= Size - us
      /\ us \in 0 .. Size /\ rd \in 0 .. Size - 1 /\ wr \in 0 .. Size
      /\ wr = IF rd + us > Size THEN rd + us - Size ELSE rd + us
      /\ bf \in [0 .. Size - 1 -> Byte]
      /\ r = [buf |-> bf, used |-> us, read |-> rd, write |-> wr]
  BY RingAssumption, RingFields, LenProperties DEF rb_free
<1>2. \A i \in 1 .. n : s[i] \in Byte
  BY ElementOfSeq
<1>3. \A p \in 0 .. Size - 1 :
        B[p] = IF p - wr \in 0 .. n - 1 THEN s[p - wr + 1]
               ELSE IF p + Size - wr \in 0 .. n - 1
               THEN s[p + Size - wr + 1] ELSE bf[p]
  BY DEF Received
<1>4. Receive(r, s) = w
  <2> HIDE DEF B
  <2>1. [r EXCEPT !.buf = B] = [buf |-> B, used |-> us, read |-> rd, write |-> wr]
    <3> HIDE DEF us, rd, wr, bf
    <3> QED BY <1>1
  <2>2. rb_write_upd([buf |-> B, used |-> us, read |-> rd, write |-> wr], n) = w
    <3> HIDE DEF us, rd, wr, bf, n
    <3> QED BY DEF rb_write_upd
  <2>3. Receive(r, s) = rb_write_upd([r EXCEPT !.buf = B], n)
    BY DEF Receive, B
  <2> QED BY <2>1, <2>2, <2>3
<1>5. DOMAIN B = 0 .. Size - 1 /\ B = [p \in 0 .. Size - 1 |-> B[p]]
  BY DEF Received
<1>6. /\ Content(r) \in Seq(Byte) /\ Len(Content(r)) = us
      /\ \A i \in 1 .. us : Content(r)[i] = bf[Pos(rd + i - 1)]
  BY ContentType
<1>7. Content(r) \o s \in Seq(Byte) /\ Len(Content(r) \o s) = us + n
  <2>1. /\ Content(r) \o s \in Seq(Byte)
        /\ Len(Content(r) \o s) = Len(Content(r)) + Len(s)
    BY <1>6, ConcatProperties, Zenon
  <2> HIDE DEF us
  <2> QED BY <2>1, <1>6
<1>8. \A i \in 1 .. us + n :
        (Content(r) \o s)[i] = IF i <= us THEN Content(r)[i] ELSE s[i - us]
  <2>1. \A i \in 1 .. Len(Content(r)) + Len(s) :
          (Content(r) \o s)[i] = IF i <= Len(Content(r)) THEN Content(r)[i]
                                 ELSE s[i - Len(Content(r))]
    BY <1>6, ConcatProperties
  <2> HIDE DEF us
  <2> QED BY <2>1, <1>6
<1> HIDE DEF n, us, rd, wr, bf, B
<1>9. B \in [0 .. Size - 1 -> Byte]
  <2>1. ASSUME NEW p \in 0 .. Size - 1 PROVE B[p] \in Byte
    <3>1. CASE p - wr \in 0 .. n - 1
      <4>1. p - wr + 1 \in 1 .. n
        BY <3>1, <1>1
      <4> QED BY <3>1, <4>1, <1>2, <1>3
    <3>2. CASE p - wr \notin 0 .. n - 1 /\ p + Size - wr \in 0 .. n - 1
      <4>1. p + Size - wr + 1 \in 1 .. n
        BY <3>2, <1>1
      <4> QED BY <3>2, <4>1, <1>2, <1>3
    <3>3. CASE p - wr \notin 0 .. n - 1 /\ p + Size - wr \notin 0 .. n - 1
      BY <3>3, <1>1, <1>3
    <3> QED BY <3>1, <3>2, <3>3
  <2> QED BY <2>1, <1>5
<1>10. us + n \in 0 .. Size /\ x \in 0 .. Size
       /\ x = IF rd + (us + n) > Size THEN rd + (us + n) - Size ELSE rd + (us + n)
  BY <1>1, WriteUpd
<1> HIDE DEF x
<1>11. RingOK(w)
  BY <1>1, <1>9, <1>10, RingFrom
<1>12. /\ Content(w) \in Seq(Byte) /\ Len(Content(w)) = us + n
       /\ \A i \in 1 .. us + n : Content(w)[i] = B[Pos(rd + i - 1)]
  BY <1>11, ContentType
<1> HIDE DEF w
<1>13. ASSUME NEW i \in 1 .. us + n
       PROVE  Content(w)[i] = (Content(r) \o s)[i]
  <2> DEFINE p == Pos(rd + i - 1)
  <2>1. /\ p \in 0 .. Size - 1
        /\ i <= us => p - wr \notin 0 .. n - 1 /\ p + Size - wr \notin 0 .. n - 1
        /\ i > us => \/ p - wr \in 0 .. n - 1 /\ p - wr + 1 = i - us
                     \/ /\ p - wr \notin 0 .. n - 1
                        /\ p + Size - wr \in 0 .. n - 1
                        /\ p + Size - wr + 1 = i - us
    BY <1>1, RingAssumption DEF Pos
  <2>2. Content(w)[i] = B[p]
    BY <1>12
  <2>3. i <= us => Content(r)[i] = bf[p]
    BY <1>6, <1>1
  <2> HIDE DEF p
  <2>4. CASE i <= us
    <3>1. B[p] = bf[p]
      BY <2>1, <2>4, <1>3
    <3> QED BY <2>2, <2>3, <2>4, <3>1, <1>8
  <2>5. CASE ~(i <= us)
    <3>1. i > us
      BY <2>5, <1>1
    <3>2. B[p] = s[i - us]
      BY <2>1, <3>1, <1>3
    <3> QED BY <2>2, <2>5, <3>2, <1>8
  <2> QED BY <2>4, <2>5
<1> QED BY <1>4, <1>7, <1>11, <1>12, <1>13, SeqEqual

(* Reading keeps the buffer consistent and drops the oldest bytes. *)
LEMMA ReadRing ==
  ASSUME NEW r, RingOK(r), NEW n \in Nat
  PROVE  /\ RingOK(rb_read_upd(r, n)) /\ rb_read_upd(r, n).used \in 0 .. r.used
         /\ \A i \in 1 .. rb_read_upd(r, n).used :
              Content(rb_read_upd(r, n))[i] = Content(r)[r.used - rb_read_upd(r, n).used + i]
<1> DEFINE us == r.used
           rd == r.read
           wr == r.write
           bf == r.buf
           k  == IF us < n THEN us ELSE n
           e  == [buf |-> bf, used |-> 0, read |-> 0, write |-> 0]
           v  == [buf |-> bf, used |-> us - k, read |-> Pos(rd + k), write |-> wr]
<1>1. /\ Size \in Nat \ {0}
      /\ us \in 0 .. Size /\ rd \in 0 .. Size - 1 /\ wr \in 0 .. Size
      /\ wr = IF rd + us > Size THEN rd + us - Size ELSE rd + us
      /\ bf \in [0 .. Size - 1 -> Byte]
      /\ r = [buf |-> bf, used |-> us, read |-> rd, write |-> wr]
  BY RingAssumption, RingFields
<1>2. k \in Nat /\ k <= us
  <2> HIDE DEF us
  <2> QED BY <1>1
<1>3. rb_read_upd(r, n) = IF us - k = 0 THEN e ELSE v
  BY DEF rb_read_upd
<1>4. \A i \in 1 .. us : Content(r)[i] = bf[Pos(rd + i - 1)]
  BY ContentType
<1> HIDE DEF us, rd, wr, bf, k
<1>5. CASE k = us
  <2>1. rb_read_upd(r, n) = e
    <3>1. us - k = 0
      BY <1>1, <1>2, <1>5
    <3> QED BY <1>3, <3>1
  <2>2. RingOK(e)
    BY <1>1, RingFrom
  <2>3. e.used = 0 /\ 0 \in 0 .. us
    BY <1>1
  <2> QED BY <2>1, <2>2, <2>3 DEF us
<1>6. CASE k # us
  <2>1. k < us
    BY <1>1, <1>2, <1>6
  <2>2. rb_read_upd(r, n) = v
    <3>1. us - k # 0
      BY <1>1, <1>2, <1>6
    <3> QED BY <1>3, <3>1
  <2>3. /\ us - k \in 0 .. Size /\ Pos(rd + k) \in 0 .. Size - 1
        /\ wr = IF Pos(rd + k) + (us - k) > Size THEN Pos(rd + k) + (us - k) - Size
                ELSE Pos(rd + k) + (us - k)
    BY <1>1, <1>2, <2>1 DEF Pos
  <2>4. RingOK(v)
    BY <1>1, <2>3, RingFrom
  <2>5. v.used = us - k /\ us - k \in 0 .. us
    BY <1>1, <1>2
  <2>6. \A i \in 1 .. us - k : Content(v)[i] = bf[Pos(Pos(rd + k) + i - 1)]
    BY <2>4, ContentType
  <2>7. ASSUME NEW i \in 1 .. us - k
        PROVE  Content(v)[i] = Content(r)[us - (us - k) + i]
    <3>1. us - (us - k) + i = k + i /\ k + i \in 1 .. us /\ i \in Nat \ {0}
      BY <1>1, <1>2
    <3>2. Pos(Pos(rd + k) + i - 1) = Pos(rd + (k + i) - 1)
      BY <1>1, <1>2, <3>1 DEF Pos
    <3>3. Content(r)[k + i] = bf[Pos(rd + (k + i) - 1)]
      BY <3>1, <1>4
    <3> QED BY <3>1, <3>2, <3>3, <2>6
  <2> HIDE DEF v
  <2> QED BY <2>2, <2>4, <2>5, <2>7 DEF us
<1> QED BY <1>5, <1>6

-----------------------------------------------------------------------------
(* Lengths found in the buffer are natural numbers. *)

LEMMA MinNat ==
  ASSUME NEW S \in SUBSET Nat, S # {}
  PROVE  Min(S) \in Nat
<1> DEFINE R == OpToRel(<, Nat)
<1>1. \A x, y \in Nat : x < y => <<x, y>> \in R
  BY DEF OpToRel
<1>2. IsWellFoundedOn(R, Nat)
  BY NatLessThanWellFounded, Zenon
<1> HIDE DEF R
<1>3. PICK x \in S : \A y \in S : ~(<<y, x>> \in R)
  <2>1. S \subseteq Nat /\ S # {}
    OBVIOUS
  <2> QED BY <2>1, <1>2, WFMin, Zenon
<1>4. \A y \in S : x <= y
  <2>1. \A y \in S : x \in Nat /\ y \in Nat /\ ~(y < x)
    BY <1>1, <1>3, Zenon
  <2> QED BY <2>1
<1> QED BY <1>4 DEF Min

(* An io vector pair that is not None has a length. *)
Length(iov) == iov = None \/ iov.n0 + iov.n1 \in Nat

LEMMA IovLength ==
  ASSUME NEW a \in Nat, NEW b \in Nat
  PROVE  Length(Iov(a, b))
  BY DEF Length, Iov

(* The pieces of a consistent buffer, and what is found in them. *)
LEMMA Pieces ==
  ASSUME NEW r, RingOK(r)
  PROVE  /\ FirstPiece(r) \in Nat
         /\ \A from, len, mem : Found(r, from, len, mem) \in SUBSET Nat
         /\ \A mem : FoundAcross(r, mem) \in SUBSET Nat
<1> DEFINE us == r.used
           rd == r.read
<1>1. us \in 0 .. Size /\ rd \in 0 .. Size - 1 /\ Size \in Nat
  BY RingFields, RingAssumption
<1>2. FirstPiece(r) = IF rd + us > Size THEN Size - rd ELSE us
  BY DEF FirstPiece
<1> HIDE DEF us, rd
<1>3. FirstPiece(r) \in Nat
  BY <1>1, <1>2
<1>4. ASSUME NEW from, NEW len, NEW mem PROVE Found(r, from, len, mem) \in SUBSET Nat
  BY DEF Found
<1>5. ASSUME NEW mem PROVE FoundAcross(r, mem) \in SUBSET Nat
  BY <1>3 DEF FoundAcross
<1> QED BY <1>3, <1>4, <1>5

LEMMA CharLength ==
  ASSUME NEW r, RingOK(r), NEW c
  PROVE  Length(rb_read_until_char_iov(r, c))
<1> DEFINE in0 == Found(r, r.read, FirstPiece(r), <<c>>)
           in1 == Found(r, 0, SecondPiece(r), <<c>>)
<1>1. FirstPiece(r) \in Nat /\ in0 \in SUBSET Nat /\ in1 \in SUBSET Nat
  BY Pieces
<1>2. rb_read_until_char_iov(r, c) = IF in0 # {} THEN Iov(Min(in0), 0)
                                     ELSE IF in1 # {} THEN Iov(FirstPiece(r), Min(in1))
                                     ELSE None
  BY DEF rb_read_until_char_iov
<1> HIDE DEF in0, in1
<1>3. CASE in0 # {}
  BY <1>1, <1>2, <1>3, MinNat, IovLength
<1>4. CASE in0 = {} /\ in1 # {}
  BY <1>1, <1>2, <1>4, MinNat, IovLength
<1>5. CASE in0 = {} /\ in1 = {}
  BY <1>2, <1>5 DEF Length
<1> QED BY <1>3, <1>4, <1>5

LEMMA MemLength ==
  ASSUME NEW r, RingOK(r), NEW mem
  PROVE  Length(rb_read_until_mem_iov(r, mem))
<1> DEFINE in0 == Found(r, r.read, FirstPiece(r), mem)
           across == FoundAcross(r, mem)
           in1 == Found(r, 0, SecondPiece(r), mem)
<1>1. FirstPiece(r) \in Nat /\ in0 \in SUBSET Nat /\ across \in SUBSET Nat /\ in1 \in SUBSET Nat
  BY Pieces
<1>2. rb_read_until_mem_iov(r, mem) = IF in0 # {} THEN Iov(Min(in0), 0)
                                      ELSE IF across # {} THEN Iov(Min(across), 0)
                                      ELSE IF in1 # {} THEN Iov(FirstPiece(r), Min(in1))
                                      ELSE None
  BY DEF rb_read_until_mem_iov
<1> HIDE DEF in0, across, in1
<1>3. CASE in0 # {}
  BY <1>1, <1>2, <1>3, MinNat, IovLength
<1>4. CASE in0 = {} /\ across # {}
  BY <1>1, <1>2, <1>4, MinNat, IovLength
<1>5. CASE in0 = {} /\ across = {} /\ in1 # {}
  BY <1>1, <1>2, <1>5, MinNat, IovLength
<1>6. CASE in0 = {} /\ across = {} /\ in1 = {}
  BY <1>2, <1>6 DEF Length
<1> QED BY <1>3, <1>4, <1>5, <1>6

LEMMA NLength ==
  ASSUME NEW r, RingOK(r), NEW len \in Nat
  PROVE  Length(rb_read_n_iov(r, len))
<1> DEFINE us == r.used
           rd == r.read
<1>1. us \in 0 .. Size /\ rd \in 0 .. Size - 1 /\ Size \in Nat
  BY RingFields, RingAssumption
<1>2. rb_read_n_iov(r, len) = IF us < len \/ len = 0 THEN None
                              ELSE IF rd + len > Size THEN Iov(Size - rd, len - (Size - rd))
                              ELSE Iov(len, 0)
  BY DEF rb_read_n_iov
<1> HIDE DEF us, rd
<1>3. CASE us < len \/ len = 0
  BY <1>2, <1>3 DEF Length
<1>4. CASE ~(us < len \/ len = 0) /\ rd + len > Size
  <2>1. Size - rd \in Nat /\ len - (Size - rd) \in Nat
    BY <1>1, <1>4
  <2> QED BY <2>1, <1>2, <1>4, IovLength
<1>5. CASE ~(us < len \/ len = 0) /\ ~(rd + len > Size)
  BY <1>2, <1>5, IovLength
<1> QED BY <1>3, <1>4, <1>5

-----------------------------------------------------------------------------
(* What is left of the stream: the buffer's content and the bytes not read. *)

IsRest(r, st, all) ==
  /\ Len(Content(r) \o st) <= Len(all)
  /\ \A i \in 1 .. Len(Content(r) \o st) :
       (Content(r) \o st)[i] = all[Len(all) - Len(Content(r) \o st) + i]

(* Moving the first n bytes of one sequence to the end of the other keeps    *)
(* the two of them in a row the same.                                        *)
LEMMA MovePrefix ==
  ASSUME NEW c \in Seq(Byte), NEW st \in Seq(Byte), NEW n \in Nat, n <= Len(st)
  PROVE  /\ SubSeq(st, 1, n) \in Seq(Byte) /\ Len(SubSeq(st, 1, n)) = n
         /\ SubSeq(st, n + 1, Len(st)) \in Seq(Byte)
         /\ (c \o SubSeq(st, 1, n)) \o SubSeq(st, n + 1, Len(st)) = c \o st
<1> DEFINE p == SubSeq(st, 1, n)
           q == SubSeq(st, n + 1, Len(st))
           L == Len(st)
<1>1. L \in Nat /\ n <= L /\ \A i \in 1 .. L : st[i] \in Byte
  BY LenProperties, ElementOfSeq
<1>2. \A i \in 1 .. n : st[i] \in Byte
  BY <1>1
<1>3. \A i \in n + 1 .. L : st[i] \in Byte
  BY <1>1
<1>4. /\ p \in Seq(Byte) /\ Len(p) = IF 1 <= n THEN n - 1 + 1 ELSE 0
      /\ \A i \in 1 .. n - 1 + 1 : p[i] = st[1 + i - 1]
  BY <1>2, SubSeqProperties
<1>5. /\ q \in Seq(Byte) /\ Len(q) = IF n + 1 <= L THEN L - (n + 1) + 1 ELSE 0
      /\ \A i \in 1 .. L - (n + 1) + 1 : q[i] = st[n + 1 + i - 1]
  BY <1>1, <1>3, SubSeqProperties
<1>6. /\ c \o p \in Seq(Byte) /\ Len(c \o p) = Len(c) + Len(p)
      /\ \A i \in 1 .. Len(c) + Len(p) :
           (c \o p)[i] = IF i <= Len(c) THEN c[i] ELSE p[i - Len(c)]
  <2> HIDE DEF p
  <2> QED BY <1>4, ConcatProperties, Zenon
<1>7. /\ (c \o p) \o q \in Seq(Byte) /\ Len((c \o p) \o q) = Len(c \o p) + Len(q)
      /\ \A i \in 1 .. Len(c \o p) + Len(q) :
           ((c \o p) \o q)[i] = IF i <= Len(c \o p) THEN (c \o p)[i]
                                ELSE q[i - Len(c \o p)]
  <2> DEFINE cp == c \o p
  <2> HIDE DEF cp, q
  <2>1. cp \in Seq(Byte)
    BY <1>6 DEF cp
  <2>2. /\ cp \o q \in Seq(Byte) /\ Len(cp \o q) = Len(cp) + Len(q)
        /\ \A i \in 1 .. Len(cp) + Len(q) :
             (cp \o q)[i] = IF i <= Len(cp) THEN cp[i] ELSE q[i - Len(cp)]
    BY <2>1, <1>5, ConcatProperties, Zenon
  <2> QED BY <2>2 DEF cp
<1>8. /\ c \o st \in Seq(Byte) /\ Len(c \o st) = Len(c) + L
      /\ \A i \in 1 .. Len(c) + L :
           (c \o st)[i] = IF i <= Len(c) THEN c[i] ELSE st[i - Len(c)]
  BY ConcatProperties, Zenon
<1>9. Len(c) \in Nat
  BY LenProperties
<1> HIDE DEF p, q, L
<1>10. Len(p) = n /\ Len(q) = L - n /\ Len(c \o p) = Len(c) + n
  BY <1>1, <1>4, <1>5, <1>6
<1>11. Len((c \o p) \o q) = Len(c \o st)
  BY <1>1, <1>7, <1>8, <1>9, <1>10
<1>12. ASSUME NEW i \in 1 .. Len(c) + L
       PROVE  ((c \o p) \o q)[i] = (c \o st)[i]
  <2>0. i \in Nat /\ Len(c \o p) + Len(q) = Len(c) + L
    BY <1>1, <1>9, <1>10
  <2>1. CASE i <= Len(c)
    <3>1. i <= Len(c \o p) /\ i \in 1 .. Len(c) + Len(p)
      BY <2>0, <2>1, <1>9, <1>10
    <3> QED BY <2>0, <2>1, <3>1, <1>6, <1>7, <1>8
  <2>2. CASE ~(i <= Len(c)) /\ i <= Len(c) + n
    <3>1. i <= Len(c \o p) /\ i \in 1 .. Len(c) + Len(p) /\ i - Len(c) \in 1 .. n - 1 + 1
          /\ 1 + (i - Len(c)) - 1 = i - Len(c)
      BY <2>0, <2>2, <1>9, <1>10
    <3>2. p[i - Len(c)] = st[i - Len(c)]
      BY <3>1, <1>4
    <3> QED BY <2>0, <2>2, <3>1, <3>2, <1>6, <1>7, <1>8
  <2>3. CASE ~(i <= Len(c)) /\ ~(i <= Len(c) + n)
    <3>1. /\ ~(i <= Len(c \o p)) /\ i - Len(c \o p) \in 1 .. L - (n + 1) + 1
          /\ n + 1 + (i - Len(c \o p)) - 1 = i - Len(c)
      BY <2>0, <2>3, <1>1, <1>9, <1>10
    <3>2. q[i - Len(c \o p)] = st[i - Len(c)]
      BY <3>1, <1>5
    <3> QED BY <2>0, <2>3, <3>1, <3>2, <1>7, <1>8
  <2> QED BY <2>1, <2>2, <2>3
<1>13. (c \o p) \o q = c \o st
  BY <1>7, <1>8, <1>11, <1>12, SeqEqual
<1> QED BY <1>4, <1>5, <1>10, <1>13 DEF p, q, L

(* rb_read_upd takes bytes off the front: the rest stays an end of the stream. *)
LEMMA ReadKeepsRest ==
  ASSUME NEW r, RingOK(r), NEW st \in Seq(Byte), NEW all, Len(all) \in Nat,
         IsRest(r, st, all), NEW n \in Nat
  PROVE  RingOK(rb_read_upd(r, n)) /\ IsRest(rb_read_upd(r, n), st, all)
<1> DEFINE v == rb_read_upd(r, n)
           us == r.used
           vs == v.used
           L == Len(st)
           A == Len(all)
<1>1. /\ RingOK(v) /\ vs \in 0 .. us
      /\ \A i \in 1 .. vs : Content(v)[i] = Content(r)[us - vs + i]
  BY ReadRing
<1>2. L \in Nat /\ A \in Nat
  BY LenProperties
<1>3. us \in Nat
  BY RingFields, RingAssumption
<1> HIDE DEF v
<1>4. /\ Content(r) \in Seq(Byte) /\ Len(Content(r)) = us
      /\ Content(v) \in Seq(Byte) /\ Len(Content(v)) = vs
  BY <1>1, ContentType
<1> HIDE DEF us, vs, L, A
<1> DEFINE c == Content(r)
           d == Content(v)
<1> HIDE DEF c, d
<1>5. /\ Len(c \o st) = Len(c) + Len(st)
      /\ \A i \in 1 .. Len(c) + Len(st) :
           (c \o st)[i] = IF i <= Len(c) THEN c[i] ELSE st[i - Len(c)]
  <2>1. c \in Seq(Byte)
    BY <1>4 DEF c
  <2> QED BY <2>1, ConcatProperties, Zenon
<1>6. /\ Len(d \o st) = Len(d) + Len(st)
      /\ \A i \in 1 .. Len(d) + Len(st) :
           (d \o st)[i] = IF i <= Len(d) THEN d[i] ELSE st[i - Len(d)]
  <2>1. d \in Seq(Byte)
    BY <1>4 DEF d
  <2> QED BY <2>1, ConcatProperties, Zenon
<1>7. /\ Len(c) = us /\ Len(d) = vs /\ Len(st) = L
      /\ \A i \in 1 .. vs : d[i] = c[us - vs + i]
  BY <1>1, <1>4 DEF c, d, L
<1>8. /\ us + L <= A
      /\ \A i \in 1 .. us + L : (c \o st)[i] = all[A - (us + L) + i]
  <2>1. /\ Len(c \o st) <= A
        /\ \A i \in 1 .. Len(c \o st) : (c \o st)[i] = all[A - Len(c \o st) + i]
    BY DEF IsRest, c, A
  <2> QED BY <2>1, <1>5, <1>7
<1>9. ASSUME NEW i \in 1 .. vs + L
      PROVE  (d \o st)[i] = all[A - (vs + L) + i]
  <2>1. us - vs + i \in 1 .. us + L /\ A - (us + L) + (us - vs + i) = A - (vs + L) + i
    BY <1>1, <1>2, <1>3
  <2>2. (c \o st)[us - vs + i] = all[A - (vs + L) + i]
    BY <2>1, <1>8
  <2>3. CASE i <= vs
    <3>1. i \in 1 .. vs /\ us - vs + i <= us
      BY <2>3, <1>1, <1>2, <1>3
    <3>2. (c \o st)[us - vs + i] = c[us - vs + i]
      BY <2>1, <3>1, <1>5, <1>7
    <3>3. (d \o st)[i] = d[i]
      BY <2>3, <1>6, <1>7
    <3> QED BY <2>2, <3>1, <3>2, <3>3, <1>7
  <2>4. CASE ~(i <= vs)
    <3>1. ~(us - vs + i <= us) /\ us - vs + i - us = i - vs
      BY <2>4, <1>1, <1>2, <1>3
    <3>2. (c \o st)[us - vs + i] = st[i - vs]
      BY <2>1, <3>1, <1>5, <1>7
    <3>3. (d \o st)[i] = st[i - vs]
      BY <2>4, <1>6, <1>7
    <3> QED BY <2>2, <3>2, <3>3
  <2> QED BY <2>3, <2>4
<1>10. vs + L <= A
  BY <1>1, <1>2, <1>3, <1>8
<1>11. Len(d \o st) = vs + L
  BY <1>6, <1>7
<1>12. IsRest(v, st, all)
  BY <1>9, <1>10, <1>11 DEF IsRest, d, A
<1> QED BY <1>1, <1>12 DEF v

(* at_read moves bytes from the stream to the buffer: the rest is the same. *)
LEMMA WriteKeepsRest ==
  ASSUME NEW r, RingOK(r), NEW st \in Seq(Byte), NEW all, IsRest(r, st, all),
         NEW n \in Nat, n <= Len(st), n <= rb_free(r)
  PROVE  /\ RingOK(Receive(r, SubSeq(st, 1, n)))
         /\ SubSeq(st, n + 1, Len(st)) \in Seq(Byte)
         /\ IsRest(Receive(r, SubSeq(st, 1, n)), SubSeq(st, n + 1, Len(st)), all)
<1> DEFINE p == SubSeq(st, 1, n)
           q == SubSeq(st, n + 1, Len(st))
           w == Receive(r, p)
<1>1. Content(r) \in Seq(Byte)
  BY ContentType
<1>2. /\ p \in Seq(Byte) /\ Len(p) = n /\ q \in Seq(Byte)
      /\ (Content(r) \o p) \o q = Content(r) \o st
  BY <1>1, MovePrefix
<1>3. Len(p) <= rb_free(r)
  BY <1>2
<1> HIDE DEF p, q
<1>4. RingOK(w) /\ Content(w) = Content(r) \o p
  BY <1>2, <1>3, WriteRing
<1>5. Content(w) \o q = Content(r) \o st
  BY <1>2, <1>4
<1> HIDE DEF w
<1>6. IsRest(w, q, all)
  BY <1>5 DEF IsRest
<1> QED BY <1>2, <1>4, <1>6 DEF w, p, q

-----------------------------------------------------------------------------
(* The steps *)

(* Inductive: the properties, and that the stream is made of bytes. *)
IInv == TypeOK /\ BytesInOrder /\ Stream(sent) \in Seq(Byte)

(* The part of IInv about the buffer and the stream *)
Ring == /\ RingOK(rb) /\ stream \in Seq(Byte)
        /\ IsRest(rb, stream, Stream(sent)) /\ Stream(sent) \in Seq(Byte)

Flags == /\ read_result \in {0, 1} /\ pc \in {"wait", "parse", "dead"}
         /\ cut \in BOOLEAN

LEMMA IInvParts == IInv <=> Ring /\ Flags
  BY DEF IInv, TypeOK, BytesInOrder, Ring, Flags, IsRest

LEMMA RingPrime ==
  ASSUME Stream(sent) \in Seq(Byte), sent' = sent,
         RingOK(rb'), stream' \in Seq(Byte), IsRest(rb', stream', Stream(sent))
  PROVE  Ring'
  BY DEF Ring, RingOK, IsRest, Content, Stream

(* A step that only takes bytes off the buffer *)
LEMMA TakeStep ==
  ASSUME Ring, NEW n \in Nat, rb' = rb_read_upd(rb, n), stream' = stream, sent' = sent
  PROVE  Ring'
<1>1. Len(Stream(sent)) \in Nat
  BY LenProperties DEF Ring
<1>2. RingOK(rb_read_upd(rb, n)) /\ IsRest(rb_read_upd(rb, n), stream, Stream(sent))
  BY <1>1, ReadKeepsRest DEF Ring
<1> QED BY <1>2, RingPrime DEF Ring

LEMMA SkipStep ==
  ASSUME Ring, Flags, NEW n \in Nat, NEW x \in {0, 1}, Skip(n, x)
  PROVE  Ring' /\ Flags'
<1>1. Ring'
  BY TakeStep DEF Skip
<1>2. Flags'
  BY DEF Flags, Skip
<1> QED BY <1>1, <1>2

(* The monitor goes back to sleep. *)
LEMMA NeedMoreStep ==
  ASSUME Ring, NeedMore
  PROVE  Ring' /\ read_result' = read_result /\ pc' = "wait"
<1>1. Ring'
  BY RingPrime DEF Ring, NeedMore
<1> QED BY <1>1 DEF NeedMore

LEMMA TakenNat ==
  ASSUME NEW n \in Nat
  PROVE  Taken(n) \in Nat
<1>1. CssiLen \in Nat /\ n + 7 \in Nat /\ n + 1 \in Nat
  BY ReadAssumption
<1> HIDE DEF Starts
<1> QED BY <1>1 DEF Taken

(* A line is handed over. *)
LEMMA GiveStep ==
  ASSUME Ring, NEW iov, Length(iov), Give(iov)
  PROVE  Ring' /\ read_result' = 0 /\ pc' = pc
<1>1. iov.n0 + iov.n1 \in Nat
  BY DEF Length, Give
<1>2. Taken(iov.n0 + iov.n1) \in Nat
  BY <1>1, TakenNat
<1>3. Ring'
  BY <1>2, TakeStep DEF Give
<1> QED BY <1>3 DEF Give

(* Every branch of a line either hands it over or waits. *)
LEMMA BranchStep ==
  ASSUME Ring, Flags, NEW iov, Length(iov), Give(iov) \/ NeedMore, cut' \in BOOLEAN
  PROVE  Ring' /\ Flags'
<1>1. CASE Give(iov)
  <2>1. Ring' /\ read_result' = 0 /\ pc' = pc
    BY <1>1, GiveStep
  <2> QED BY <2>1 DEF Flags
<1>2. CASE NeedMore
  <2>1. Ring' /\ read_result' = read_result /\ pc' = "wait"
    BY <1>2, NeedMoreStep
  <2> QED BY <2>1 DEF Flags
<1> QED BY <1>1, <1>2

(* Every step preserves the inductive invariant. *)
LEMMA StepInductive == IInv /\ [Next]_vars => IInv'
<1> SUFFICES ASSUME Ring, Flags, [Next]_vars
             PROVE  Ring' /\ Flags'
  BY IInvParts, PTL
<1> USE DEF Ring
<1>1. ASSUME NEW n \in 1 .. Size, at_read(n) PROVE Ring' /\ Flags'
  <2>1. n \in Nat /\ n <= Len(stream) /\ n <= rb_free(rb)
    <3>1. n \in 1 .. rb_free(rb) /\ n <= Len(stream)
      BY <1>1 DEF at_read
    <3>2. n \in Int /\ n >= 1
      BY RingAssumption
    <3>3. rb_free(rb) \in Int
      BY RingFields, RingAssumption DEF rb_free
    <3> HIDE DEF Ring
    <3> QED BY <3>1, <3>2, <3>3
  <2>2. /\ RingOK(rb') /\ stream' \in Seq(Byte) /\ IsRest(rb', stream', Stream(sent))
    BY <2>1, <1>1, WriteKeepsRest DEF at_read
  <2>3. Ring'
    BY <2>2, <1>1, RingPrime DEF at_read
  <2>4. Flags'
    BY <1>1 DEF at_read, Flags
  <2> QED BY <2>3, <2>4
<1>2. CASE Overflow
  <2>1. Ring'
    BY <1>2, RingPrime DEF Overflow
  <2> QED BY <2>1, <1>2 DEF Overflow, Flags
<1>3. CASE LineStart
  BY <1>3, SkipStep DEF LineStart
<1>4. CASE SkipLf
  BY <1>4, SkipStep DEF SkipLf
<1>5. CASE SkipGarbage
  <2> DEFINE iov == rb_read_until_char_iov(rb, CR)
             n == IF iov # None THEN iov.n0 + iov.n1 + 1 ELSE rb.used
  <2>1. Length(iov)
    BY CharLength
  <2>2. rb.used \in Nat
    BY RingFields, RingAssumption
  <2>3. Skip(n, 0)
    BY <1>5 DEF SkipGarbage
  <2> HIDE DEF iov
  <2>4. n \in Nat
    BY <2>1, <2>2 DEF Length
  <2> HIDE DEF n
  <2> QED BY <2>3, <2>4, SkipStep
<1>6. CASE TooShort
  <2>1. NeedMore /\ cut' = cut
    BY <1>6 DEF TooShort
  <2> QED BY <2>1, NeedMoreStep DEF Flags
<1>7. CASE LineCssi
  <2> DEFINE iov == rb_read_n_iov(rb, CssiLen)
  <2>1. Length(iov)
    BY NLength, ReadAssumption
  <2>2. (Give(iov) \/ NeedMore) /\ cut' = cut
    BY <1>7 DEF LineCssi
  <2> HIDE DEF iov
  <2> QED BY <2>1, <2>2, BranchStep DEF Flags
<1>8. CASE LineGlued
  BY <1>8, SkipStep DEF LineGlued
<1>9. CASE LinePrompt
  <2> DEFINE iov == rb_read_n_iov(rb, 2)
  <2>1. Length(iov)
    BY NLength
  <2>2. Give(iov) /\ cut' = cut
    BY <1>9 DEF LinePrompt
  <2> HIDE DEF iov
  <2> QED BY <2>1, <2>2, BranchStep DEF Flags
<1>10. CASE LineMulti
  <2> DEFINE iov == rb_read_until_mem_iov(rb, OKEnd)
  <2>1. Length(iov)
    BY MemLength
  <2>2. (Give(iov) \/ NeedMore) /\ cut' = (cut \/ EndsAcross)
    BY <1>10 DEF LineMulti
  <2>3. cut' \in BOOLEAN
    BY <2>2, Zenon
  <2> HIDE DEF iov
  <2> QED BY <2>1, <2>2, <2>3, BranchStep
<1>11. CASE LineOther
  <2> DEFINE iov == rb_read_until_mem_iov(rb, CRLF)
             out == rb_read_n_iov(rb, iov.n0 + iov.n1 + 1)
  <2>1. Length(iov)
    BY MemLength
  <2>2. IF iov # None THEN Give(out) ELSE NeedMore
    BY <1>11 DEF LineOther
  <2>3. cut' \in BOOLEAN
    <3>1. cut' = (cut \/ EndsInGlue)
      BY <1>11 DEF LineOther
    <3> QED BY <3>1, Zenon
  <2> HIDE DEF iov
  <2>4. CASE iov # None
    <3>1. iov.n0 + iov.n1 + 1 \in Nat
      BY <2>1, <2>4 DEF Length
    <3>2. Length(out)
      BY <3>1, NLength
    <3> HIDE DEF out
    <3> QED BY <2>2, <2>3, <2>4, <3>2, BranchStep
  <2>5. CASE iov = None
    BY <2>1, <2>2, <2>3, <2>5, BranchStep
  <2> QED BY <2>4, <2>5
<1>12. CASE UNCHANGED vars
  <2>1. Ring'
    BY <1>12, RingPrime DEF vars
  <2> QED BY <2>1, <1>12 DEF vars, Flags
<1> QED BY <1>1, <1>2, <1>3, <1>4, <1>5, <1>6, <1>7, <1>8, <1>9, <1>10, <1>11, <1>12 DEF Next

(* At the start nothing was read. *)
LEMMA InitInductive == Init => IInv
<1> SUFFICES ASSUME Init PROVE Ring /\ Flags
  BY IInvParts
<1>1. Stream(sent) \in Seq(Byte) /\ stream = Stream(sent)
  BY ModemAssumption DEF Init
<1>2. RingOK(rb) /\ rb.used = 0
  BY InitRing DEF Init
<1>3. Content(rb) \in Seq(Byte) /\ Len(Content(rb)) = 0
  BY <1>2, ContentType
<1>4. Content(rb) = << >>
  BY <1>3, EmptySeq
<1>5. Content(rb) \o stream = stream
  BY <1>1, <1>4, ConcatEmptySeq
<1>6. IsRest(rb, stream, Stream(sent))
  <2>1. Len(stream) \in Nat
    BY <1>1, LenProperties
  <2>2. \A i \in 1 .. Len(stream) : Len(stream) - Len(stream) + i = i
    BY <2>1
  <2> QED BY <1>1, <1>5, <2>1, <2>2 DEF IsRest
<1> QED BY <1>1, <1>2, <1>6 DEF Init, Ring, Flags

(* For a buffer of any size and any messages, the positions of the ring      *)
(* buffer agree in every reachable state.                                    *)
THEOREM TypeCorrect == Spec => []TypeOK
<1>1. IInv => TypeOK
  BY DEF IInv
<1> QED BY InitInductive, StepInductive, <1>1, PTL DEF Spec

(* For a buffer of any size and any messages, wherever reads end: what the   *)
(* parser will see next is the end of the stream the modem sent.             *)
THEOREM StreamKept == Spec => []BytesInOrder
<1>1. IInv => BytesInOrder
  BY DEF IInv
<1> QED BY InitInductive, StepInductive, <1>1, PTL DEF Spec
=============================================================================
