-------------------------------- MODULE Pdu ---------------------------------
(***************************************************************************)
(* The PDU coder and parser of messages and the 7 bit packing under them.  *)
(* A PDU is a sequence of characters: a hex digit is its value, 0..15, any *)
(* other character is NotHex.  A phone number is a sequence of dial        *)
(* digits, a text a sequence of code points.                               *)
(***************************************************************************)
EXTENDS Integers, SequencesExt

CONSTANTS Numbers,      \* phone numbers, without "+"
          Texts,        \* texts of messages
          Validities,   \* minutes a message to be sent is valid
          OaRoom        \* size of the buffer for the number of a sender

ASSUME PduAssumption ==
  /\ OaRoom \in Nat \ {0}
  /\ Validities \subseteq Nat

NotHex == 16
Filler == 15

Octet(v) == <<v \div 16, v % 16>>
Octets(vs) == FlattenSeq([i \in 1..Len(vs) |-> Octet(vs[i])])
Drop(p, n) == SubSeq(p, n + 1, Len(p))
EvenUp(n) == n + (n % 2)

-----------------------------------------------------------------------------
(* Numbers *)

Digits == <<"0", "1", "2", "3", "4", "5", "6", "7", "8", "9", "*", "#", "A", "B", "C">>

(* Capital and small letters are the same digit. *)
pdu_digit2code(digit) == CHOOSE c \in 0..14 : Digits[c + 1] = digit

pdu_code2digit(code) == IF code < Filler THEN Digits[code + 1]
                        ELSE IF code = Filler THEN "end" ELSE "bad"

pdu_store_number(number) ==
  [i \in 1..EvenUp(Len(number)) |->
     IF i % 2 = 0 THEN pdu_digit2code(number[i - 1])
     ELSE IF i < Len(number) THEN pdu_digit2code(number[i + 1]) ELSE Filler]

NUMBER_TYPE_INTERNATIONAL == 145

-----------------------------------------------------------------------------
(* Packing of 7 bit characters; the packed text is a sequence of octets *)

(* A character stands at the bits its place gives it; the last one gets an *)
(* octet of its own even when the octet before it has taken all its bits.  *)
char_to_hexstr_7bit(in) ==
  LET n == Len(in)
      kept == SelectSeq([i \in 1..n |-> i - 1], LAMBDA i : i % 8 # 7 \/ i = n - 1)
      next(i) == IF i = n - 1 THEN 0 ELSE (in[i + 2] * 2^(7 - (i % 8))) % 256
  IN [k \in 1..Len(kept) |-> (in[kept[k] + 1] \div 2^(kept[k] % 8)) + next(kept[k])]

(* Every seventh octet ends with a whole character. *)
hexstr_7bit_to_char(octets) ==
  LET carry(i) == IF i % 7 = 1 THEN 0 ELSE octets[i - 1] \div 2^(8 - ((i - 1) % 7))
      chars(i) == <<(((octets[i] * 2^(((i - 1) % 7) + 1)) % 256) \div 2) + carry(i)>>
                  \o (IF i % 7 = 0 THEN <<octets[i] \div 2>> ELSE << >>)
  IN FlattenSeq([i \in 1..Len(octets) |-> chars(i)])

-----------------------------------------------------------------------------
(* Parsing; v is what is found, negative if nothing, p the rest of the PDU *)

pdu_parse_byte(p) ==
  IF Len(p) < 2 \/ p[1] = NotHex THEN [v |-> -1, p |-> p]
  ELSE IF p[2] = NotHex THEN [v |-> p[1], p |-> Drop(p, 1)]
  ELSE [v |-> 16 * p[1] + p[2], p |-> Drop(p, 2)]

(* A filler is good only in the last octet of an odd number of digits. A   *)
(* digit there is stored too and the number is then not terminated.        *)
pdu_parse_number(p, digits) ==
  LET toa == pdu_parse_byte(p)
      syms == EvenUp(digits)
      digit(i) == pdu_code2digit(toa.p[IF i % 2 = 1 THEN i + 1 ELSE i - 1])
      good(i) == digit(i) # "bad" /\ (digit(i) = "end" => i = syms /\ digits % 2 = 1)
      all == [i \in 1..syms |-> digit(i)]
      number == IF digits % 2 = 1 /\ all[syms] = "end" THEN SubSeq(all, 1, digits)
                ELSE IF digits % 2 = 1 THEN all \o <<"unterminated">> ELSE all
  IN IF /\ OaRoom >= digits + 1 /\ toa.v >= 0 /\ syms <= Len(toa.p)
        /\ \A i \in 1..syms : good(i)
     THEN [v |-> (IF toa.v = NUMBER_TYPE_INTERNATIONAL THEN <<"+">> ELSE << >>) \o number,
           p |-> Drop(toa.p, syms)]
     ELSE [v |-> << >>, p |-> p]

pdu_parse_sca(p) ==
  LET len == pdu_parse_byte(p)
  IN IF len.v >= 0 /\ 2 * len.v <= Len(len.p) THEN [v |-> 0, p |-> Drop(len.p, 2 * len.v)]
     ELSE [v |-> -1, p |-> p]

pdu_parse_timestamp(p) == IF Len(p) >= 14 THEN [v |-> 0, p |-> Drop(p, 14)]
                          ELSE [v |-> -1, p |-> p]

Alphabet(dcs) == (dcs \div 4) % 4
pdu_dcs_alpabet2encoding(alphabet) == <<"7BIT_HEX", "8BIT_HEX", "UCS2_HEX">>[alphabet + 1]

(* Mutant: the last, partly filled octet is not counted *)
UdOctets_RoundsDown(alphabet, udl) == IF alphabet = 0 THEN (udl * 7) \div 8 ELSE udl
UdOctets(alphabet, udl) == IF alphabet = 0 THEN ((udl + 1) * 7) \div 8 ELSE udl

HasHeader(type) == (type \div 64) % 2 = 1

(* The characters of the user data after the header, if there is one. *)
SkipHeader(type, p) ==
  LET udhl == pdu_parse_byte(p)
  IN IF ~HasHeader(type) THEN [v |-> 0, p |-> p]
     ELSE IF udhl.v >= 0 /\ Len(udhl.p) >= 2 * udhl.v THEN [v |-> 0, p |-> Drop(udhl.p, 2 * udhl.v)]
     ELSE [v |-> -1, p |-> p]

Refused == [ok |-> FALSE]

pdu_parse(pdu, tpdu_length) ==
  LET sca == pdu_parse_sca(pdu)
      type == pdu_parse_byte(sca.p)
      digits == pdu_parse_byte(type.p)
      oa == pdu_parse_number(digits.p, digits.v)
      pid == pdu_parse_byte(oa.p)
      dcs == pdu_parse_byte(pid.p)
      ts == pdu_parse_timestamp(dcs.p)
      udl == pdu_parse_byte(ts.p)
      ud == SkipHeader(type.v, udl.p)
  IN IF /\ sca.v >= 0 /\ Len(sca.p) = 2 * tpdu_length
        /\ type.v >= 0 /\ type.v % 4 = 0
        /\ digits.v > 0 /\ oa.v # << >>
        /\ pid.v = 0
        /\ dcs.v \in 0..31 /\ Alphabet(dcs.v) # 3
        /\ ts.v >= 0
        /\ udl.v >= 0 /\ Len(udl.p) = 2 * UdOctets(Alphabet(dcs.v), udl.v)
        /\ ud.v >= 0
     THEN [ok |-> TRUE, oa |-> oa.v, enc |-> pdu_dcs_alpabet2encoding(Alphabet(dcs.v)), msg |-> ud.p]
     ELSE Refused

(* What the dialplan gets as the text of a message in 7 bit characters or *)
(* UCS-2 (external: iconv); characters of one octet are copied.            *)
str_recode(enc, msg) ==
  LET octet(i) == 16 * msg[2 * i - 1] + msg[2 * i]
      octets == [i \in 1..(Len(msg) \div 2) |-> octet(i)]
  IN CASE enc = "7BIT_HEX" -> hexstr_7bit_to_char(octets)
       [] enc = "8BIT_HEX" -> octets
       [] OTHER -> [i \in 1..(Len(octets) \div 2) |-> 256 * octets[2 * i - 1] + octets[2 * i]]

-----------------------------------------------------------------------------
(* Building *)

DivUp(x, y) == (x + y - 1) \div y


pdu_relative_validity(minutes) ==
  IF minutes <= 720 THEN DivUp(minutes, 5) - 1
  ELSE IF minutes <= 1440 THEN DivUp(minutes, 30) + 119
  ELSE IF minutes <= 43200 THEN DivUp(minutes, 1440) + 166
  ELSE IF minutes <= 635040 THEN DivUp(minutes, 10080) + 192
  ELSE 255

(* Length of a text in UTF-8, which is what the limits are compared with. *)
Utf8Length(text) ==
  FoldLeft(LAMBDA n, c : n + (IF c < 128 THEN 1 ELSE IF c < 2048 THEN 2 ELSE 3), 0, text)

check_encoding(text) == IF \A i \in 1..Len(text) : text[i] < 128 THEN 0 ELSE 8

PduRoom == 2048

WithoutPlus(number) == IF number # << >> /\ Head(number) = "+" THEN Tail(number) ELSE number

(* The number of the service center is always empty, so the SCA is 00. *)
pdu_build(dst, text, minutes, srr) ==
  LET number == WithoutPlus(dst)
      size == Utf8Length(text)
      dcs == check_encoding(text)
      data == IF dcs = 0 THEN char_to_hexstr_7bit(text)
              ELSE FlattenSeq([i \in 1..Len(text) |-> <<text[i] \div 256, text[i] % 256>>])
      udl == IF dcs = 0 THEN size ELSE Len(data)
      type == 17 + (IF srr THEN 32 ELSE 0)
  IN IF \/ dcs = 8 /\ size > 70
        \/ size > 160
        \/ PduRoom < 2 + 8 + EvenUp(Len(number)) + 8 + 4 * size + 4
     THEN Refused
     ELSE [ok |-> TRUE, sca |-> Octet(0),
           tpdu |-> Octets(<<type, 0, Len(number), NUMBER_TYPE_INTERNATIONAL>>)
                    \o pdu_store_number(number)
                    \o Octets(<<0, dcs, pdu_relative_validity(minutes), udl>>)
                    \o Octets(data)]

(* The argument of AT+CMGS and the line that follows the prompt. *)
SubmitPdu(dst, text, minutes, srr) ==
  LET built == pdu_build(dst, text, IF minutes = 0 THEN 3 * 24 * 60 ELSE minutes, srr)
  IN IF ~built.ok THEN Refused
     ELSE [ok |-> TRUE, length |-> Len(built.tpdu) \div 2, pdu |-> built.sca \o built.tpdu]

-----------------------------------------------------------------------------
(* Reference: a packed text is one string of bits, lowest bits first *)

BitOf(values, width, b) ==
  IF b >= width * Len(values) THEN 0 ELSE (values[(b \div width) + 1] \div 2^(b % width)) % 2

Regroup(values, width, n, to) ==
  [k \in 1..n |-> MapThenSumSet(LAMBDA j : BitOf(values, width, to * (k - 1) + j) * 2^j, 0..(to - 1))]

Packed(text) == Regroup(text, 7, DivUp(7 * Len(text), 8), 8)
Unpacked(octets, n) == Regroup(octets, 8, n, 7)

(* Minutes a relative validity period stands for. *)
MinutesOf(vp) == CASE vp \in 0..143 -> (vp + 1) * 5
                   [] vp \in 144..167 -> 720 + (vp - 143) * 30
                   [] vp \in 168..196 -> (vp - 166) * 1440
                   [] OTHER -> (vp - 192) * 10080

IsSubmit(r, number, text, srr) ==
  LET o == [i \in 1..(Len(r.pdu) \div 2) |-> 16 * r.pdu[2 * i - 1] + r.pdu[2 * i]]
      h == 5 + DivUp(Len(number), 2)
      ud == SubSeq(o, h + 5, Len(o))
      semi(i) == IF i % 2 = 1 THEN o[6 + (i \div 2)] % 16 ELSE o[5 + (i \div 2)] \div 16
      ascii == \A i \in 1..Len(text) : text[i] < 128
  IN /\ o[1] = 0 /\ Len(o) = r.length + 1
     /\ o[2] = (IF srr THEN 49 ELSE 17) /\ o[4] = Len(number) /\ o[5] = 145
     /\ \A i \in 1..Len(number) : Digits[semi(i) + 1] = number[i]
     /\ Len(number) % 2 = 1 => semi(Len(number) + 1) = 15
     /\ o[h + 1] = 0 /\ o[h + 2] = (IF ascii THEN 0 ELSE 8)
     /\ IF ascii
        THEN /\ o[h + 4] = Len(text) /\ Unpacked(ud, Len(text)) = text
             /\ Len(ud) = DivUp(7 * Len(text), 8) + (IF text # << >> /\ Len(text) % 8 = 0 THEN 1 ELSE 0)
        ELSE /\ o[h + 4] = Len(ud) /\ Len(ud) = 2 * Len(text) /\ Len(ud) <= 140
             /\ \A i \in 1..Len(text) : text[i] = 256 * ud[2 * i - 1] + ud[2 * i]

(* A message as the network delivers it. *)
DeliverOctets(m) ==
  LET data == CASE m.alphabet = 0 -> Packed(m.text)
                [] m.alphabet = 1 -> m.text
                [] OTHER -> FlattenSeq([i \in 1..Len(m.text) |-> <<m.text[i] \div 256, m.text[i] % 256>>])
      header == IF m.udh = << >> THEN << >> ELSE <<Len(m.udh)>> \o m.udh
      udl == IF m.alphabet = 0 THEN Len(m.text) ELSE Len(header \o data)
  IN [head |-> <<IF m.udh = << >> THEN 4 ELSE 68, Len(m.oa), m.toa>>,
      tail |-> <<0, 4 * m.alphabet, 1, 33, 80, 34, 0, 64, 33, udl>> \o header \o data,
      data |-> data]

SemiOctets(number) ==
  FlattenSeq([i \in 1..DivUp(Len(number), 2) |->
    <<IF 2 * i > Len(number) THEN 15 ELSE CHOOSE c \in 0..14 : Digits[c + 1] = number[2 * i],
      CHOOSE c \in 0..14 : Digits[c + 1] = number[2 * i - 1]>>])

-----------------------------------------------------------------------------
(* Coder and parser against the reference, for all of the constants *)

(* What pdu_build makes is the SMS-SUBMIT asked for, octet by octet: the   *)
(* number, the text unpacked from the bits, the announced lengths, and the *)
(* shortest validity period that is long enough.  No text within the       *)
(* limits is refused.  One thing is different from the format described in *)
(* pdu.c: a 7 bit text of a multiple of eight characters is followed by an *)
(* octet 00 that its length does not count, a text of 160 characters takes *)
(* 141 octets.                                                             *)
CodesSubmit ==
  /\ \A number \in Numbers, text \in Texts, srr, plus \in BOOLEAN :
       LET r == SubmitPdu((IF plus THEN <<"+">> ELSE << >>) \o number, text, 0, srr)
       IN IF r.ok THEN IsSubmit(r, number, text, srr)
          ELSE Utf8Length(text) > (IF check_encoding(text) = 0 THEN 160 ELSE 70)
  /\ \A minutes \in Validities \ {0} :
       LET vp == pdu_relative_validity(minutes)
       IN /\ vp \in 0..255
          /\ MinutesOf(vp) >= minutes \/ vp = 255
          /\ vp > 0 => MinutesOf(vp - 1) < minutes

(* An SMS-DELIVER is parsed to its sender, its encoding and its text, with *)
(* and without a header of the user data, whatever the parity of the       *)
(* number and the fill bits of the packing; seven characters in the last   *)
(* seven octets give a NUL after the text.  When a character of the PDU is *)
(* lost the message is refused; when one is garbled it is refused, or the  *)
(* sender is right and the character not used or still seen in the text.   *)
ParsesDeliver ==
  \A oa \in Numbers, text \in Texts, toa \in {129, 145}, alphabet \in 0..2,
     udh \in {<< >>, <<5, 0>>}, sca \in {<< >>, <<145, 33, 243>>} :
    (/\ \A i \in 1..Len(text) : text[i] < <<128, 256, 65536>>[alphabet + 1]
     /\ alphabet = 0 => udh = << >> /\ Len(text) <= 160
     /\ alphabet # 0 => Len(text) * alphabet + 3 <= 140) =>
      LET m == [oa |-> oa, text |-> text, toa |-> toa, alphabet |-> alphabet, udh |-> udh]
          d == DeliverOctets(m)
          tpdu == Octets(d.head) \o SemiOctets(oa) \o Octets(d.tail)
          pdu == Octet(Len(sca)) \o Octets(sca) \o tpdu
          n == Len(tpdu) \div 2
          good == [ok |-> TRUE, oa |-> (IF toa = 145 THEN <<"+">> ELSE << >>) \o oa,
                   enc |-> <<"7BIT_HEX", "8BIT_HEX", "UCS2_HEX">>[alphabet + 1], msg |-> Octets(d.data)]
          bad(i) == pdu_parse(ReplaceAt(pdu, i, NotHex), n)
      IN /\ pdu_parse(pdu, n) = good
         /\ str_recode(good.enc, good.msg) =
              text \o (IF alphabet = 0 /\ Len(text) % 8 = 7 THEN <<0>> ELSE << >>)
         /\ Len(text) < 3 =>
              \A i \in 1..Len(pdu) :
                /\ ~pdu_parse(RemoveAt(pdu, i), n).ok
                /\ bad(i).ok => /\ bad(i).oa = good.oa /\ bad(i).enc = good.enc
                                /\ bad(i).msg = good.msg \/ Contains(bad(i).msg, NotHex)
=============================================================================
