------------------------------ MODULE ReadPath ------------------------------
(***************************************************************************)
(* From the byte stream of the modem to the lines at_response handles:     *)
(* at_read, at_read_result_iov and at_read_result_classification in the    *)
(* loop of do_monitor_phone.                                               *)
(*                                                                         *)
(* The stream is a sequence of messages in the forms at_read.c expects.    *)
(* read() may end anywhere, in the middle of a line or of a line end.      *)
(* Keywords are shortened: "+M" is +CMGR:, "+L" is +CLCC: (or +CNUM:),     *)
(* "+G" is +CSSU:, +CMGS: or +CMS ERROR:, "+I" is +CSSI:, "a" any text.    *)
(* Only the monitor uses the buffer, so a level of the recursion of        *)
(* at_read_result_iov is an action of its own.                             *)
(***************************************************************************)
EXTENDS RingBuffer, SequencesExt

CONSTANTS Kinds,    \* kinds of messages the modem may send
          MaxSent,  \* bound on the messages of a stream
          CssiLen   \* length of a +CSSI code: 8 in the code, 3 for "+Ia"

CR == "r"
LF == "n"
CRLF == <<CR, LF>>
OKEnd == <<LF, CR, LF, "O", "K", CR, LF>>
SP == "s"
Bytes == {CR, LF, SP, "a", "O", "K", "+", ">", "M", "L", "G", "I"}

ASSUME ReadAssumption == Bytes \subseteq Byte /\ MaxSent \in Nat /\ CssiLen \in Nat \ {0}

(* The modem (external): what it sends for a message of a kind; the echo of  *)
(* a command has no line end in front of it                                  *)
Message(kind) ==
  CASE kind = "line"   -> CRLF \o <<"a">> \o CRLF
    [] kind = "prompt" -> CRLF \o <<">", SP>>
    [] kind = "cmgr"   -> CRLF \o <<"+", "M", "a">> \o CRLF \o CRLF \o <<"O", "K">> \o CRLF
    [] kind = "clcc"   -> CRLF \o <<"+", "L", "a">> \o CRLF \o CRLF \o <<"O", "K">> \o CRLF
    [] kind = "glued"  -> CRLF \o CRLF \o <<"+", "G", "a">> \o CRLF
    [] kind = "cssi"   -> CRLF \o <<"+", "I", "a">> \o CRLF \o CRLF \o <<"+", "G", "a">> \o CRLF
    [] kind = "echo"   -> <<"a", "a", CR>>
    [] kind = "long"   -> CRLF \o [i \in 1 .. Size |-> "a"] \o CRLF

(* The lines at_response is to get for it *)
OkLine == <<"O", "K", CR>>
Glued  == <<"+", "G", "a", CR>>
Lines(kind) ==
  CASE kind = "line"   -> << <<"a", CR>> >>
    [] kind = "prompt" -> << <<">", SP>> >>
    [] kind = "cmgr"   -> << <<"+", "M", "a", CR>> >>
    [] kind = "clcc"   -> << <<"+", "L", "a", CR>>, OkLine >>
    [] kind = "glued"  -> << Glued >>
    [] kind = "cssi"   -> << <<"+", "I", "a">>, Glued >>
    [] kind = "echo"   -> << >>
    [] kind = "long"   -> << [i \in 1 .. Size |-> "a"] \o <<CR>> >>

Stream(kinds) == FlattenSeq([i \in DOMAIN kinds |-> Message(kinds[i])])

(* The modem sends bytes *)
ASSUME ModemAssumption == \A kinds \in SeqOf(Kinds, MaxSent) : Stream(kinds) \in Seq(Byte)

VARIABLES sent,         \* the messages of the stream
          stream,       \* bytes that are not read yet
          rb,           \* the ring buffer
          read_result,  \* 0: in front of a line, 1: behind its first line end
          pc,           \* "wait": at_wait, at_read; "parse": looking for lines
          given,        \* lines handed to at_response
          cut           \* the stream was cut where the code cannot cope with it

vars == <<sent, stream, rb, read_result, pc, given, cut>>

Init ==
  /\ sent \in SeqOf(Kinds, MaxSent)
  /\ stream = Stream(sent)
  /\ rb = rb_init /\ read_result = 0
  /\ pc = "wait" /\ given = << >> /\ cut = FALSE

(* at_read: any number of the bytes that are there *)
at_read(n) ==
  /\ pc = "wait" /\ rb_free(rb) > 0
  /\ n \in 1 .. rb_free(rb) /\ n <= Len(stream)
  /\ rb' = Receive(rb, SubSeq(stream, 1, n))
  /\ stream' = SubSeq(stream, n + 1, Len(stream))
  /\ pc' = "parse"
  /\ UNCHANGED <<sent, read_result, given, cut>>

(* "at cmd receive buffer overflow": the monitor ends, the device is lost *)
Overflow ==
  /\ pc = "wait" /\ rb_free(rb) = 0
  /\ pc' = "dead"
  /\ UNCHANGED <<sent, stream, rb, read_result, given, cut>>

-----------------------------------------------------------------------------
(* at_read_result_iov: one level of the recursion.  Each action is a branch. *)

Parsing(state) == pc = "parse" /\ rb.used > 0 /\ read_result = state
Starts(mem) == rb_memcmp(rb, mem) = 0

Skip(n, state) ==
  /\ rb' = rb_read_upd(rb, n)
  /\ read_result' = state
  /\ UNCHANGED <<sent, stream, pc, given, cut>>

(* return 0: nothing to handle before the next read *)
NeedMore ==
  /\ pc' = "wait"
  /\ UNCHANGED <<sent, stream, rb, read_result, given>>

(* at_read_result_classification: the length a code takes off the buffer *)
Taken(n) ==
  CASE Starts(<<">", SP>>)  -> 2
    [] Starts(<<"+", "M">>) -> n + 7
    [] Starts(<<"+", "I">>) -> CssiLen
    [] OTHER -> n + 1

(* The line goes to at_response; read_result was reset *)
Give(iov) ==
  /\ iov # None
  /\ given' = Append(given, Text(rb, iov))
  /\ rb' = rb_read_upd(rb, Taken(iov.n0 + iov.n1))
  /\ read_result' = 0
  /\ UNCHANGED <<sent, stream, pc>>

LineStart ==
  /\ Parsing(0) /\ Starts(CRLF)
  /\ Skip(2, 1)

(* "multiline response" *)
SkipLf ==
  /\ Parsing(0) /\ rb_memcmp(rb, CRLF) = 1 /\ Starts(<<LF>>)
  /\ Skip(1, 0)

(* anything else in front of a line is dropped up to the next CR, or all *)
SkipGarbage ==
  /\ Parsing(0) /\ rb_memcmp(rb, CRLF) = 1 /\ ~Starts(<<LF>>)
  /\ LET iov == rb_read_until_char_iov(rb, CR)
     IN  Skip(IF iov # None THEN iov.n0 + iov.n1 + 1 ELSE rb.used, 0)

(* too short to tell, or empty *)
TooShort ==
  /\ pc = "parse"
  /\ rb.used = 0 \/ (read_result = 0 /\ rb_memcmp(rb, CRLF) = -1)
  /\ NeedMore /\ UNCHANGED cut

IsCssi  == Starts(<<"+", "I">>)
IsGlued == Starts(CRLF \o <<"+", "G">>)
IsPrompt == Starts(<<">", SP>>)
IsMulti == Starts(<<"+", "M">>) \/ Starts(<<"+", "L">>)

LineCssi ==
  /\ Parsing(1) /\ IsCssi
  /\ LET iov == rb_read_n_iov(rb, CssiLen) IN IF iov # None THEN Give(iov) ELSE NeedMore
  /\ UNCHANGED cut

LineGlued ==
  /\ Parsing(1) /\ IsGlued
  /\ Skip(2, 1)

LinePrompt ==
  /\ Parsing(1) /\ IsPrompt
  /\ Give(rb_read_n_iov(rb, 2)) /\ UNCHANGED cut

(* First cut: an answer of several lines is complete, but its end lies on    *)
(* both sides of the end of the buffer                                       *)
EndsAcross ==
  \E k \in 0 .. rb.used - Len(OKEnd) :
    /\ SubSeq(Content(rb), k + 1, k + Len(OKEnd)) = OKEnd
    /\ rb.read + k < Size /\ rb.read + k + Len(OKEnd) > Size

(* answers of several lines: all of it, up to the OK *)
LineMulti ==
  /\ Parsing(1) /\ IsMulti
  /\ LET iov == rb_read_until_mem_iov(rb, OKEnd)
     IN  IF iov # None THEN Give(iov)
         ELSE NeedMore
  /\ cut' = (cut \/ EndsAcross)

(* Second cut: the read ended between a line end and the code glued to it *)
EndsInGlue == /\ rb.used < Len(CRLF \o <<"+", "G">>)
              /\ Starts(CRLF)
              /\ IsPrefix(Content(rb), CRLF \o <<"+", "G">>)

(* Mutant: the CR is not part of the line *)
LineOther_NoCr ==
  /\ Parsing(1) /\ ~IsCssi /\ ~IsGlued /\ ~IsPrompt /\ ~IsMulti
  /\ LET iov == rb_read_until_mem_iov(rb, CRLF)
     IN  IF iov # None THEN Give(iov) ELSE NeedMore
  /\ cut' = (cut \/ EndsInGlue)

LineOther ==
  /\ Parsing(1) /\ ~IsCssi /\ ~IsGlued /\ ~IsPrompt /\ ~IsMulti
  /\ LET iov == rb_read_until_mem_iov(rb, CRLF)
     IN  IF iov # None THEN Give(rb_read_n_iov(rb, iov.n0 + iov.n1 + 1)) ELSE NeedMore
  /\ cut' = (cut \/ EndsInGlue)

Next ==
  \/ \E n \in 1 .. Size : at_read(n)
  \/ Overflow
  \/ LineStart \/ SkipLf \/ SkipGarbage \/ TooShort
  \/ LineCssi \/ LineGlued \/ LinePrompt \/ LineMulti \/ LineOther

Spec == Init /\ [][Next]_vars

-----------------------------------------------------------------------------
(* Properties *)

(* Every variable has its type, and the positions of the ring buffer agree.  *)
TypeOK ==
  /\ RingOK(rb) /\ stream \in Seq(Byte)
  /\ read_result \in {0, 1} /\ pc \in {"wait", "parse", "dead"}
  /\ cut \in BOOLEAN

(* What the parser will see next is the end of the stream: no byte is lost,  *)
(* doubled or displaced where the buffer wraps, wherever reads end.          *)
BytesInOrder ==
  LET rest == Content(rb) \o stream
      all  == Stream(sent)
  IN  /\ Len(rest) <= Len(all)
      /\ \A i \in 1 .. Len(rest) : rest[i] = all[Len(all) - Len(rest) + i]

AllLines == FlattenSeq([i \in DOMAIN sent |-> Lines(sent[i])])

(* at_response gets the lines of the stream, each once, whole and in order,  *)
(* wherever reads end and the buffer wraps, except at two places: between a  *)
(* line end and a code glued to it, and, for the buffer's end, inside the    *)
(* end of an answer of several lines.  No line that has arrived is held back *)
(* when the monitor goes to sleep.                                           *)
LinesExact ==
  ~cut => /\ IsPrefix(given, AllLines)
          /\ pc = "wait" /\ stream = << >> => given = AllLines

(* The device is given up for a full buffer only if a message does not fit.  *)
OverflowOnlyLong ==
  pc = "dead" /\ ~cut => \E i \in DOMAIN sent : Len(Message(sent[i])) > Size
=============================================================================
