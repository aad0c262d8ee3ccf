------------------------------- MODULE Mixer --------------------------------
(***************************************************************************)
(* What the audio side of a device promises to its calls, without buffers  *)
(* and positions: the samples the calls hand in are added up by the time   *)
(* they are to be heard, every call at its own pace; what is heard next is *)
(* taken from the front; a call that is too far ahead makes the oldest     *)
(* samples go, and of what no room could take the end is lost.             *)
(***************************************************************************)
EXTENDS Integers, Sequences, FiniteSetsExt

CONSTANTS Room,    \* how many samples may wait to be heard
          Frame,   \* how many are heard at a time
          Sample,  \* the values of a sample, an interval of the integers
          Stream,  \* the calls that can take part
          Input    \* what they can hand in: sequences of samples

VARIABLES mix,     \* the samples that wait, oldest first
          at,      \* how far every stream has got; -1: it does not take part
          frame    \* what the last step handed to the device, if anything

mvars == <<mix, at, frame>>

Saturated(x) == IF x > Max(Sample) THEN Max(Sample) ELSE IF x < Min(Sample) THEN Min(Sample) ELSE x
Zeros(n)  == [i \in 1 .. n |-> 0]
Front(s, n)  == SubSeq(s, 1, IF n < Len(s) THEN n ELSE Len(s))
Behind(s, n) == SubSeq(s, n + 1, Len(s))
Padded(s) == s \o Zeros(Frame - Len(s))

(* data added to s, the first sample behind the first k of s *)
Added(s, k, data) ==
  [i \in 1 .. Max({Len(s), k + Len(data)}) |->
     LET old == IF i <= Len(s) THEN s[i] ELSE 0
     IN  IF i > k /\ i <= k + Len(data) THEN Saturated(old + data[i - k]) ELSE old]

Init == mix = << >> /\ at = [c \in Stream |-> -1] /\ frame = << >>

Join(c) == at' = [at EXCEPT ![c] = 0] /\ frame' = << >> /\ UNCHANGED mix
Leave(c) == at' = [at EXCEPT ![c] = -1] /\ frame' = << >> /\ UNCHANGED mix

(* a new first call: nothing old is heard *)
Restart == (\A c \in Stream : at[c] = -1) /\ mix' = << >> /\ frame' = << >> /\ UNCHANGED at

Later(n) == [c \in Stream |-> IF at[c] > n THEN at[c] - n ELSE IF at[c] >= 0 THEN 0 ELSE -1]

HandIn(c, data) ==
  /\ at[c] >= 0 /\ frame' = << >>
  /\ LET tooMany == Max({0, at[c] + Len(data) - Room})
         ahead   == Later(tooMany)
         fits    == Front(data, Room)
     IN  /\ mix' = Added(Behind(mix, tooMany), ahead[c], fits)
         /\ at'  = [ahead EXCEPT ![c] = @ + Len(fits)]

Hear ==
  /\ frame' = Padded(Front(mix, Frame))
  /\ mix' = Behind(mix, Frame)
  /\ at' = Later(Frame)

(* a single call on a device without a timer is heard at once *)
HearAtOnce(data) == frame' = Padded(Front(data, Frame)) /\ UNCHANGED <<mix, at>>

(* calls come, go and change without a sound *)
Quiet == frame' = << >> /\ UNCHANGED <<mix, at>>

Next == \/ Restart \/ Hear \/ Quiet
        \/ \E c \in Stream : Join(c) \/ Leave(c)
        \/ \E c \in Stream, data \in Input : HandIn(c, data)
        \/ \E data \in Input : HearAtOnce(data)

Spec == Init /\ [][Next]_mvars
=============================================================================
