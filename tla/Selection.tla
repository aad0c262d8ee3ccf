----------------------------- MODULE Selection ------------------------------
(***************************************************************************)
(* Which device a dial string names: find_device_by_resource_ex as         *)
(* operators.  list is the order in which the list of devices is walked,   *)
(* match the devices the resource fits, able those for which can_dial      *)
(* answers yes at the moment they are asked, used the devices whose flag   *)
(* group_last_used, prov_last_used or sim_last_used is set.                *)
(***************************************************************************)
EXTENDS Integers, Sequences, FiniteSetsExt

CONSTANTS MaxItems,  \* ITEMS_OF(state->round_robin)
          Null       \* the null pointer

ASSUME SelectionAssumption == MaxItems \in Nat \ {0}

(* "g<group>", "i:<imei>" and names: the first device that fits and can dial *)
FirstMatch(list, match, able) ==
  LET hits == {i \in DOMAIN list : list[i] \in match \cap able}
  IN  IF hits = {} THEN Null ELSE list[Min(hits)]

(* state->round_robin: the devices that fit, as many as the array holds *)
Candidates(list, match) ==
  LET fit[n \in 0 .. Len(list)] ==
        IF n = 0 THEN << >>
        ELSE IF list[n] \in match /\ Len(fit[n - 1]) < MaxItems
             THEN Append(fit[n - 1], list[n]) ELSE fit[n - 1]
  IN  fit[Len(list)]

(* last_used, counted from 1: the last flag that is set, or the first device *)
LastUsed(cands, used) ==
  LET set == {i \in DOMAIN cands : cands[i] \in used}
  IN  IF set = {} THEN 1 ELSE Max(set)

(* The i-th device that is asked, i from 0 *)
Probe(cands, used, i) == cands[((LastUsed(cands, used) + i) % Len(cands)) + 1]

(* Mutant: the search starts at the last used device itself *)
RoundRobin_StartsAtLast(list, match, used, able) ==
  LET cands == Candidates(list, match)
      at(i) == cands[((LastUsed(cands, used) - 1 + i) % Len(cands)) + 1]
      hits  == {i \in 0 .. Len(cands) - 1 : at(i) \in able}
  IN  IF hits = {} THEN Null ELSE at(Min(hits))

(* "r<group>", "p:<provider>" and "s:<imsi>": start behind the last used one *)
RoundRobin(list, match, used, able) ==
  LET cands == Candidates(list, match)
      hits  == {i \in 0 .. Len(cands) - 1 : Probe(cands, used, i) \in able}
  IN  IF hits = {} THEN Null ELSE Probe(cands, used, Min(hits))

(* The flags after the search: cleared on every candidate, also when none is *)
(* found, and set on the one that is                                         *)
UsedAfter(list, match, used, found) ==
  LET cands == Candidates(list, match)
  IN  (used \ {cands[i] : i \in DOMAIN cands}) \cup ({found} \ {Null})
=============================================================================
