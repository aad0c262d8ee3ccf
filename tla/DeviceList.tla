----------------------------- MODULE DeviceList -----------------------------
(***************************************************************************)
(* The list of devices and how the discovery thread takes devices off it.  *)
(*                                                                         *)
(* AST_LIST is an intrusive singly linked list: a device holds ONE link,   *)
(* pvt->entry.next.  do_discovery collects the devices to remove on a      *)
(* second list, `removed', that uses the same link, so the lists are       *)
(* modelled at the level of their pointers.                                *)
(*                                                                         *)
(* Actors: the discovery thread, walking the list under the read lock and  *)
(* unlinking under the write lock, and an operator (CLI, manager, reload)  *)
(* or an Asterisk thread that looks a device up, by name or by what the    *)
(* dial string asks for, schedules its removal, dials, or adds a device.   *)
(***************************************************************************)
EXTENDS Selection, SequencesExt

CONSTANTS Dev,        \* devices (struct pvt objects)
          Loaded,     \* the devices of the configuration, in order
          Removable,  \* devices the operator may remove
          Rotations,  \* round-robin resources: [kind |-> whose flag, match |-> devices]
          Firsts      \* other resources: the devices that fit

VARIABLES
  next,           \* pvt->entry.next
  first, last,    \* state->devices
  rfirst, rlast,  \* removed
  alloc,          \* devices that are allocated
  desired,        \* pvt->desired_state: "started" or "removed" (restart_time NOW)
  dpc,            \* where the discovery thread is
  cur, prev, rm,  \* its loop variables
  cli, dials,     \* the device that was found and locked; was it to dial?
  used,           \* the flags group_last_used, prov_last_used, sim_last_used by kind
  watch, passed   \* a device, and how often a rotation passed it over in a row

listvars == <<next, first, last>>
selvars == <<used, watch, passed>>
discvars == <<rfirst, rlast, desired, dpc, cur, prev, rm>>
vars == <<listvars, alloc, discvars, cli, dials, selvars>>

Kinds == {r.kind : r \in Rotations}

ASSUME DeviceListAssumption ==
  /\ IsFiniteSet(Dev) /\ Null \notin Dev
  /\ Removable \subseteq Dev
  /\ Loaded \in Seq(Dev)
  /\ \A i, j \in DOMAIN Loaded : Loaded[i] = Loaded[j] => i = j
  /\ \A r \in Rotations : r.match \subseteq Dev
  /\ \A r, s \in Rotations : r.kind = "group" /\ s.kind = "group"   \* a device is in one group
                               => r.match = s.match \/ r.match \cap s.match = {}
  /\ Firsts \subseteq SUBSET Dev

N == Len(Loaded)

(* reload_config at load time inserted the configured devices in order *)
Init ==
  /\ next = [d \in Dev |->
       IF \E i \in 1 .. N - 1 : Loaded[i] = d
       THEN Loaded[(CHOOSE i \in 1 .. N - 1 : Loaded[i] = d) + 1] ELSE Null]
  /\ first = (IF N = 0 THEN Null ELSE Loaded[1])
  /\ last = (IF N = 0 THEN Null ELSE Loaded[N])
  /\ rfirst = Null /\ rlast = Null
  /\ alloc = {Loaded[i] : i \in 1 .. N}
  /\ desired = [d \in Dev |-> "started"]
  /\ dpc = "sleep" /\ cur = Null /\ prev = Null /\ rm = Null
  /\ cli = Null /\ dials = FALSE
  /\ used = [k \in Kinds |-> {}]
  /\ watch \in Dev /\ passed = 0

(* The devices a traversal of the list meets, in order *)
List ==
  LET walk[n \in 0 .. Cardinality(Dev)] ==
        IF n = 0 THEN << >>
        ELSE LET w == walk[n - 1]
                 d == IF w = << >> THEN first ELSE next[Last(w)]
             IN  IF d = Null \/ Contains(w, d) THEN w ELSE Append(w, d)
  IN  walk[Cardinality(Dev)]
Listed == ToSet(List)

-----------------------------------------------------------------------------
(* The discovery thread *)

(* top of the loop: AST_RWLIST_RDLOCK *)
ScanBegins ==
  /\ dpc = "sleep"
  /\ dpc' = "scan" /\ cur' = first
  /\ UNCHANGED <<listvars, rfirst, rlast, alloc, desired, prev, rm, cli, dials, selvars>>

(* a device that is not to be removed (its start and stop: Lifecycle) *)
ScanKeeps ==
  /\ dpc = "scan" /\ cur # Null /\ cli # cur
  /\ desired[cur] = "started"
  /\ cur' = next[cur]
  /\ UNCHANGED <<listvars, rfirst, rlast, alloc, desired, dpc, prev, rm, cli, dials, selvars>>

(* AST_LIST_INSERT_TAIL(&removed, pvt, entry): the macro sets the link of the *)
(* last element and never the link of the new one                             *)
ScanCollects ==
  /\ dpc = "scan" /\ cur # Null /\ cli # cur
  /\ desired[cur] = "removed"
  /\ rfirst' = IF rfirst = Null THEN cur ELSE rfirst
  /\ next' = IF rfirst = Null THEN next ELSE [next EXCEPT ![rlast] = cur]
  /\ rlast' = cur
  /\ cur' = next'[cur]
  /\ passed' = 0
  /\ UNCHANGED <<first, last, alloc, desired, dpc, prev, rm, cli, dials, used, watch>>

(* Mutant: what was collected is not removed *)
ScanEnds_Sleeps ==
  /\ dpc = "scan" /\ cur = Null
  /\ dpc' = "sleep"
  /\ UNCHANGED <<listvars, rfirst, rlast, alloc, desired, cur, prev, rm, cli, dials, selvars>>

(* end of the traversal: read lock released, write lock taken *)
ScanEnds ==
  /\ dpc = "scan" /\ cur = Null
  /\ dpc' = "take"
  /\ UNCHANGED <<listvars, rfirst, rlast, alloc, desired, cur, prev, rm, cli, dials, selvars>>

(* AST_RWLIST_REMOVE_HEAD(&removed, entry) *)
TakeRemoved ==
  /\ dpc = "take" /\ rfirst # Null
  /\ rm' = rfirst
  /\ rfirst' = next[rfirst]
  /\ next' = [next EXCEPT ![rfirst] = Null]
  /\ rlast' = IF rlast = rfirst THEN Null ELSE rlast
  /\ dpc' = "walk" /\ cur' = first /\ prev' = Null
  /\ passed' = 0
  /\ UNCHANGED <<first, last, alloc, desired, cli, dials, used, watch>>

(* AST_RWLIST_TRAVERSE_SAFE over the devices: another device *)
WalkSkips ==
  /\ dpc = "walk" /\ cur # Null /\ cur # rm
  /\ prev' = cur /\ cur' = next[cur]
  /\ UNCHANGED <<listvars, rfirst, rlast, alloc, desired, dpc, rm, cli, dials, selvars>>

(* Mutant: freed without being unlinked *)
WalkUnlinks_FreesOnly ==
  /\ dpc = "walk" /\ cur # Null /\ cur = rm /\ cli # cur
  /\ cur' = next[cur]
  /\ alloc' = alloc \ {cur}
  /\ passed' = 0
  /\ UNCHANGED <<listvars, rfirst, rlast, desired, dpc, prev, rm, cli, dials, used, watch>>

(* AST_RWLIST_REMOVE_CURRENT and pvt_free, under the device's lock; the       *)
(* traversal goes on behind it                                                *)
WalkUnlinks ==
  /\ dpc = "walk" /\ cur # Null /\ cur = rm /\ cli # cur
  /\ LET after == next[cur]
     IN  /\ next' = [d \in Dev |-> IF d = cur THEN Null
                                   ELSE IF d = prev THEN after ELSE next[d]]
         /\ first' = IF prev = Null THEN after ELSE first
         /\ last' = IF after = Null THEN prev ELSE last
         /\ cur' = after
  /\ alloc' = alloc \ {cur}
  /\ passed' = 0
  /\ UNCHANGED <<rfirst, rlast, desired, dpc, prev, rm, cli, dials, used, watch>>

WalkEnds ==
  /\ dpc = "walk" /\ cur = Null
  /\ dpc' = "take"
  /\ UNCHANGED <<listvars, rfirst, rlast, alloc, desired, cur, prev, rm, cli, dials, selvars>>

(* nothing left to remove: write lock released, sleep(discovery_interval) *)
TakeEnds ==
  /\ dpc = "take" /\ rfirst = Null
  /\ dpc' = "sleep" /\ rm' = Null /\ prev' = Null
  /\ UNCHANGED <<listvars, rfirst, rlast, alloc, desired, cur, cli, dials, selvars>>

-----------------------------------------------------------------------------
(* The operator and Asterisk *)

ReadLockFree == dpc \in {"sleep", "scan"}

Found(d, dial) ==
  /\ cli = Null /\ ReadLockFree
  /\ cli' = d /\ dials' = dial
  /\ UNCHANGED <<listvars, alloc, discvars, watch>>

(* find_device_ex: walk the list under the read lock, return a locked device *)
FindDevice(d) ==
  /\ d \in Listed
  /\ Found(d, FALSE)
  /\ UNCHANGED <<used, passed>>

(* find_device_by_resource_ex for a name, an IMEI or "g<group>" *)
DialFirst(match, able) ==
  /\ FirstMatch(List, match, able) # Null
  /\ Found(FirstMatch(List, match, able), TRUE)
  /\ UNCHANGED <<used, passed>>

(* ... and for a resource that is used in turn.  Each device is asked under  *)
(* its own lock, the list stays locked; so able may be any set.              *)
DialNext(r, able) ==
  LET d == RoundRobin(List, r.match, used[r.kind], able)
      skipped == /\ r.kind = "group" /\ watch \in able \ {d}
                 /\ Contains(Candidates(List, r.match), watch)
  IN  /\ Found(d, d # Null)
      /\ used' = [used EXCEPT ![r.kind] = UsedAfter(List, r.match, @, d)]
      /\ passed' = IF skipped THEN passed + 1
                   ELSE IF watch \in r.match /\ r.kind = "group" THEN 0 ELSE passed

(* channel_request has made the channel, or an application has queued its     *)
(* command: the device is unlocked                                            *)
DialDone ==
  /\ cli # Null /\ dials
  /\ cli' = Null /\ dials' = FALSE
  /\ UNCHANGED <<listvars, alloc, discvars, selvars>>

(* schedule_restart_event with DEV_STATE_REMOVED, then unlock *)
ScheduleRemove ==
  /\ cli # Null /\ ~dials
  /\ desired' = IF cli \in Removable THEN [desired EXCEPT ![cli] = "removed"] ELSE desired
  /\ cli' = Null
  /\ UNCHANGED <<listvars, rfirst, rlast, alloc, dpc, cur, prev, rm, dials, selvars>>

(* reload_config: a device of the configuration that find_device does not    *)
(* find is created and appended under the write lock                         *)
AddDevice(d) ==
  /\ cli = Null /\ dpc = "sleep"
  /\ d \notin alloc
  /\ alloc' = alloc \cup {d}
  /\ desired' = [desired EXCEPT ![d] = "started"]
  /\ next' = [e \in Dev |-> IF e = d THEN Null ELSE IF e = last /\ first # Null THEN d ELSE next[e]]
  /\ first' = IF first = Null THEN d ELSE first
  /\ last' = d
  /\ used' = [k \in Kinds |-> used[k] \ {d}]
  /\ passed' = 0
  /\ UNCHANGED <<rfirst, rlast, dpc, cur, prev, rm, cli, dials, watch>>

Discovery == \/ ScanBegins \/ ScanKeeps \/ ScanCollects \/ ScanEnds
             \/ TakeRemoved \/ WalkSkips \/ WalkUnlinks \/ WalkEnds \/ TakeEnds

Next == \/ Discovery \/ ScheduleRemove \/ DialDone
        \/ \E d \in Dev : FindDevice(d) \/ AddDevice(d)
        \/ \E match \in Firsts : \E able \in SUBSET match : DialFirst(match, able)
        \/ \E r \in Rotations : \E able \in SUBSET r.match : DialNext(r, able)

Spec == Init /\ [][Next]_vars

(* The discovery thread never stops looping, whoever locked a device         *)
(* releases it, and commands come seldom enough that the discovery thread    *)
(* gets a lock it waits for.                                                 *)
FairSpec == Spec /\ SF_vars(Discovery) /\ WF_vars(ScheduleRemove) /\ WF_vars(DialDone)

-----------------------------------------------------------------------------
Ptr == Dev \cup {Null}

(* Every variable has its type, and between two passes the list is well      *)
(* formed: `last' ends it and is what the next insertion links behind.       *)
TypeOK ==
  /\ next \in [Dev -> Ptr]
  /\ {first, last, rfirst, rlast, cur, prev, rm, cli, watch} \subseteq Ptr
  /\ alloc \subseteq Dev
  /\ desired \in [Dev -> {"started", "removed"}]
  /\ dpc \in {"sleep", "scan", "take", "walk"}
  /\ dpc = "sleep" /\ first # Null => last \in Listed /\ next[last] = Null

(* "Remove datacard <device>" takes that device off the list and no other:   *)
(* a device nobody removed stays reachable for dialling, CLI and unload.     *)
NoDeviceLost == dpc = "sleep" => alloc \subseteq Listed

(* No thread holds, and no list reaches, a device that was freed. *)
NoUseAfterFree ==
  {cli, cur, prev, first} \ {Null} \subseteq alloc /\ Listed \subseteq alloc

(* A device whose removal was scheduled leaves the list, however often the   *)
(* operator looks devices up, adds others or removes others meanwhile.       *)
RemovalHappens == \A d \in Dev : (desired[d] = "removed" /\ d \in Listed) ~> d \notin Listed

(* "mark the last used device": a device that can dial whenever a call is    *)
(* requested for its group gets one of as many calls as the group has        *)
(* devices, whichever of the others can dial and whatever other rotations    *)
(* and failed requests happen in between (counted anew when the list changes)*)
RotationFair ==
  LET mates == {d \in Listed : \E r \in Rotations : r.kind = "group" /\ {watch, d} \subseteq r.match}
  IN  passed = 0 \/ passed < Cardinality(mates)
=============================================================================
