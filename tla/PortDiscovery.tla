--------------------------- MODULE PortDiscovery ----------------------------
(***************************************************************************)
(* Finding the ports of a device that is configured by IMEI or IMSI: the   *)
(* passes of do_discovery over the devices that are not running, the       *)
(* search over the ports of all modems (pdiscovery_lookup), and the cache  *)
(* of what the modem on a port said of itself.                             *)
(*                                                                         *)
(* There is one discovery thread, so the cache needs no lock; but a        *)
(* question to a modem takes time, modems are swapped at any time, and     *)
(* what is remembered of a port grows old.  A port stands for the data,    *)
(* voice and command ports of one USB modem.                               *)
(***************************************************************************)
EXTENDS Integers, Sequences, SequencesExt

CONSTANTS Ports,      \* the ports in the order of the USB directory
          Devices,    \* the configured devices in the order of their list
          Want,       \* of every device: the imei and imsi it is configured with, or Null
          Modems,     \* modems: records of their imei and imsi (Null: no SIM card)
          Null,
          Interval,   \* discovery_interval
          AskTime,    \* the longest time a question takes: PDISCOVERY_TIMEOUT
          MaxSwaps,   \* bound on modems plugged, unplugged or exchanged
          MaxSignals  \* bound on the passes that are started early

VARIABLES
  plugged,  \* the modem on every port, or Null
  cache,    \* the cache: per port an item or NoItem
  running,  \* the port every device runs on, or Null
  dpc,      \* where the discovery thread is
  todo,     \* devices left in this pass; the first is being looked for
  ports,    \* ports left in this search; the first is being looked at
  info,     \* struct pdiscovery_info
  clock,    \* time left to sleep or, asking, time taken
  swaps, signals

searchVars == <<plugged, cache, running, dpc, todo, ports, info, clock, swaps, signals>>

Port == Range(Ports)
Dev  == Range(Devices)
Ids  == {"imei", "imsi"}
Freed == "freed"   \* a pointer to a string that was freed

ASSUME DiscoveryAssumption ==
  /\ {Interval, AskTime} \subseteq Nat \ {0} /\ {MaxSwaps, MaxSignals} \subseteq Nat
  /\ Ports \in Seq(Port) /\ IsInjective(Ports) /\ IsInjective(Devices)
  /\ \A d \in Dev : Want[d].imei # Null \/ Want[d].imsi # Null
  /\ Null # Freed /\ \A m \in Modems, i \in Ids : m[i] # Freed

(* The strings of an item or of info.  age: how long ago they were read.     *)
NoIds  == [i \in Ids |-> Null]
NoAges == [i \in Ids |-> 0]
Unknown == [id |-> NoIds, age |-> NoAges, missed |-> FALSE]

(* Mutant: an item is good for two intervals *)
Validity_Double == 2 * Interval

(* How long an item is good from its last update on *)
Validity == Interval

(* struct cache_item: left is the time until validtill, missed tells that a  *)
(* question to the modem was left unanswered since the item was made         *)
Item(ids, status, missed) ==
  [id |-> ids.id, age |-> ids.age, status |-> status, left |-> Validity, missed |-> missed]
NoItem == [Item(Unknown, 0, FALSE) EXCEPT !.left = -1]

SearchInit ==
  /\ plugged \in {f \in [Port -> Modems \cup {Null}] :
                  \A p, q \in Port : p # q /\ f[p] = f[q] => f[p] = Null}
  /\ cache = [p \in Port |-> NoItem]
  /\ running = [d \in Dev |-> Null]
  /\ dpc = "sleep" /\ todo = << >> /\ ports = << >>
  /\ info = Unknown
  /\ clock = 0 /\ swaps = 0 /\ signals = 0

-----------------------------------------------------------------------------
(* The cache *)

(* cache_search: an item that is out of date is removed *)
cache_search(p) == IF cache[p].left > 0 THEN cache[p] ELSE NoItem

Wanted(d) == {i \in Ids : Want[d][i] # Null}
Known(ids) == {i \in Ids : ids[i] # Null}

(* cache_lookup: is all that is wanted known? *)
CacheHit(d, item) == item # NoItem /\ Wanted(d) \subseteq Known(item.id)

(* Mutant: only what answers the question is copied *)
CacheInfo_IfHit(d, item) ==
  IF CacheHit(d, item) THEN [id |-> item.id, age |-> item.age, missed |-> item.missed] ELSE Unknown

(* cache_lookup: what is known is copied in any case *)
CacheInfo(d, item) == [id |-> item.id, age |-> item.age, missed |-> item.missed]

(* cache_item_update: the old strings are freed, the pointers are only set   *)
(* if there are new ones                                                     *)
cache_item_update(item, ids, status, missed) ==
  [Item(ids, status, missed) EXCEPT !.id =
     [i \in Ids |-> IF ids.id[i] # Null THEN ids.id[i]
                    ELSE IF item.id[i] # Null THEN Freed ELSE Null]]

cache_update(p, ids, status, missed) ==
  [cache EXCEPT ![p] = IF cache_search(p) = NoItem THEN Item(ids, status, missed)
                       ELSE cache_item_update(cache_search(p), ids, status, missed)]

-----------------------------------------------------------------------------
(* The discovery thread *)

Idle(d) == running[d] = Null

(* a pass over the devices begins: the sleep is over, or a signal ends it *)
PassBegins ==
  /\ dpc = "sleep"
  /\ \/ clock = 0 /\ UNCHANGED signals
     \/ clock > 0 /\ signals < MaxSignals /\ signals' = signals + 1
  /\ dpc' = "search" /\ clock' = 0
  /\ todo' = SelectSeq(Devices, Idle) /\ ports' = Ports
  /\ UNCHANGED <<plugged, cache, running, info, swaps>>

PassEnds ==
  /\ dpc = "search" /\ todo = << >>
  /\ dpc' = "sleep" /\ clock' = Interval
  /\ ports' = << >>
  /\ UNCHANGED <<plugged, cache, running, todo, info, swaps, signals>>

ThisDev  == Head(todo)
ThisPort == Head(ports)

(* Mutant: a device that is not found ends the pass *)
SearchFails_EndsPass ==
  /\ dpc = "search" /\ todo # << >> /\ ports = << >>
  /\ todo' = << >> /\ ports' = Ports
  /\ UNCHANGED <<plugged, cache, running, dpc, info, clock, swaps, signals>>

(* pdiscovery_req has looked at all ports *)
SearchFails ==
  /\ dpc = "search" /\ todo # << >> /\ ports = << >>
  /\ todo' = Tail(todo) /\ ports' = Ports
  /\ UNCHANGED <<plugged, cache, running, dpc, info, clock, swaps, signals>>

Busy(p) == \E d \in Dev : running[d] = p

(* pdiscovery_check_device, pdiscovery_read_info: no known modem, or its      *)
(* data port is locked                                                        *)
PortSkipped ==
  /\ dpc = "search" /\ todo # << >> /\ ports # << >>
  /\ plugged[ThisPort] = Null \/ Busy(ThisPort)
  /\ ports' = Tail(ports)
  /\ UNCHANGED <<plugged, cache, running, dpc, todo, info, clock, swaps, signals>>

(* pdiscovery_check_req: is this the modem that was asked for?  (info is      *)
(* freed here; it is kept in "start" for the properties.)                     *)
Judge(status, ids) ==
  IF status = 0 /\ \A i \in Wanted(ThisDev) : ids.id[i] = Want[ThisDev][i]
  THEN dpc' = "start" /\ info' = ids /\ UNCHANGED ports
  ELSE dpc' = "search" /\ info' = Unknown /\ ports' = Tail(ports)

(* cache_lookup, then the answer, or the question to the modem *)
PortLookup ==
  /\ dpc = "search" /\ todo # << >> /\ ports # << >>
  /\ plugged[ThisPort] # Null /\ ~Busy(ThisPort)
  /\ LET item == cache_search(ThisPort)
     IN  /\ cache' = [cache EXCEPT ![ThisPort] = item]
         /\ IF CacheHit(ThisDev, item) THEN Judge(item.status, CacheInfo(ThisDev, item))
            ELSE dpc' = "ask" /\ info' = CacheInfo(ThisDev, item) /\ UNCHANGED ports
  /\ clock' = 0
  /\ UNCHANGED <<plugged, running, todo, swaps, signals>>

Asked == Wanted(ThisDev) \ Known(info.id)

(* What was told is now known, as of now *)
Learnt(told) ==
  [id  |-> [i \in Ids |-> IF i \in told THEN plugged[ThisPort][i] ELSE info.id[i]],
   age |-> [i \in Ids |-> IF i \in told THEN 0 ELSE info.age[i]],
   missed |-> info.missed]

Told(told, status) ==
  LET missed == info.missed \/ Asked \ told # {}
  IN  /\ cache' = cache_update(ThisPort, Learnt(told), status, missed)
      /\ Judge(status, [Learnt(told) EXCEPT !.missed = missed])
      /\ UNCHANGED <<plugged, running, todo, clock, swaps, signals>>

(* pdiscovery_get_info: AT+CIMI, ATI or both, only for what is not known yet. *)
(* The modem (external) tells what it has and OK, or nothing of its SIM and   *)
(* ERROR; both are success.                                                   *)
AskSucceeds ==
  /\ dpc = "ask" /\ plugged[ThisPort] # Null
  /\ Told(Asked \cap Known(plugged[ThisPort]), 0)

(* opening, writing or reading fails, or the answer does not come in one      *)
(* piece in time; the first piece may have told the IMEI                      *)
AskFails ==
  /\ dpc = "ask"
  /\ \/ Told({}, -1)
     \/ /\ plugged[ThisPort] # Null /\ "imei" \in Asked \cap Known(plugged[ThisPort])
        /\ Told({"imei"}, -1)

(* pvt_start goes on: the ports can be opened and the monitor runs, or not *)
Start ==
  /\ dpc = "start"
  /\ running' = [running EXCEPT ![ThisDev] = IF plugged[ThisPort] # Null THEN ThisPort ELSE Null]
  /\ dpc' = "search" /\ todo' = Tail(todo) /\ ports' = Ports /\ info' = Unknown
  /\ UNCHANGED <<plugged, cache, clock, swaps, signals>>

-----------------------------------------------------------------------------
(* Time and the world *)

(* Ages are counted up to one more than the properties tell apart *)
OldAge == 2 * Interval + AskTime - 1
Older(ids) ==
  [ids EXCEPT !.age = [i \in Ids |-> IF ids.id[i] # Null /\ @[i] < OldAge THEN @[i] + 1 ELSE @[i]]]

(* A search that does not ask takes no time *)
Tick ==
  /\ \/ dpc = "sleep" /\ clock > 0 /\ clock' = clock - 1
     \/ dpc = "ask" /\ clock < AskTime /\ clock' = clock + 1
  /\ cache' = [p \in Port |-> IF cache[p].left > 0
                 THEN [Older(cache[p]) EXCEPT !.left = @ - 1] ELSE cache[p]]
  /\ info' = Older(info)
  /\ UNCHANGED <<plugged, running, dpc, todo, ports, swaps, signals>>

(* A modem is plugged, unplugged or exchanged; a device that ran there stops *)
Swap(p, m) ==
  /\ swaps < MaxSwaps /\ swaps' = swaps + 1
  /\ m # plugged[p] /\ \A q \in Port : m # Null => plugged[q] # m
  /\ plugged' = [plugged EXCEPT ![p] = m]
  /\ running' = [d \in Dev |-> IF running[d] = p THEN Null ELSE running[d]]
  /\ UNCHANGED <<cache, dpc, todo, ports, info, clock, signals>>

Thread == \/ PassBegins \/ PassEnds \/ SearchFails \/ PortSkipped \/ PortLookup
          \/ AskSucceeds \/ AskFails \/ Start

SearchNext == \/ Thread \/ Tick
        \/ \E p \in Port, m \in Modems \cup {Null} : Swap(p, m)

SearchSpec == SearchInit /\ [][SearchNext]_searchVars

(* The thread goes on, time passes while it sleeps, and a modem that is asked *)
(* again and again by a device answers it some time                           *)
FairSearchSpec ==
  /\ SearchSpec /\ WF_searchVars(Thread) /\ WF_searchVars(dpc = "sleep" /\ Tick)
  /\ \A d \in Dev, p \in Port :
       SF_searchVars(AskSucceeds /\ ThisDev = d /\ ThisPort = p)

-----------------------------------------------------------------------------
(* Properties *)

(* No item of the cache and no answer refers to a string that was freed:      *)
(* cache_item_update frees what an item knows without forgetting it, which is *)
(* safe only because whoever updates an item has copied all of it before,     *)
(* also if the item went out of date meanwhile.                               *)
NoDanglingId ==
  Freed \notin {info.id[i] : i \in Ids} \cup {cache[p].id[i] : p \in Port, i \in Ids}

(* A device is started on a port because of what the modem there said of      *)
(* itself less than two intervals ago: what is known of the IMEI is kept when *)
(* the IMSI is asked for later, but only once.  Excepted: modems that left    *)
(* such a question unanswered.                                                *)
IdentityFresh ==
  dpc = "start" /\ ~info.missed =>
    \A i \in Wanted(ThisDev) : info.age[i] <= 2 * Interval + AskTime - 2

(* The modem a device wants is plugged in and no other device uses it *)
Present(d) == \E p \in Port :
  /\ plugged[p] # Null /\ \A e \in Dev \ {d} : running[e] # p
  /\ \A i \in Wanted(d) : plugged[p][i] = Want[d][i]

(* A device whose modem stays plugged in, and is not used by another device,  *)
(* runs in the end, whatever was remembered of the modems before it and       *)
(* whichever questions failed.                                                *)
FoundEventually == \A d \in Dev : <>[]Present(d) => <>[](running[d] # Null)
=============================================================================
