---------------------------- MODULE ModemProofs -----------------------------
(***************************************************************************)
(* Proofs about what the driver believes of the modem of a device: which   *)
(* one it is (PortDiscovery) and how it is set (Session).                  *)
(*                                                                         *)
(* PortDiscovery, for all ports, devices, modems, intervals and time       *)
(* limits.  cache_item_update frees the strings of an item and keeps the   *)
(* pointers it has no new string for.  That never shows because the thread *)
(* asks only after it has copied all the item knows, and asks only for the *)
(* rest (AskInv).  And an item is good for Interval from its last update   *)
(* on, but every update that leaves nothing unanswered adds an identifier, *)
(* and there are two: so no identifier is renewed more than once (ItemInv).*)
(*                                                                         *)
(* Session, for all settings, messages and bounds.  BeliefsHold is about a *)
(* device that is ready; what makes it true is collected on the way there. *)
(* The invariant names a stage: the initialization is queued from command  *)
(* k of InitList on (from the first one, or from AT+CMGF after AT^CVOICE?  *)
(* failed) and s commands of the list were handled; it says where the task *)
(* is (Placed) and what is known of the modem by then (Believed).  Between *)
(* a command and the handling of its answer the modem has changed already; *)
(* Wire says what the answer that is under way tells of it (Effect).       *)
(***************************************************************************)
EXTENDS PortDiscovery, Session, TLAPS, SequenceTheorems

-----------------------------------------------------------------------------
(* The modem that is found *)

(* A string a modem told, or none: not a freed one *)
Values == {m[i] : m \in Modems, i \in Ids} \cup {Null}
Infos  == [id : [Ids -> Values], age : [Ids -> Nat], missed : BOOLEAN]
Items  == [id : [Ids -> Values], age : [Ids -> Nat], status : Int, left : Int, missed : BOOLEAN]

SearchTypes ==
  /\ cache \in [Port -> Items] /\ info \in Infos
  /\ plugged \in [Port -> Modems \cup {Null}]
  /\ ports \in Seq(Port) /\ (dpc = "ask" => ports # << >>)
  /\ dpc \in {"sleep", "search", "ask", "start"} /\ clock \in Nat

(* How old what is known may get while an item is good: what was told at the *)
(* first question can be renewed by one more                                 *)
Limit(ids) == IF Known(ids) = Ids THEN 2 * Interval + AskTime - 1 ELSE Interval

GoodItem(item) ==
  item.left > 0 /\ ~item.missed =>
    \A i \in Known(item.id) : item.age[i] + item.left <= Limit(item.id)
ItemInv == \A p \in Port : GoodItem(cache[p])

(* While the modem on a port is asked: all that the item of the port knows is *)
(* known already, something else is asked for, and nothing is out of date     *)
AskInv == dpc = "ask" =>
  /\ clock <= AskTime
  /\ cache[ThisPort].left > 0 => Known(cache[ThisPort].id) \subseteq Known(info.id)
  /\ Known(info.id) # {} => Asked # {}
  /\ ~info.missed => \A i \in Known(info.id) : info.age[i] <= Interval - 1 + clock

SearchInv == SearchTypes /\ ItemInv /\ AskInv /\ IdentityFresh

-----------------------------------------------------------------------------
(* The strings that are not freed. *)
LEMMA ValuesClean == /\ Freed \notin Values /\ Null \in Values
                     /\ \A m \in Modems, i \in Ids : m[i] \in Values
  BY DiscoveryAssumption DEF Values

(* The time constants. *)
LEMMA TimesType == Interval \in Nat \ {0} /\ AskTime \in Nat \ {0}
  BY DiscoveryAssumption

(* NoItem and Unknown have their types and know nothing. *)
LEMMA Empties == /\ NoItem \in Items /\ Known(NoItem.id) = {} /\ NoItem.left = -1
                 /\ Unknown \in Infos /\ Known(Unknown.id) = {}
<1>1. Unknown \in Infos /\ Unknown.id = NoIds /\ Unknown.missed = FALSE /\ Unknown.age = NoAges
  BY ValuesClean DEF Unknown, Infos, NoIds, NoAges
<1>2. NoItem = [id |-> NoIds, age |-> NoAges, status |-> 0, left |-> -1, missed |-> FALSE]
  <2> DEFINE x == Item(Unknown, 0, FALSE)
  <2>1. x = [id |-> NoIds, age |-> NoAges, status |-> 0, left |-> Validity, missed |-> FALSE]
    BY <1>1 DEF Item
  <2>2. NoItem = [x EXCEPT !.left = -1]
    BY Zenon DEF NoItem
  <2> HIDE DEF x
  <2> QED BY <2>1, <2>2
<1>3. NoItem \in Items
  BY <1>2, ValuesClean DEF Items, NoIds, NoAges
<1>4. Known(NoIds) = {}
  BY DEF Known, NoIds
<1> QED BY <1>1, <1>2, <1>3, <1>4

(* cache_search gives a good item or none. *)
LEMMA SearchGives ==
  ASSUME SearchTypes, ItemInv, NEW p \in Port
  PROVE  LET item == cache_search(p)
         IN  /\ item \in Items /\ GoodItem(item)
             /\ item = NoItem <=> ~(cache[p].left > 0)
             /\ item # NoItem => item = cache[p]
<1>1. cache[p] \in Items /\ GoodItem(cache[p])
  BY DEF SearchTypes, ItemInv
<1>2. CASE cache[p].left > 0
  BY <1>1, <1>2, Empties DEF cache_search
<1>3. CASE ~(cache[p].left > 0)
  <2>1. GoodItem(NoItem)
    BY Empties DEF GoodItem
  <2> QED BY <1>3, <2>1, Empties DEF cache_search
<1> QED BY <1>2, <1>3

(* An item that is updated after a question has exactly what is known now:   *)
(* all that it knew before is known still.                                   *)
LEMMA UpdateGives ==
  ASSUME SearchTypes, ItemInv, NEW p \in Port, NEW ids \in Infos, NEW status \in Int,
         NEW missed \in BOOLEAN,
         cache[p].left > 0 => Known(cache[p].id) \subseteq Known(ids.id)
  PROVE  cache_update(p, ids, status, missed) = [cache EXCEPT ![p] = Item(ids, status, missed)]
<1> DEFINE old == cache_search(p)  new == Item(ids, status, missed)
<1>1. CASE old = NoItem
  BY <1>1 DEF cache_update
<1>2. CASE old # NoItem
  <2>1. Known(old.id) \subseteq Known(ids.id)
    BY <1>2, SearchGives
  <2>2. new = [id |-> ids.id, age |-> ids.age, status |-> status, left |-> Validity, missed |-> missed]
    BY DEF Item
  <2>3. [i \in Ids |-> IF ids.id[i] # Null THEN ids.id[i]
                       ELSE IF old.id[i] # Null THEN Freed ELSE Null] = ids.id
    <3>1. \A i \in Ids : ids.id[i] = Null => old.id[i] = Null
      BY <2>1 DEF Known
    <3>2. ids.id \in [Ids -> Values]
      BY DEF Infos
    <3> QED BY <3>1, <3>2
  <2>4. cache_item_update(old, ids, status, missed) = [new EXCEPT !.id = ids.id]
    BY <2>3 DEF cache_item_update
  <2>5. cache_item_update(old, ids, status, missed) = new
    BY <2>2, <2>4
  <2> QED BY <1>2, <2>5 DEF cache_update
<1> QED BY <1>1, <1>2

-----------------------------------------------------------------------------
(* Every pass starts with nothing remembered. *)
LEMMA InitSearchInv == SearchInit => SearchInv
<1> SUFFICES ASSUME SearchInit PROVE SearchInv
  OBVIOUS
<1>1. << >> \in Seq(Port)
  BY EmptySeq
<1>2. SearchTypes
  BY <1>1, Empties DEF SearchInit, SearchTypes
<1>3. ItemInv
  BY Empties DEF SearchInit, ItemInv, GoodItem
<1> QED BY <1>2, <1>3 DEF SearchInit, SearchInv, AskInv, IdentityFresh

(* What Judge is given starts a device only if all that was wanted is known *)
(* and young enough.                                                        *)
LEMMA JudgeFresh ==
  ASSUME NEW status, NEW ids \in Infos, Judge(status, ids), UNCHANGED todo,
         ~ids.missed => \A i \in Known(ids.id) : ids.age[i] <= 2 * Interval + AskTime - 2,
         SearchTypes
  PROVE  /\ info' \in Infos /\ dpc' \in {"start", "search"}
         /\ (ports # << >> => ports' \in Seq(Port))
         /\ IdentityFresh'
<1>1. ThisDev' = ThisDev
  BY DEF ThisDev
<1>2. CASE status = 0 /\ \A i \in Wanted(ThisDev) : ids.id[i] = Want[ThisDev][i]
  <2>1. dpc' = "start" /\ info' = ids /\ ports' = ports
    BY <1>2 DEF Judge
  <2>2. Wanted(ThisDev) \subseteq Known(ids.id)
    BY <1>2 DEF Wanted, Known
  <2> QED BY <1>1, <2>1, <2>2 DEF IdentityFresh, SearchTypes
<1>3. CASE ~(status = 0 /\ \A i \in Wanted(ThisDev) : ids.id[i] = Want[ThisDev][i])
  <2>1. dpc' = "search" /\ info' = Unknown /\ ports' = Tail(ports)
    BY <1>3 DEF Judge
  <2>2. ports # << >> => Tail(ports) \in Seq(Port)
    BY HeadTailProperties DEF SearchTypes
  <2> QED BY <2>1, <2>2, Empties DEF IdentityFresh
<1> QED BY <1>2, <1>3

(* A lookup in the cache, which may answer the question or not. *)
LEMMA LookupSearchInv == ASSUME SearchInv, PortLookup PROVE SearchInv'
<1> DEFINE p == ThisPort  item == cache_search(p)
<1>1. /\ ports # << >> /\ p \in Port /\ item \in Items /\ GoodItem(item)
      /\ item = NoItem <=> ~(cache[p].left > 0)
  BY HeadTailProperties, SearchGives DEF PortLookup, ThisPort, SearchInv, SearchTypes
<1>2. /\ cache' = [cache EXCEPT ![p] = item] /\ clock' = 0 /\ UNCHANGED <<plugged, todo>>
      /\ IF CacheHit(ThisDev, item) THEN Judge(item.status, CacheInfo(ThisDev, item))
         ELSE dpc' = "ask" /\ info' = CacheInfo(ThisDev, item) /\ ports' = ports
  BY DEF PortLookup
<1> DEFINE ids == CacheInfo(ThisDev, item)
<1>3. /\ ids \in Infos /\ ids.id = item.id /\ ids.age = item.age /\ ids.missed = item.missed
  BY <1>1 DEF CacheInfo, Items, Infos
<1>4. item # NoItem => item.left > 0
  BY <1>1, SearchGives DEF SearchInv
<1>5. cache' \in [Port -> Items] /\ ItemInv' /\ cache'[p] = item
  BY <1>1, <1>2 DEF SearchInv, SearchTypes, ItemInv
<1> HIDE DEF ids, item, p
<1>6. item = NoItem => Known(item.id) = {}
  BY Empties
<1>7. /\ item.left \in Int /\ item.age \in [Ids -> Nat] /\ Known(item.id) \subseteq Ids
  BY <1>1 DEF Items, Known
<1>8. CASE CacheHit(ThisDev, item)
  <2>1. item # NoItem /\ item.left > 0
    BY <1>4, <1>8 DEF CacheHit
  <2>2. ~ids.missed => \A i \in Known(ids.id) : ids.age[i] <= 2 * Interval + AskTime - 2
    BY <1>1, <1>3, <1>7, <2>1, TimesType DEF GoodItem, Limit
  <2>3. Judge(item.status, ids)
    BY <1>2, <1>8 DEF ids
  <2>4. /\ info' \in Infos /\ dpc' \in {"start", "search"} /\ ports' \in Seq(Port) /\ IdentityFresh'
    BY <1>1, <1>2, <1>3, <2>2, <2>3, JudgeFresh DEF SearchInv
  <2> QED BY <1>2, <1>5, <2>4 DEF SearchInv, SearchTypes, AskInv
<1>9. CASE ~CacheHit(ThisDev, item)
  <2>1. dpc' = "ask" /\ info' = ids /\ ports' = ports /\ ThisPort' = p /\ ThisDev' = ThisDev
    BY <1>2, <1>9 DEF ids, p, ThisPort, ThisDev
  <2>2. SearchTypes'
    BY <1>1, <1>2, <1>3, <1>5, <2>1 DEF SearchInv, SearchTypes
  <2>3. Known(info'.id) # {} => Asked' # {}
    <3> SUFFICES ASSUME Known(info'.id) # {} PROVE Asked' # {}
      OBVIOUS
    <3>1. item # NoItem /\ info'.id = item.id
      BY <1>3, <1>6, <2>1
    <3>2. ~(Wanted(ThisDev) \subseteq Known(item.id))
      BY <1>9, <3>1 DEF CacheHit
    <3>3. Asked' = Wanted(ThisDev) \ Known(item.id)
      BY <2>1, <3>1 DEF Asked
    <3> QED BY <3>2, <3>3
  <2>4. ~info'.missed => \A i \in Known(info'.id) : info'.age[i] <= Interval - 1
    <3> SUFFICES ASSUME ~info'.missed, NEW i \in Known(info'.id)
                 PROVE  info'.age[i] <= Interval - 1
      OBVIOUS
    <3>1. info'.id = item.id /\ info'.age = item.age /\ ~item.missed /\ i \in Known(item.id)
      BY <1>3, <2>1
    <3>2. item # NoItem /\ item.left > 0
      BY <1>4, <1>6, <3>1
    <3>3. Known(item.id) # Ids
      BY <1>9, <3>2 DEF CacheHit, Wanted
    <3>4. item.age[i] + item.left <= Interval
      BY <1>1, <3>1, <3>2, <3>3 DEF GoodItem, Limit
    <3> QED BY <1>7, <3>1, <3>2, <3>4, TimesType
  <2>5. AskInv'
    BY <1>2, <1>3, <1>5, <2>1, <2>3, <2>4, TimesType DEF AskInv
  <2> QED BY <1>5, <2>1, <2>2, <2>5 DEF SearchInv, IdentityFresh
<1> QED BY <1>8, <1>9

(* The modem is asked for what is not known; of that it tells some, or all. *)
LEMMA ToldSearchInv ==
  ASSUME SearchInv, dpc = "ask", NEW told \in SUBSET Asked, NEW status \in Int, Told(told, status),
         told # {} => plugged[ThisPort] # Null /\ told \subseteq Known(plugged[ThisPort])
  PROVE  SearchInv'
<1> DEFINE p == ThisPort  ids == Learnt(told)  missed == info.missed \/ Asked \ told # {}
           found == [ids EXCEPT !.missed = missed]
<1>1. /\ ports # << >> /\ p \in Port /\ info \in Infos /\ cache[p] \in Items /\ cache \in [Port -> Items]
      /\ plugged[p] \in Modems \cup {Null}
  BY HeadTailProperties DEF ThisPort, SearchInv, SearchTypes
<1>2. told \subseteq Ids /\ told \cap Known(info.id) = {}
  BY DEF Asked, Wanted
<1>3. \A i \in told : plugged[p][i] \in Values /\ plugged[p][i] # Null
  BY <1>1, <1>2, ValuesClean DEF Known
<1>4. /\ ids.id = [i \in Ids |-> IF i \in told THEN plugged[p][i] ELSE info.id[i]]
      /\ ids.age = [i \in Ids |-> IF i \in told THEN 0 ELSE info.age[i]]
      /\ ids = [id |-> ids.id, age |-> ids.age, missed |-> info.missed]
  BY DEF Learnt
<1>5. /\ ids.id \in [Ids -> Values] /\ ids.age \in [Ids -> Nat]
      /\ Known(ids.id) = Known(info.id) \cup told
  BY <1>1, <1>2, <1>3, <1>4 DEF Infos, Known
<1>6. missed \in BOOLEAN /\ info.missed \in BOOLEAN
  BY <1>1 DEF Infos
<1> HIDE DEF ids, missed
<1>7. ids \in Infos /\ found \in Infos /\ found.id = ids.id /\ found.age = ids.age /\ found.missed = missed
  BY <1>4, <1>5, <1>6 DEF Infos
<1>8. /\ cache' = cache_update(p, ids, status, missed) /\ Judge(status, found)
      /\ UNCHANGED <<plugged, running, todo, clock>>
  BY Zenon DEF Told, p, ids, missed, found
<1>9. cache' = [cache EXCEPT ![p] = Item(ids, status, missed)]
  BY <1>1, <1>5, <1>6, <1>7, <1>8, UpdateGives DEF SearchInv, AskInv, p
<1> DEFINE new == Item(ids, status, missed)
<1>10. new = [id |-> ids.id, age |-> ids.age, status |-> status, left |-> Validity, missed |-> missed]
  BY DEF Item
<1>11. new \in Items /\ new.id = ids.id /\ new.age = ids.age /\ new.left = Interval /\ new.missed = missed
  BY <1>5, <1>6, <1>10, TimesType DEF Items, Validity
<1> HIDE DEF found, new
(* if nothing is left unanswered, then what is known is young, and either it *)
(* was all told now or both identifiers are known now                        *)
<1>12. ASSUME ~missed, NEW i \in Known(ids.id)
       PROVE  /\ ids.age[i] <= Interval - 1 + AskTime
              /\ Known(ids.id) = Ids \/ ids.age[i] = 0
  <2>1. ~info.missed /\ told = Asked
    BY <1>12 DEF missed
  <2>2. i \in Ids /\ (i \in told => ids.age[i] = 0) /\ (i \notin told => ids.age[i] = info.age[i])
    BY <1>4, <1>12 DEF Known
  <2>3. CASE i \in told
    BY <2>2, <2>3, TimesType
  <2>4. CASE i \notin told
    <3>1. i \in Known(info.id) /\ told # {}
      BY <1>5, <1>12, <2>1, <2>4 DEF SearchInv, AskInv
    <3>2. PICK j \in told : j \in Ids /\ j # i
      BY <1>2, <2>4, <3>1
    <3>3. Known(ids.id) = Ids
      BY <1>2, <1>5, <1>12, <2>2, <3>2 DEF Ids, Known
    <3>4. info.age[i] <= Interval - 1 + clock /\ clock <= AskTime
      BY <2>1, <3>1 DEF SearchInv, AskInv
    <3>5. info.age[i] \in Nat /\ clock \in Nat
      BY <1>1, <2>2 DEF Infos, SearchInv, SearchTypes
    <3> QED BY <2>2, <2>4, <3>3, <3>4, <3>5, TimesType
  <2> QED BY <2>3, <2>4
<1>13. GoodItem(new)
  <2> SUFFICES ASSUME ~missed, NEW i \in Known(ids.id)
               PROVE  ids.age[i] + Interval <= Limit(ids.id)
    BY <1>11 DEF GoodItem
  <2>1. ids.age[i] \in Nat
    BY <1>5 DEF Known
  <2> QED BY <1>12, <2>1, TimesType DEF Limit
<1>14. cache' \in [Port -> Items] /\ ItemInv'
  BY <1>1, <1>9, <1>11, <1>13 DEF SearchInv, ItemInv, new
<1>15. ~found.missed => \A i \in Known(found.id) : found.age[i] <= 2 * Interval + AskTime - 2
  <2> SUFFICES ASSUME ~missed, NEW i \in Known(ids.id)
               PROVE  ids.age[i] <= 2 * Interval + AskTime - 2
    BY <1>7
  <2>1. ids.age[i] \in Nat
    BY <1>5 DEF Known
  <2> QED BY <1>12, <2>1, TimesType
<1>16. /\ info' \in Infos /\ dpc' \in {"start", "search"} /\ ports' \in Seq(Port) /\ IdentityFresh'
  BY <1>1, <1>7, <1>8, <1>15, JudgeFresh DEF SearchInv
<1> QED BY <1>8, <1>14, <1>16 DEF SearchInv, SearchTypes, AskInv

(* Time passes: what is known and what is good grow old together. *)
LEMMA TickSearchInv == ASSUME SearchInv, Tick PROVE SearchInv'
<1>1. /\ \/ dpc = "sleep" /\ clock > 0 /\ clock' = clock - 1
         \/ dpc = "ask" /\ clock < AskTime /\ clock' = clock + 1
      /\ cache' = [q \in Port |-> IF cache[q].left > 0
                     THEN [Older(cache[q]) EXCEPT !.left = @ - 1] ELSE cache[q]]
      /\ info' = Older(info)
      /\ UNCHANGED <<plugged, running, dpc, todo, ports>>
  BY DEF Tick
<1>2. \A i \in Ids, f \in [Ids -> Nat] : f[i] \in Nat
  OBVIOUS
<1> DEFINE Aged(x) == [i \in Ids |-> IF x.id[i] # Null /\ x.age[i] < OldAge THEN x.age[i] + 1 ELSE x.age[i]]
<1>3. ASSUME NEW x, x.age \in [Ids -> Nat]
      PROVE  /\ Aged(x) \in [Ids -> Nat]
             /\ \A i \in Ids : Aged(x)[i] <= x.age[i] + 1
  <2>1. \A i \in Ids : x.age[i] \in Nat /\ x.age[i] + 1 \in Nat
    BY <1>3
  <2> QED BY <2>1
<1>4. /\ info' \in Infos /\ info'.id = info.id /\ info'.missed = info.missed /\ info'.age = Aged(info)
  <2>1. info \in Infos /\ info.age \in [Ids -> Nat]
    BY DEF SearchInv, SearchTypes, Infos
  <2>2. Older(info) = [info EXCEPT !.age = Aged(info)]
    BY DEF Older
  <2>3. Aged(info) \in [Ids -> Nat]
    BY <2>1, <1>3
  <2> HIDE DEF Aged
  <2> QED BY <1>1, <2>1, <2>2, <2>3 DEF Infos
<1>5. ASSUME NEW q \in Port
      PROVE  /\ cache'[q] \in Items /\ cache'[q].id = cache[q].id
             /\ cache'[q].missed = cache[q].missed
             /\ cache'[q].left > 0 => /\ cache[q].left > 0
                                      /\ cache'[q].left = cache[q].left - 1
                                      /\ cache'[q].age = Aged(cache[q])
  <2> DEFINE x == cache[q]
  <2>1. x \in Items /\ x.age \in [Ids -> Nat] /\ x.left \in Int
    BY DEF SearchInv, SearchTypes, Items
  <2>2. CASE x.left > 0
    <3>1. Older(x) = [x EXCEPT !.age = Aged(x)]
      BY DEF Older
    <3>2. Aged(x) \in [Ids -> Nat]
      BY <2>1, <1>3
    <3>3. cache'[q] = [Older(x) EXCEPT !.left = @ - 1]
      BY <1>1, <2>2
    <3> HIDE DEF Aged, x
    <3>4. Older(x) \in Items /\ Older(x).id = x.id /\ Older(x).missed = x.missed
          /\ Older(x).age = Aged(x) /\ Older(x).left = x.left
      BY <2>1, <3>1, <3>2 DEF Items
    <3>5. /\ cache'[q] \in Items /\ cache'[q].id = x.id /\ cache'[q].missed = x.missed
          /\ cache'[q].age = Aged(x) /\ cache'[q].left = x.left - 1
      BY <2>1, <3>3, <3>4 DEF Items
    <3> QED BY <2>2, <3>5 DEF x
  <2>3. CASE ~(x.left > 0)
    BY <1>1, <2>1, <2>3
  <2> QED BY <2>2, <2>3
<1> HIDE DEF Aged
<1>6. cache' = [q \in Port |-> cache'[q]]
  BY <1>1
<1>7. cache' \in [Port -> Items]
  BY <1>5, <1>6
<1>8. clock' \in Nat /\ (dpc = "ask" => clock' <= AskTime /\ clock' = clock + 1)
  BY <1>1, TimesType DEF SearchInv, SearchTypes
<1>9. SearchTypes'
  BY <1>1, <1>4, <1>7, <1>8 DEF SearchInv, SearchTypes
<1>10. ItemInv'
  <2> SUFFICES ASSUME NEW q \in Port, cache'[q].left > 0, ~cache'[q].missed,
                      NEW i \in Known(cache'[q].id)
               PROVE  cache'[q].age[i] + cache'[q].left <= Limit(cache'[q].id)
    BY DEF ItemInv, GoodItem
  <2>1. /\ cache'[q].id = cache[q].id /\ ~cache[q].missed /\ cache[q].left > 0
        /\ cache'[q].left = cache[q].left - 1 /\ cache'[q].age = Aged(cache[q])
    BY <1>5
  <2>2. cache[q] \in Items /\ cache[q].age \in [Ids -> Nat] /\ cache[q].left \in Int /\ i \in Ids
    BY DEF SearchInv, SearchTypes, Items, Known
  <2>3. /\ Aged(cache[q])[i] <= cache[q].age[i] + 1 /\ cache[q].age[i] \in Nat
        /\ Aged(cache[q])[i] \in Nat
    BY <2>2, <1>3
  <2>4. cache[q].age[i] + cache[q].left <= Limit(cache[q].id)
    BY <2>1 DEF SearchInv, ItemInv, GoodItem
  <2>5. Limit(cache[q].id) \in Int
    BY TimesType DEF Limit
  <2> QED BY <2>1, <2>2, <2>3, <2>4, <2>5
<1>11. AskInv'
  <2> SUFFICES ASSUME dpc = "ask" PROVE AskInv'
    BY <1>1 DEF AskInv
  <2>1. /\ ThisPort' = ThisPort /\ Asked' = Asked /\ ThisPort \in Port
    BY <1>1, <1>4, HeadTailProperties DEF ThisPort, ThisDev, Asked, SearchInv, SearchTypes
  <2>2. cache'[ThisPort].left > 0 => Known(cache'[ThisPort].id) \subseteq Known(info'.id)
    BY <1>4, <1>5, <2>1 DEF SearchInv, AskInv
  <2>3. ~info'.missed => \A i \in Known(info'.id) : info'.age[i] <= Interval - 1 + clock'
    <3> SUFFICES ASSUME ~info.missed, NEW i \in Known(info.id)
                 PROVE  Aged(info)[i] <= Interval - 1 + clock'
      BY <1>4
    <3>1. info.age \in [Ids -> Nat] /\ i \in Ids /\ clock \in Nat
      BY DEF SearchInv, SearchTypes, Infos, Known
    <3>2. Aged(info)[i] <= info.age[i] + 1 /\ info.age[i] \in Nat /\ Aged(info)[i] \in Nat
      BY <3>1, <1>3
    <3>3. info.age[i] <= Interval - 1 + clock
      BY DEF SearchInv, AskInv
    <3> QED BY <1>8, <3>1, <3>2, <3>3, TimesType
  <2> QED BY <1>1, <1>4, <1>8, <2>1, <2>2, <2>3 DEF SearchInv, AskInv
<1>12. IdentityFresh'
  BY <1>1 DEF IdentityFresh
<1> QED BY <1>9, <1>10, <1>11, <1>12 DEF SearchInv

(* Every step keeps the invariant. *)
LEMMA NextSearchInv == SearchInv /\ [SearchNext]_searchVars => SearchInv'
<1> SUFFICES ASSUME SearchInv, [SearchNext]_searchVars PROVE SearchInv'
  OBVIOUS
<1>1. CASE PassBegins
  <2>1. Ports \in Seq(Port)
    BY DiscoveryAssumption
  <2> QED BY <1>1, <2>1 DEF PassBegins, SearchInv, SearchTypes, ItemInv, AskInv, IdentityFresh
<1>2. CASE PassEnds
  <2>1. << >> \in Seq(Port) /\ Interval \in Nat
    BY EmptySeq, TimesType
  <2> QED BY <1>2, <2>1 DEF PassEnds, SearchInv, SearchTypes, ItemInv, AskInv, IdentityFresh
<1>3. CASE SearchFails
  <2>1. Ports \in Seq(Port)
    BY DiscoveryAssumption
  <2> QED BY <1>3, <2>1 DEF SearchFails, SearchInv, SearchTypes, ItemInv, AskInv, IdentityFresh
<1>4. CASE PortSkipped
  <2>1. Tail(ports) \in Seq(Port)
    BY <1>4, HeadTailProperties DEF PortSkipped, SearchInv, SearchTypes
  <2> QED BY <1>4, <2>1 DEF PortSkipped, SearchInv, SearchTypes, ItemInv, AskInv, IdentityFresh
<1>5. CASE PortLookup
  BY <1>5, LookupSearchInv
<1>6. CASE AskSucceeds
  <2> DEFINE told == Asked \cap Known(plugged[ThisPort])
  <2>1. dpc = "ask" /\ plugged[ThisPort] # Null /\ Told(told, 0)
    BY <1>6 DEF AskSucceeds
  <2>2. told \in SUBSET Asked /\ told \subseteq Known(plugged[ThisPort]) /\ 0 \in Int
    OBVIOUS
  <2> HIDE DEF told
  <2> QED BY <2>1, <2>2, ToldSearchInv
<1>7. CASE AskFails
  <2>1. dpc = "ask" /\ -1 \in Int
    BY <1>7 DEF AskFails
  <2>2. CASE Told({}, -1)
    BY <2>1, <2>2, ToldSearchInv
  <2>3. CASE /\ plugged[ThisPort] # Null /\ "imei" \in Asked \cap Known(plugged[ThisPort])
             /\ Told({"imei"}, -1)
    <3>1. {"imei"} \in SUBSET Asked /\ {"imei"} \subseteq Known(plugged[ThisPort])
      BY <2>3
    <3> QED BY <2>1, <2>3, <3>1, ToldSearchInv
  <2> QED BY <1>7, <2>2, <2>3 DEF AskFails
<1>8. CASE Start
  <2>1. Ports \in Seq(Port) /\ dpc' = "search" /\ info' \in Infos
    BY <1>8, Empties, DiscoveryAssumption DEF Start
  <2> QED BY <1>8, <2>1 DEF Start, SearchInv, SearchTypes, ItemInv, AskInv, IdentityFresh
<1>9. CASE Tick
  BY <1>9, TickSearchInv
<1>10. ASSUME NEW q \in Port, NEW m \in Modems \cup {Null}, Swap(q, m) PROVE SearchInv'
  <2>1. /\ plugged' = [plugged EXCEPT ![q] = m] /\ UNCHANGED <<cache, dpc, todo, ports, info, clock>>
    BY <1>10 DEF Swap
  <2> QED BY <2>1 DEF SearchInv, SearchTypes, ItemInv, AskInv, IdentityFresh, ThisPort, ThisDev, Asked
<1>11. CASE UNCHANGED searchVars
  BY <1>11 DEF searchVars, SearchInv, SearchTypes, ItemInv, AskInv, IdentityFresh, ThisPort, ThisDev, Asked
<1> QED BY <1>1, <1>2, <1>3, <1>4, <1>5, <1>6, <1>7, <1>8, <1>9, <1>10, <1>11 DEF SearchNext, Thread

(* The invariant holds in every reachable state. *)
LEMMA SearchInductive == SearchSpec => []SearchInv
  BY InitSearchInv, NextSearchInv, PTL DEF SearchSpec

-----------------------------------------------------------------------------
(* No item of the cache and no answer given to pdiscovery_lookup refers to a *)
(* string that cache_item_update freed.                                      *)
THEOREM CacheClean == SearchSpec => []NoDanglingId
<1>1. SearchInv => NoDanglingId
  <2> SUFFICES ASSUME SearchInv PROVE NoDanglingId
    OBVIOUS
  <2>1. info.id \in [Ids -> Values] /\ \A q \in Port : cache[q].id \in [Ids -> Values]
    BY DEF SearchInv, SearchTypes, Infos, Items
  <2> QED BY <2>1, ValuesClean DEF NoDanglingId
<1> QED BY <1>1, SearchInductive, PTL

(* pvt_start is given a port because of what the modem there said less than  *)
(* two intervals ago, however modems, questions and early passes interleave, *)
(* unless that modem left a question unanswered.                             *)
THEOREM StartedByFreshIdentity == SearchSpec => []IdentityFresh
<1>1. SearchInv => IdentityFresh
  BY DEF SearchInv
<1> QED BY <1>1, SearchInductive, PTL

-----------------------------------------------------------------------------
(* The modem that is initialized *)

(* What the queue holds: commands of the initialization and others.  A task *)
(* is dropped with its last command.                                        *)
InitNames == {"AT", "U2DIAG", "CREG_INIT", "CREG", "CVOICE", "CMGF", "CSCS", "CNMI", "CSQ"}
Others == {"CMGR", "CMGD", "COPS", "CCWA", "PING", "CMGS", "SMSTEXT", "CUSD"}
Args == {"-", "text", "pdu", "registered", "searching"} \cup In \cup Out
Cmds == [cmd : InitNames \cup Others, arg : Args, res : Results, sent : BOOLEAN, ignore : BOOLEAN]
Tasks == {t \in [cindex : Nat, cmds : Seq(Cmds)] : t.cindex < Len(t.cmds)}

(* The driver's device, the modem and the lines it sends; Finals end a       *)
(* command.                                                                  *)
Pvts == [connected : BOOLEAN, initialized : BOOLEAN, has_voice : BOOLEAN, has_sms : BOOLEAN,
         fmt : {"text", "pdu"}, ucs2 : BOOLEAN, gsm_registered : BOOLEAN,
         incoming_sms : BOOLEAN, queue : Seq(Tasks)]
ModemStates ==
  [voice : BOOLEAN, charset : BOOLEAN, reg : BOOLEAN, fmt : Args, ucs2 : BOOLEAN,
   creg : BOOLEAN, cnmi : BOOLEAN, regs : Nat, lost : Nat, reloads : Nat]

Finals == {"OK", "ERROR", "CMGR", "PROMPT"}
Lines == [t : Finals \cup {"CREG", "CUSD", "CPIN", "CMTI"},
          arg : {"-", "registered", "searching"} \cup In]

(* The types of all variables *)
SessionTypes ==
  /\ pvt \in Pvts /\ modem \in ModemStates /\ rx \in Seq(Lines) /\ conf \in Confs
  /\ answered \in BOOLEAN /\ raced \in BOOLEAN

(* The task t is the initialization from command k of InitList on, of which  *)
(* s commands were handled or skipped.                                       *)
InitTask(t, k, s) ==
  /\ Len(t.cmds) = 10 - k /\ t.cindex = s - (k - 1)
  /\ \A i \in 1 .. 10 - k :
       /\ t.cmds[i].cmd = InitList[k - 1 + i] /\ t.cmds[i].res = RES_OK
       /\ t.cmds[i].ignore <=> t.cmds[i].cmd \in {"CREG_INIT", "CSCS"}

(* A task without a command of the initialization *)
Simple(t) == \A i \in 1 .. Len(t.cmds) : t.cmds[i].cmd \in Others

(* There is one initialization until all its commands were handled; the one  *)
(* that Connect queues is at the head, the one that AT^CVOICE? queues is     *)
(* wherever it gets to.                                                      *)
Placed(q, k, s) ==
  IF s = 9 THEN \A j \in 1 .. Len(q) : Simple(q[j])
  ELSE \E i \in 1 .. Len(q) :
         /\ InitTask(q[i], k, s) /\ (k = 1 => i = 1)
         /\ \A j \in 1 .. Len(q) : j # i => Simple(q[j])

(* The message format that is still to be set is f. *)
FormatAsked(q, f) ==
  \A j \in 1 .. Len(q) : \A i \in 1 .. Len(q[j].cmds) :
    q[j].cmds[i].cmd = "CMGF" /\ i > q[j].cindex => q[j].cmds[i].arg = f

(* The last report of the registration is true: the last one under way, or   *)
(* the last one that was handled.                                            *)
RegKnown ==
  /\ (\A i \in 1 .. Len(rx) : rx[i].t # "CREG") => pvt.gsm_registered = modem.reg
  /\ \A i \in 1 .. Len(rx) :
       rx[i].t = "CREG" /\ (\A j \in i + 1 .. Len(rx) : rx[j].t # "CREG")
         => rx[i].arg = IF modem.reg THEN "registered" ELSE "searching"

(* What is known of the modem once s commands were handled.  The answer to   *)
(* AT+CREG? reports the registration, which is known before it is handled.   *)
Believed(s) ==
  /\ s >= 3 => modem.creg
  /\ s >= 4 \/ (s = 3 /\ answered) => RegKnown
  /\ s >= 5 => pvt.has_voice = modem.voice
  /\ s >= 6 => raced \/ pvt.fmt = modem.fmt
  /\ s >= 7 => pvt.ucs2 = modem.ucs2
  /\ s >= 8 => pvt.has_sms

(* What the final code l of the command c says of the modem. *)
Effect(l, c) ==
  /\ l.t = "OK" => /\ c.cmd = "CVOICE" => modem.voice
                   /\ c.cmd = "CMGF" => modem.fmt = c.arg
                   /\ c.cmd = "CSCS" => modem.ucs2
                   /\ c.cmd = "CREG_INIT" => modem.creg
  /\ l.t = "ERROR" => /\ c.cmd = "CVOICE" => ~modem.voice
                      /\ c.cmd = "CSCS" => ~modem.charset
                      /\ c.cmd \notin {"U2DIAG", "CREG"}
  /\ l.t = "CMGR" => c.cmd = "CMGR"

(* At most one final code is under way, that of the command at the head. *)
Wire ==
  /\ \A i, j \in 1 .. Len(rx) : rx[i].t \in Finals /\ rx[j].t \in Finals => i = j
  /\ \A i \in 1 .. Len(rx) : rx[i].t \in Finals => answered /\ Effect(rx[i], HeadCmd)
  /\ answered => pvt.queue # << >>

(* The initialization has got to command s of the one that began with k;     *)
(* there is a second one only for want of voice.                             *)
Stage(k, s) ==
  /\ k \in {1, 6} /\ s \in k - 1 .. 9
  /\ Placed(pvt.queue, k, s)
  /\ k = 6 => ~modem.voice
  /\ pvt.initialized <=> s >= 8
  /\ Believed(s)

(* The inductive invariant: a connected device is at some stage. *)
SessionInv ==
  /\ SessionTypes /\ Wire
  /\ ~pvt.connected => pvt = Disconnected /\ rx = << >> /\ ~answered
  /\ modem.ucs2 => modem.charset
  /\ raced \/ FormatAsked(pvt.queue, conf.fmt)
  /\ pvt.connected => \E k, s \in Nat : Stage(k, s)

(* The modem refuses none of the commands that say what it is like, unless   *)
(* it is unable to.  Without this BeliefsHold fails: an error of AT^U2DIAG   *)
(* or AT+CREG? drops the rest of the initialization, and after one of        *)
(* AT^CVOICE? or AT+CSCS the driver takes the modem for unable.              *)
Willing == {"U2DIAG", "CREG", "CVOICE", "CSCS"} \cap Fails = {}

-----------------------------------------------------------------------------
(* The queue *)

(* Equal but for what was written *)
Alike(q, q2) ==
  /\ Len(q2) = Len(q)
  /\ \A j \in 1 .. Len(q) :
       /\ q2[j].cindex = q[j].cindex /\ Len(q2[j].cmds) = Len(q[j].cmds)
       /\ \A i \in 1 .. Len(q[j].cmds) :
            /\ q2[j].cmds[i].cmd = q[j].cmds[i].cmd /\ q2[j].cmds[i].arg = q[j].cmds[i].arg
            /\ q2[j].cmds[i].res = q[j].cmds[i].res
            /\ q2[j].cmds[i].ignore <=> q[j].cmds[i].ignore

(* Alike queues are at the same stage. *)
LEMMA AlikeKeeps ==
  ASSUME NEW q, NEW q2, Alike(q, q2), Len(q) \in Nat
  PROVE  /\ \A k, s : Placed(q, k, s) => Placed(q2, k, s)
         /\ \A f : FormatAsked(q, f) => FormatAsked(q2, f)
<1>1. ASSUME NEW j \in 1 .. Len(q), Simple(q[j]) PROVE Simple(q2[j])
  BY <1>1 DEF Simple, Alike
<1>2. ASSUME NEW j \in 1 .. Len(q), NEW k, NEW s, InitTask(q[j], k, s) PROVE InitTask(q2[j], k, s)
  BY <1>2 DEF InitTask, Alike
<1>3. ASSUME NEW k, NEW s, Placed(q, k, s) PROVE Placed(q2, k, s)
  <2>0. Len(q2) = Len(q)
    BY DEF Alike
  <2>1. CASE s = 9
    BY <1>1, <1>3, <2>0, <2>1 DEF Placed
  <2>2. CASE s # 9
    <3>1. PICK i \in 1 .. Len(q) : /\ InitTask(q[i], k, s) /\ (k = 1 => i = 1)
                                   /\ \A j \in 1 .. Len(q) : j # i => Simple(q[j])
      BY <1>3, <2>2 DEF Placed
    <3> QED BY <1>1, <1>2, <2>0, <2>2, <3>1 DEF Placed
  <2> QED BY <2>1, <2>2
<1>4. ASSUME NEW f, FormatAsked(q, f) PROVE FormatAsked(q2, f)
  <2> SUFFICES ASSUME NEW j \in 1 .. Len(q2), NEW i \in 1 .. Len(q2[j].cmds),
                      q2[j].cmds[i].cmd = "CMGF", i > q2[j].cindex
               PROVE  q2[j].cmds[i].arg = f
    BY DEF FormatAsked
  <2>1. j \in 1 .. Len(q)
    BY DEF Alike
  <2>2. /\ q2[j].cindex = q[j].cindex /\ Len(q2[j].cmds) = Len(q[j].cmds)
        /\ i \in 1 .. Len(q[j].cmds)
    BY <2>1 DEF Alike
  <2>3. q2[j].cmds[i].cmd = q[j].cmds[i].cmd /\ q2[j].cmds[i].arg = q[j].cmds[i].arg
    BY <2>1, <2>2 DEF Alike
  <2> QED BY <1>4, <2>1, <2>2, <2>3 DEF FormatAsked
<1> QED BY <1>3, <1>4

(* at_queue_run writes and changes nothing else. *)
LEMMA RunAlike ==
  ASSUME NEW q \in Seq(Tasks)
  PROVE  at_queue_run(q) \in Seq(Tasks) /\ Alike(q, at_queue_run(q))
<1>1. CASE ~HeadUnsent(q)
  BY <1>1 DEF at_queue_run, Alike
<1>2. CASE HeadUnsent(q)
  <2> DEFINE t == Head(q)
             n == t.cindex + 1
             u == [t EXCEPT !.cmds[n].sent = TRUE]
  <2>1. q # << >> /\ at_queue_run(q) = <<u>> \o Tail(q)
    BY <1>2 DEF HeadUnsent, at_queue_run, MarkSent
  <2>2. t \in Tasks /\ t = q[1] /\ Tail(q) \in Seq(Tasks) /\ Len(Tail(q)) = Len(q) - 1
        /\ \A j \in 1 .. Len(Tail(q)) : Tail(q)[j] = q[j + 1]
    BY <2>1, HeadTailProperties
  <2>3. t.cindex \in Nat /\ t.cmds \in Seq(Cmds) /\ t.cindex < Len(t.cmds)
    BY <2>2 DEF Tasks
  <2>4. n \in 1 .. Len(t.cmds) /\ t.cmds[n] \in Cmds
    BY <2>3
  <2>5. [t.cmds[n] EXCEPT !.sent = TRUE] \in Cmds
    BY <2>4 DEF Cmds
  <2> DEFINE c == [t.cmds[n] EXCEPT !.sent = TRUE]
             w == [t.cmds EXCEPT ![n] = c]
  <2>13. w \in Seq(Cmds) /\ Len(w) = Len(t.cmds)
    <3> HIDE DEF c, t, n
    <3> QED BY <2>3, <2>4, <2>5, ExceptSeq DEF c
  <2>14. t = [cindex |-> t.cindex, cmds |-> t.cmds]
    BY <2>2 DEF Tasks
  <2>15. u = [cindex |-> t.cindex, cmds |-> w]
    BY <2>14
  <2>6. /\ u.cindex = t.cindex /\ u.cmds = w
        /\ u \in [cindex : Nat, cmds : Seq(Cmds)] /\ Len(u.cmds) = Len(t.cmds)
    <3> HIDE DEF w, u, t
    <3> QED BY <2>3, <2>13, <2>15
  <2>7. u \in Tasks
    BY <2>3, <2>6 DEF Tasks
  <2>8. \A i \in 1 .. Len(t.cmds) :
            /\ u.cmds[i].cmd = t.cmds[i].cmd /\ u.cmds[i].arg = t.cmds[i].arg
            /\ u.cmds[i].res = t.cmds[i].res
            /\ u.cmds[i].ignore <=> t.cmds[i].ignore
    BY <2>3, <2>4, <2>6 DEF Cmds
  <2> HIDE DEF u, n, t
  <2>9. /\ <<u>> \in Seq(Tasks) /\ Len(<<u>>) = 1 /\ <<u>>[1] = u
    BY <2>7
  <2>10. /\ <<u>> \o Tail(q) \in Seq(Tasks) /\ Len(<<u>> \o Tail(q)) = 1 + (Len(q) - 1)
         /\ (<<u>> \o Tail(q))[1] = u
         /\ \A j \in 2 .. Len(q) : (<<u>> \o Tail(q))[j] = q[j]
    BY <2>2, <2>9, ConcatProperties
  <2>11. Len(q) \in Nat
    BY LenProperties
  <2> DEFINE q2 == <<u>> \o Tail(q)
  <2>12. q2[1] = u /\ q[1] = t /\ \A j \in 1 .. Len(q) : j # 1 => q2[j] = q[j]
    BY <2>2, <2>10, <2>11
  <2>16. Len(q2) = Len(q)
    BY <2>10, <2>11
  <2> HIDE DEF q2
  <2> HIDE DEF w, c
  <2>17. u.cindex = t.cindex /\ Len(u.cmds) = Len(t.cmds)
    BY <2>6
  <2>18. ASSUME NEW j \in 1 .. Len(q)
         PROVE  /\ q2[j].cindex = q[j].cindex /\ Len(q2[j].cmds) = Len(q[j].cmds)
                /\ \A i \in 1 .. Len(q[j].cmds) :
                     /\ q2[j].cmds[i].cmd = q[j].cmds[i].cmd /\ q2[j].cmds[i].arg = q[j].cmds[i].arg
                     /\ q2[j].cmds[i].res = q[j].cmds[i].res
                     /\ q2[j].cmds[i].ignore <=> q[j].cmds[i].ignore
    <3>1. CASE j = 1
      <4>1. q2[j] = u /\ q[j] = t
        BY <2>12, <3>1
      <4> QED BY <2>8, <2>17, <4>1
    <3>2. CASE j # 1
      <4>1. q2[j] = q[j]
        BY <2>12, <3>2
      <4> QED BY <4>1
    <3> QED BY <3>1, <3>2
  <2>19. Alike(q, q2)
    BY <2>16, <2>18 DEF Alike
  <2> QED BY <2>1, <2>10, <2>19 DEF q2
<1> QED BY <1>1, <1>2

(* The commands of the initialization *)
LEMMA InitCommands ==
  /\ InitList \in Seq(InitNames) /\ Len(InitList) = 9
  /\ InitList[1] = "AT" /\ InitList[2] = "U2DIAG" /\ InitList[3] = "CREG_INIT"
  /\ InitList[4] = "CREG" /\ InitList[5] = "CVOICE" /\ InitList[6] = "CMGF"
  /\ InitList[7] = "CSCS" /\ InitList[8] = "CNMI" /\ InitList[9] = "CSQ"
  /\ \A n \in 1 .. 9 : InitList[n] \in InitNames /\ InitList[n] \notin Others
<1>1. /\ InitList \in Seq(InitNames) /\ Len(InitList) = 9
      /\ InitList[1] = "AT" /\ InitList[2] = "U2DIAG" /\ InitList[3] = "CREG_INIT"
      /\ InitList[4] = "CREG" /\ InitList[5] = "CVOICE" /\ InitList[6] = "CMGF"
      /\ InitList[7] = "CSCS" /\ InitList[8] = "CNMI" /\ InitList[9] = "CSQ"
  BY DEF InitList, InitNames
<1>2. InitNames \cap Others = {}
  BY DEF InitNames, Others
<1>3. \A n \in 1 .. 9 : InitList[n] \in InitNames
  BY <1>1, ElementOfSeq
<1> QED BY <1>1, <1>2, <1>3

(* The command at the head belongs to the initialization or not. *)
LEMMA HeadTask ==
  ASSUME NEW q \in Seq(Tasks), q # << >>, NEW k \in {1, 6}, NEW s \in k - 1 .. 9, Placed(q, k, s)
  PROVE  LET c == at_queue_task_cmd(Head(q))
         IN  /\ c \in Cmds
             /\ c.cmd \in Others => Simple(Head(q)) /\ (k = 1 => s = 9)
             /\ c.cmd \notin Others =>
                  /\ s \in 0 .. 8 /\ c.cmd = InitList[s + 1] /\ c.res = RES_OK
                  /\ c.ignore <=> c.cmd \in {"CREG_INIT", "CSCS"}
                  /\ InitTask(Head(q), k, s) /\ \A j \in 2 .. Len(q) : Simple(q[j])
<1> DEFINE t == Head(q)
           n == t.cindex + 1
           c == at_queue_task_cmd(t)
<1>1. t \in Tasks /\ t = q[1] /\ Len(q) \in Nat /\ Len(q) >= 1
  BY HeadTailProperties, LenProperties
<1>2. n \in 1 .. Len(t.cmds) /\ c = t.cmds[n] /\ c \in Cmds
  BY <1>1 DEF Tasks, at_queue_task_cmd
<1> HIDE DEF t, c
<1>3. Simple(t) => c.cmd \in Others
  BY <1>2 DEF Simple
<1>4. CASE s = 9
  <2>1. Simple(t)
    BY <1>1, <1>4 DEF Placed
  <2> QED BY <1>2, <1>3, <1>4, <2>1 DEF c, t
<1>5. CASE s # 9
  <2>1. PICK i \in 1 .. Len(q) : /\ InitTask(q[i], k, s) /\ (k = 1 => i = 1)
                                 /\ \A j \in 1 .. Len(q) : j # i => Simple(q[j])
    BY <1>5 DEF Placed
  <2>2. CASE i = 1
    <3>1. /\ Len(t.cmds) = 10 - k /\ n = s - (k - 1) + 1
          /\ c.cmd = InitList[k - 1 + n] /\ c.res = RES_OK
          /\ c.ignore <=> c.cmd \in {"CREG_INIT", "CSCS"}
      BY <1>1, <1>2, <2>1, <2>2 DEF InitTask
    <3>2. k - 1 + n = s + 1 /\ s \in 0 .. 8
      BY <1>5, <3>1
    <3>3. c.cmd = InitList[s + 1] /\ c.cmd \notin Others
      <4>1. s + 1 \in 1 .. 9
        BY <3>2
      <4>2. InitList[s + 1] \notin Others
        BY <4>1, InitCommands
      <4> QED BY <3>1, <3>2, <4>2
    <3>4. \A j \in 2 .. Len(q) : Simple(q[j])
      BY <1>1, <2>1, <2>2
    <3> QED BY <1>1, <1>2, <2>1, <2>2, <3>1, <3>2, <3>3, <3>4 DEF c, t
  <2>3. CASE i # 1
    <3>1. Simple(t) /\ k # 1
      BY <1>1, <2>1, <2>3
    <3> QED BY <1>2, <1>3, <3>1 DEF c, t
  <2> QED BY <2>2, <2>3
<1> QED BY <1>4, <1>5

(* A task of other commands at the head does not matter. *)
LEMMA SimpleRemoved ==
  ASSUME NEW q \in Seq(Tasks), q # << >>, NEW k \in {1, 6}, NEW s \in k - 1 .. 9, Placed(q, k, s),
         Simple(Head(q)), k = 1 => s = 9, NEW r \in Seq(Tasks),
         \/ r = Tail(q)
         \/ \E u \in Tasks : r = <<u>> \o Tail(q) /\ Simple(u)
  PROVE  Placed(r, k, s)
<1>1. /\ Tail(q) \in Seq(Tasks) /\ Len(Tail(q)) = Len(q) - 1 /\ Len(q) \in Nat /\ Len(q) >= 1
      /\ \A j \in 1 .. Len(Tail(q)) : Tail(q)[j] = q[j + 1]
      /\ Head(q) = q[1]
  BY HeadTailProperties, LenProperties
<1>2. ASSUME NEW d \in {0, 1}, Len(r) = Len(q) - 1 + d, d = 1 => Simple(r[1]),
             \A j \in 1 .. Len(q) - 1 : r[j + d] = q[j + 1]
      PROVE  Placed(r, k, s)
  <2>1. ASSUME NEW j \in 1 .. Len(r) PROVE \/ d = 1 /\ j = 1
                                           \/ j - d + 1 \in 2 .. Len(q) /\ r[j] = q[j - d + 1]
    <3>1. j - d \in 1 .. Len(q) - 1 => r[(j - d) + d] = q[(j - d) + 1]
      BY <1>2
    <3>2. j \in Int /\ d \in Int /\ Len(q) \in Int /\ j \in 1 .. Len(q) - 1 + d
      BY <1>1, <1>2
    <3> QED BY <3>1, <3>2
  <2>2. CASE s = 9
    <3>1. \A j \in 1 .. Len(q) : Simple(q[j])
      BY <2>2 DEF Placed
    <3>2. ASSUME NEW j \in 1 .. Len(r) PROVE Simple(r[j])
      <4>1. j - d + 1 \in 2 .. Len(q) => Simple(q[j - d + 1])
        BY <3>1
      <4> QED BY <1>2, <2>1, <4>1
    <3> QED BY <2>2, <3>2 DEF Placed
  <2>3. CASE s # 9
    <3>1. PICK i \in 1 .. Len(q) : /\ InitTask(q[i], k, s) /\ (k = 1 => i = 1)
                                   /\ \A j \in 1 .. Len(q) : j # i => Simple(q[j])
      BY <2>3 DEF Placed
    <3>2. i # 1
      <4>1. InitTask(q[1], k, s) => ~Simple(q[1])
        <5> SUFFICES ASSUME InitTask(q[1], k, s), Simple(q[1]) PROVE FALSE
          OBVIOUS
        <5>1. Len(q[1].cmds) = 10 - k /\ q[1].cmds[1].cmd = InitList[k - 1 + 1] /\ k - 1 + 1 \in 1 .. 9
          BY DEF InitTask
        <5>2. q[1].cmds[1].cmd \in Others
          BY <5>1 DEF Simple
        <5> QED BY <5>1, <5>2, InitCommands
      <4> QED BY <1>1, <3>1, <4>1
    <3>3. (i - 1) + d \in 1 .. Len(r) /\ r[(i - 1) + d] = q[i]
      <4>1. i - 1 \in 1 .. Len(q) - 1 /\ (i - 1) + 1 = i /\ (i - 1) + d \in 1 .. Len(q) - 1 + d
        BY <1>1, <3>2
      <4>2. r[(i - 1) + d] = q[(i - 1) + 1]
        BY <1>2, <4>1
      <4> QED BY <1>2, <4>1, <4>2
    <3>4. ASSUME NEW j \in 1 .. Len(r), j # (i - 1) + d PROVE Simple(r[j])
      <4>1. j - d + 1 \in 2 .. Len(q) => j - d + 1 # i /\ Simple(q[j - d + 1])
        BY <1>1, <1>2, <3>1, <3>4
      <4> QED BY <1>2, <2>1, <4>1
    <3>5. k # 1
      BY <2>3
    <3> QED BY <2>3, <3>1, <3>3, <3>4, <3>5 DEF Placed
  <2> QED BY <2>2, <2>3
<1>3. CASE r = Tail(q)
  <2>1. Len(r) = Len(q) - 1 + 0 /\ \A j \in 1 .. Len(q) - 1 : r[j + 0] = q[j + 1]
    BY <1>1, <1>3
  <2> QED BY <1>2, <2>1
<1>4. ASSUME NEW u \in Tasks, r = <<u>> \o Tail(q), Simple(u) PROVE Placed(r, k, s)
  <2>1. <<u>> \in Seq(Tasks) /\ Len(<<u>>) = 1 /\ <<u>>[1] = u
    OBVIOUS
  <2>2. /\ Len(r) = 1 + (Len(q) - 1) /\ r[1] = u
        /\ \A j \in 2 .. Len(q) : r[j] = q[j]
    <3>1. /\ Len(<<u>> \o Tail(q)) = 1 + (Len(q) - 1) /\ (<<u>> \o Tail(q))[1] = u
          /\ \A j \in 2 .. Len(q) : (<<u>> \o Tail(q))[j] = q[j]
      BY <1>1, <2>1, ConcatProperties
    <3> QED BY <1>4, <3>1
  <2>3. Len(r) = Len(q) - 1 + 1 /\ \A j \in 1 .. Len(q) - 1 : r[j + 1] = q[j + 1]
    BY <1>1, <2>2
  <2> QED BY <1>2, <1>4, <2>2, <2>3
<1> QED BY <1>3, <1>4

(* The command at the head is answered. *)
LEMMA RemoveKeeps ==
  ASSUME NEW q \in Seq(Tasks), q # << >>, NEW k \in {1, 6}, NEW s \in k - 1 .. 9, Placed(q, k, s),
         NEW res
  PROVE  LET c == at_queue_task_cmd(Head(q))
             r == at_queue_remove_cmd(q, res)
         IN  /\ r \in Seq(Tasks)
             /\ c.cmd \in Others => Placed(r, k, s)
             /\ c.cmd \notin Others /\ (res = RES_OK \/ c.ignore) => Placed(r, k, s + 1)
             /\ c.cmd \notin Others /\ res # RES_OK /\ ~c.ignore => Placed(r, k, 9)
             /\ \A f : FormatAsked(q, f) => FormatAsked(r, f)
<1> DEFINE t == Head(q)
           n == t.cindex + 1
           c == at_queue_task_cmd(t)
           r == at_queue_remove_cmd(q, res)
           u == [t EXCEPT !.cindex = @ + 1]
<1>1. /\ t \in Tasks /\ t = q[1] /\ Len(q) \in Nat /\ Len(q) >= 1
      /\ Tail(q) \in Seq(Tasks) /\ Len(Tail(q)) = Len(q) - 1
      /\ \A j \in 1 .. Len(Tail(q)) : Tail(q)[j] = q[j + 1]
  BY HeadTailProperties, LenProperties
<1>2. t.cindex \in Nat /\ t.cmds \in Seq(Cmds) /\ t.cindex < Len(t.cmds) /\ Len(t.cmds) \in Nat
  BY <1>1, LenProperties DEF Tasks
<1>3. u.cindex = t.cindex + 1 /\ u.cmds = t.cmds /\ u \in [cindex : Nat, cmds : Seq(Cmds)]
  BY <1>1, <1>2 DEF Tasks
<1>4. c \in Cmds /\ c = t.cmds[n]
  BY <1>1, HeadTask DEF at_queue_task_cmd
<1>5. TaskEnds(t, res) <=> n >= Len(t.cmds) \/ (c.res # res /\ ~c.ignore)
  BY <1>4 DEF TaskEnds
<1>6. r = IF TaskEnds(t, res) THEN Tail(q) ELSE <<u>> \o Tail(q)
  BY DEF at_queue_remove_cmd
<1>7. /\ c.cmd \in Others => Simple(t) /\ (k = 1 => s = 9)
      /\ c.cmd \notin Others =>
           /\ s \in 0 .. 8 /\ c.res = RES_OK
           /\ InitTask(t, k, s) /\ \A j \in 2 .. Len(q) : Simple(q[j])
  BY HeadTask
<1> HIDE DEF t, n, c, r, u
<1>8. ~TaskEnds(t, res) => u \in Tasks
  BY <1>2, <1>3, <1>5 DEF Tasks, n
<1>9. ~TaskEnds(t, res) => /\ <<u>> \in Seq(Tasks) /\ Len(<<u>>) = 1 /\ <<u>>[1] = u
  BY <1>8
<1>10. ~TaskEnds(t, res) => /\ r \in Seq(Tasks) /\ Len(r) = Len(q) /\ r[1] = u
                            /\ \A j \in 2 .. Len(q) : r[j] = q[j]
  <2> SUFFICES ASSUME ~TaskEnds(t, res)
               PROVE  /\ r \in Seq(Tasks) /\ Len(r) = Len(q) /\ r[1] = u
                      /\ \A j \in 2 .. Len(q) : r[j] = q[j]
    OBVIOUS
  <2>1. /\ <<u>> \o Tail(q) \in Seq(Tasks)
        /\ Len(<<u>> \o Tail(q)) = 1 + (Len(q) - 1) /\ (<<u>> \o Tail(q))[1] = u
        /\ \A j \in 2 .. Len(q) : (<<u>> \o Tail(q))[j] = q[j]
    BY <1>1, <1>9, ConcatProperties
  <2> QED BY <1>1, <1>6, <2>1
<1>11. TaskEnds(t, res) => /\ r \in Seq(Tasks) /\ Len(r) = Len(q) - 1
                           /\ \A j \in 1 .. Len(r) : r[j] = q[j + 1]
  BY <1>1, <1>6
<1>12. ASSUME c.cmd \in Others PROVE Placed(r, k, s)
  <2>1. Simple(u)
    BY <1>3, <1>7, <1>12 DEF Simple
  <2>2. r \in Seq(Tasks) /\ (r = Tail(q) \/ \E v \in Tasks : r = <<v>> \o Tail(q) /\ Simple(v))
    BY <1>6, <1>8, <1>10, <1>11, <2>1
  <2> QED BY <1>7, <1>12, <2>2, SimpleRemoved DEF t
<1>13. ASSUME c.cmd \notin Others, TaskEnds(t, res) PROVE Placed(r, k, 9)
  <2>1. ASSUME NEW j \in 1 .. Len(r) PROVE Simple(r[j])
    <3>1. j + 1 \in 2 .. Len(q) /\ r[j] = q[j + 1]
      BY <1>1, <1>11, <1>13
    <3> QED BY <1>7, <1>13, <3>1
  <2> QED BY <2>1 DEF Placed
<1>14. ASSUME c.cmd \notin Others, res = RES_OK \/ c.ignore PROVE Placed(r, k, s + 1)
  <2>1. TaskEnds(t, res) <=> s + 1 = 9
    <3>1. Len(t.cmds) = 10 - k /\ t.cindex = s - (k - 1) /\ c.res = RES_OK /\ s \in 0 .. 8
      BY <1>7, <1>14 DEF InitTask
    <3>2. TaskEnds(t, res) <=> t.cindex + 1 >= Len(t.cmds)
      BY <1>5, <1>14, <3>1 DEF n
    <3> QED BY <3>1, <3>2
  <2>2. CASE s + 1 = 9
    BY <1>13, <1>14, <2>1, <2>2
  <2>3. CASE s + 1 # 9
    <3>1. InitTask(u, k, s + 1)
      <4>1. /\ Len(t.cmds) = 10 - k /\ t.cindex = s - (k - 1) /\ s \in 0 .. 8
        BY <1>7, <1>14 DEF InitTask
      <4>2. u.cindex = (s + 1) - (k - 1)
        BY <1>3, <4>1
      <4> QED BY <1>3, <1>7, <1>14, <4>1, <4>2 DEF InitTask
    <3>2. 1 \in 1 .. Len(r) /\ InitTask(r[1], k, s + 1)
      BY <1>1, <1>10, <2>1, <2>3, <3>1
    <3>3. \A j \in 1 .. Len(r) : j # 1 => Simple(r[j])
      BY <1>1, <1>7, <1>10, <1>14, <2>1, <2>3
    <3> QED BY <2>3, <3>2, <3>3 DEF Placed
  <2> QED BY <2>2, <2>3
<1>15. ASSUME c.cmd \notin Others, res # RES_OK, ~c.ignore PROVE Placed(r, k, 9)
  BY <1>5, <1>7, <1>13, <1>15
<1>16. ASSUME NEW f, FormatAsked(q, f) PROVE FormatAsked(r, f)
  <2> SUFFICES ASSUME NEW j \in 1 .. Len(r), NEW i \in 1 .. Len(r[j].cmds),
                      r[j].cmds[i].cmd = "CMGF", i > r[j].cindex
               PROVE  r[j].cmds[i].arg = f
    BY DEF FormatAsked
  <2>1. \A m \in 1 .. Len(q) : \A l \in 1 .. Len(q[m].cmds) :
          q[m].cmds[l].cmd = "CMGF" /\ l > q[m].cindex => q[m].cmds[l].arg = f
    BY <1>16 DEF FormatAsked
  <2>2. CASE TaskEnds(t, res)
    <3>1. j + 1 \in 1 .. Len(q) /\ r[j] = q[j + 1]
      BY <1>1, <1>11, <2>2
    <3> QED BY <2>1, <3>1
  <2>3. CASE ~TaskEnds(t, res) /\ j # 1
    BY <1>10, <2>1, <2>3
  <2>4. CASE ~TaskEnds(t, res) /\ j = 1
    <3>1. r[j] = u /\ 1 \in 1 .. Len(q) /\ q[1] = t
      BY <1>1, <1>10, <2>4
    <3>2. i \in 1 .. Len(t.cmds) /\ t.cmds[i].cmd = "CMGF" /\ i > t.cindex
      BY <1>2, <1>3, <3>1
    <3> QED BY <1>3, <2>1, <3>1, <3>2
  <2> QED BY <2>2, <2>3, <2>4
<1>17. r \in Seq(Tasks)
  BY <1>10, <1>11
<1> QED BY <1>12, <1>14, <1>15, <1>16, <1>17 DEF c, t, r

(* Tasks of other commands were added behind, or the head was written. *)
Grown(q, q2) ==
  /\ \A k, s : Placed(q, k, s) => Placed(q2, k, s)
  /\ \A f : FormatAsked(q, f) => FormatAsked(q2, f)
  /\ q # << >> => /\ q2 # << >>
                  /\ at_queue_task_cmd(Head(q2)).cmd = at_queue_task_cmd(Head(q)).cmd
                  /\ at_queue_task_cmd(Head(q2)).arg = at_queue_task_cmd(Head(q)).arg

LEMMA GrownTwice ==
  ASSUME NEW q, NEW q2, NEW q3, Grown(q, q2), Grown(q2, q3)
  PROVE  Grown(q, q3)
  BY DEF Grown

(* Equal but for what was written means the same command at the head. *)
LEMMA AlikeGrown ==
  ASSUME NEW q \in Seq(Tasks), NEW q2 \in Seq(Tasks), Alike(q, q2)
  PROVE  Grown(q, q2)
<1>1. Len(q) \in Nat
  BY LenProperties
<1>2. ASSUME q # << >>
      PROVE  /\ q2 # << >>
             /\ at_queue_task_cmd(Head(q2)).cmd = at_queue_task_cmd(Head(q)).cmd
             /\ at_queue_task_cmd(Head(q2)).arg = at_queue_task_cmd(Head(q)).arg
  <2>1. Head(q) = q[1] /\ 1 \in 1 .. Len(q) /\ Len(q2) = Len(q) /\ q[1] \in Tasks
    BY <1>2, HeadTailProperties DEF Alike
  <2>2. q2 # << >> /\ Head(q2) = q2[1]
    BY <2>1, HeadTailProperties
  <2>3. q[1].cindex + 1 \in 1 .. Len(q[1].cmds)
    BY <2>1, LenProperties DEF Tasks
  <2> QED BY <2>1, <2>2, <2>3 DEF Alike, at_queue_task_cmd
<1> QED BY <1>1, <1>2, AlikeKeeps DEF Grown

(* at_queue_run *)
LEMMA RunGrown ==
  ASSUME NEW q \in Seq(Tasks)
  PROVE  at_queue_run(q) \in Seq(Tasks) /\ Grown(q, at_queue_run(q))
  BY RunAlike, AlikeGrown

(* A task of other commands is added. *)
LEMMA AppendGrown ==
  ASSUME NEW q \in Seq(Tasks), NEW e \in Tasks, Simple(e)
  PROVE  Append(q, e) \in Seq(Tasks) /\ Grown(q, Append(q, e))
<1> DEFINE v == Append(q, e)
<1>1. /\ Len(q) \in Nat /\ v \in Seq(Tasks) /\ Len(v) = Len(q) + 1 /\ v[Len(q) + 1] = e
      /\ \A i \in 1 .. Len(q) : v[i] = q[i]
  BY AppendProperties, LenProperties
<1> HIDE DEF v
<1>2. ASSUME NEW k, NEW s, Placed(q, k, s) PROVE Placed(v, k, s)
  <2>1. ASSUME NEW j \in 1 .. Len(v) PROVE (j \in 1 .. Len(q) /\ v[j] = q[j]) \/ Simple(v[j])
    BY <1>1
  <2>2. CASE s = 9
    BY <1>2, <2>1, <2>2 DEF Placed
  <2>3. CASE s # 9
    <3>1. PICK i \in 1 .. Len(q) : /\ InitTask(q[i], k, s) /\ (k = 1 => i = 1)
                                   /\ \A j \in 1 .. Len(q) : j # i => Simple(q[j])
      BY <1>2, <2>3 DEF Placed
    <3>2. i \in 1 .. Len(v) /\ v[i] = q[i]
      BY <1>1
    <3> QED BY <2>1, <2>3, <3>1, <3>2 DEF Placed
  <2> QED BY <2>2, <2>3
<1>3. ASSUME NEW f, FormatAsked(q, f) PROVE FormatAsked(v, f)
  <2> SUFFICES ASSUME NEW j \in 1 .. Len(v), NEW i \in 1 .. Len(v[j].cmds),
                      v[j].cmds[i].cmd = "CMGF", i > v[j].cindex
               PROVE  v[j].cmds[i].arg = f
    BY DEF FormatAsked
  <2>1. CASE j = Len(q) + 1
    <3>1. v[j].cmds[i].cmd \in Others
      BY <1>1, <2>1 DEF Simple
    <3> QED BY <3>1 DEF Others
  <2>2. CASE j # Len(q) + 1
    <3>1. j \in 1 .. Len(q) /\ v[j] = q[j]
      BY <1>1, <2>2
    <3> QED BY <1>3, <3>1 DEF FormatAsked
  <2> QED BY <2>1, <2>2
<1>4. ASSUME q # << >> PROVE v # << >> /\ Head(v) = Head(q)
  <2>1. 1 \in 1 .. Len(q) /\ Head(q) = q[1]
    BY <1>1, <1>4, HeadTailProperties
  <2>2. v # << >> /\ Head(v) = v[1]
    BY <1>1, HeadTailProperties
  <2> QED BY <1>1, <2>1, <2>2
<1> QED BY <1>1, <1>2, <1>3, <1>4 DEF v, Grown

(* at_queue_insert of other commands, without overtaking *)
LEMMA InsertGrown ==
  ASSUME NEW p \in Pvts, NEW cmds \in Seq(Cmds), cmds # << >>,
         \A i \in 1 .. Len(cmds) : cmds[i].cmd \in Others,
         NEW prio \in BOOLEAN, prio => p.queue = << >>
  PROVE  LET r == at_queue_insert(p, cmds, prio)
         IN  /\ r.queue \in Seq(Tasks) /\ r = [p EXCEPT !.queue = r.queue]
             /\ Grown(p.queue, r.queue)
<1> DEFINE e == [cindex |-> 0, cmds |-> cmds]
           r == at_queue_insert(p, cmds, prio)
           q == p.queue
           a == at_queue_add(q, e, prio)
<1>1. q \in Seq(Tasks) /\ DOMAIN p = DOMAIN Disconnected
  BY DEF Pvts, Disconnected
<1>2. Len(cmds) \in Nat /\ Len(cmds) > 0
  BY EmptySeq, LenProperties
<1>3. e \in Tasks /\ Simple(e)
  BY <1>2 DEF Tasks, Simple
<1>4. a = Append(q, e)
  BY DEF at_queue_add
<1>5. a \in Seq(Tasks) /\ Grown(q, a)
  BY <1>1, <1>3, <1>4, AppendGrown
<1>6. r = [p EXCEPT !.queue = at_queue_run(a)]
  BY DEF at_queue_insert
<1>7. r.queue = at_queue_run(a)
  BY <1>1, <1>6 DEF Disconnected
<1>8. r.queue \in Seq(Tasks) /\ Grown(a, r.queue)
  BY <1>5, <1>7, RunGrown
<1>9. Grown(q, r.queue)
  BY <1>5, <1>8, GrownTwice
<1> HIDE DEF a, e
<1> QED BY <1>6, <1>7, <1>8, <1>9

(* A command as at_command.c makes it *)
LEMMA CmdIn ==
  ASSUME NEW name \in InitNames \cup Others, NEW arg \in Args
  PROVE  LET c == Cmd(name, arg)
         IN  /\ c \in Cmds /\ c.cmd = name /\ c.arg = arg
             /\ c.ignore <=> name \in {"CREG_INIT", "CSCS", "CCWA", "PING"}
             /\ name \in InitNames => c.res = RES_OK
<1>1. /\ Expected(name) \in Results
      /\ name \in InitNames => Expected(name) = RES_OK
  BY DEF Expected, Results, InitNames
<1> DEFINE c == Cmd(name, arg)
<1>2. c = [cmd |-> name, arg |-> arg, res |-> Expected(name), sent |-> FALSE,
           ignore |-> name \in {"CREG_INIT", "CSCS", "CCWA", "PING"}]
  BY DEF Cmd
<1>3. (name \in {"CREG_INIT", "CSCS", "CCWA", "PING"}) \in BOOLEAN
  OBVIOUS
<1> HIDE DEF c
<1>4. c \in Cmds
  BY <1>1, <1>2, <1>3 DEF Cmds
<1>5. /\ c.cmd = name /\ c.arg = arg /\ c.res = Expected(name)
      /\ c.ignore <=> name \in {"CREG_INIT", "CSCS", "CCWA", "PING"}
  BY <1>2
<1> QED BY <1>1, <1>4, <1>5 DEF c

(* The initialization from its first command on, and from AT+CMGF *)
LEMMA FromIs ==
  /\ Len(From("AT")) = 9 /\ \A i \in 1 .. 9 : From("AT")[i] = InitList[i]
  /\ Len(From("CMGF")) = 4 /\ \A i \in 1 .. 4 : From("CMGF")[i] = InitList[5 + i]
  /\ From("AT") \in Seq(InitNames) /\ From("CMGF") \in Seq(InitNames)
<1>1. /\ DOMAIN InitList = 1 .. 9 /\ InitList \in Seq(InitNames) /\ Len(InitList) = 9
      /\ InitList[1] = "AT" /\ InitList[2] = "U2DIAG" /\ InitList[3] = "CREG_INIT"
      /\ InitList[4] = "CREG" /\ InitList[5] = "CVOICE" /\ InitList[6] = "CMGF"
      /\ InitList[7] = "CSCS" /\ InitList[8] = "CNMI" /\ InitList[9] = "CSQ"
  BY InitCommands
<1>2. (CHOOSE j \in DOMAIN InitList : InitList[j] = "AT") = 1
  BY <1>1
<1>3. (CHOOSE j \in DOMAIN InitList : InitList[j] = "CMGF") = 6
  BY <1>1
<1>4. From("AT") = SubSeq(InitList, 1, 9) /\ From("CMGF") = SubSeq(InitList, 6, 9)
  BY <1>1, <1>2, <1>3 DEF From
<1> DEFINE a == SubSeq(InitList, 1, 9)
           b == SubSeq(InitList, 6, 9)
<1>5. \A m \in {1, 6} : /\ SubSeq(InitList, m, 9) \in Seq(InitNames)
                        /\ Len(SubSeq(InitList, m, 9)) = 9 - m + 1
                        /\ \A i \in 1 .. 9 - m + 1 : SubSeq(InitList, m, 9)[i] = InitList[m + i - 1]
  <2> SUFFICES ASSUME NEW m \in {1, 6}
               PROVE  /\ SubSeq(InitList, m, 9) \in Seq(InitNames)
                      /\ Len(SubSeq(InitList, m, 9)) = 9 - m + 1
                      /\ \A i \in 1 .. 9 - m + 1 : SubSeq(InitList, m, 9)[i] = InitList[m + i - 1]
    OBVIOUS
  <2>1. m \in Int /\ 9 \in Int /\ m <= 9 /\ \A i \in m .. 9 : InitList[i] \in InitNames
    BY InitCommands
  <2> QED BY <2>1, SubSeqProperties
<1>6. /\ a \in Seq(InitNames) /\ Len(a) = 9 /\ \A i \in 1 .. 9 : a[i] = InitList[1 + i - 1]
      /\ b \in Seq(InitNames) /\ Len(b) = 4 /\ \A i \in 1 .. 4 : b[i] = InitList[6 + i - 1]
  BY <1>5
<1>7. \A i \in Int : 1 + i - 1 = i /\ 6 + i - 1 = 5 + i
  OBVIOUS
<1> HIDE DEF a, b
<1>8. (\A i \in 1 .. 9 : a[i] = InitList[i]) /\ \A i \in 1 .. 4 : b[i] = InitList[5 + i]
  BY <1>6, <1>7
<1>9. From("AT") = a /\ From("CMGF") = b
  BY <1>4 DEF a, b
<1> QED BY <1>6, <1>8, <1>9

(* The commands e set the format f, if any. *)
AsksFor(e, f) == \A i \in 1 .. Len(e.cmds) : e.cmds[i].cmd = "CMGF" => e.cmds[i].arg = f

(* r is p with an initialization from command k on added to its queue. *)
Initializing(p, r, k) ==
  /\ r.queue \in Seq(Tasks) /\ r = [p EXCEPT !.queue = r.queue]
  /\ \E e \in Tasks : /\ InitTask(e, k, k - 1) /\ AsksFor(e, conf.fmt)
                      /\ Alike(Append(p.queue, e), r.queue)

(* at_enque_initialization *)
LEMMA InitInsert ==
  ASSUME NEW p \in Pvts, conf \in Confs, SessionAssumption,
         NEW k \in {1, 6}, NEW name, name = (IF k = 1 THEN "AT" ELSE "CMGF")
  PROVE  Initializing(p, at_enque_initialization(p, name), k)
<1> DEFINE names == From(name)
           InitCmd(nm) == Cmd(nm, IF nm = "CMGF" THEN conf.fmt ELSE "-")
           cmds == [i \in DOMAIN names |-> InitCmd(names[i])]
           e == [cindex |-> 0, cmds |-> cmds]
           r == at_enque_initialization(p, name)
           a == at_queue_add(p.queue, e, FALSE)
<1>1. /\ k \in {1, 6} /\ names \in Seq(InitNames) /\ Len(names) = 10 - k
      /\ \A i \in 1 .. 10 - k : names[i] = InitList[k - 1 + i]
  <2>1. (name = "AT" /\ k = 1) \/ (name = "CMGF" /\ k = 6)
    OBVIOUS
  <2>2. CASE name = "AT" /\ k = 1
    <3>1. /\ 10 - k = 9 /\ \A i \in 1 .. 9 : k - 1 + i = i
          /\ k \in {1, 6}
      BY <2>2
    <3> QED BY <2>2, <3>1, FromIs
  <2>3. CASE name = "CMGF" /\ k = 6
    <3>1. /\ 10 - k = 4 /\ \A i \in 1 .. 4 : k - 1 + i = 5 + i
          /\ k \in {1, 6}
      BY <2>3
    <3> QED BY <2>3, <3>1, FromIs
  <2> QED BY <2>1, <2>2, <2>3
<1>2. conf.fmt \in {"text", "pdu"}
  BY SessionAssumption
<1> HIDE DEF names
<1>3. DOMAIN names = 1 .. 10 - k /\ \A i \in 1 .. 10 - k : names[i] \in InitNames
  BY <1>1, ElementOfSeq, LenProperties
<1>4. \A i \in 1 .. 10 - k :
        /\ cmds[i] \in Cmds /\ cmds[i].cmd = names[i] /\ cmds[i].res = RES_OK
        /\ cmds[i].ignore <=> names[i] \in {"CREG_INIT", "CSCS"}
        /\ names[i] = "CMGF" => cmds[i].arg = conf.fmt
  <2> SUFFICES ASSUME NEW i \in 1 .. 10 - k
               PROVE  /\ cmds[i] \in Cmds /\ cmds[i].cmd = names[i] /\ cmds[i].res = RES_OK
                      /\ cmds[i].ignore <=> names[i] \in {"CREG_INIT", "CSCS"}
                      /\ names[i] = "CMGF" => cmds[i].arg = conf.fmt
    OBVIOUS
  <2> DEFINE nm == names[i]
             arg == IF nm = "CMGF" THEN conf.fmt ELSE "-"
  <2>1. nm \in InitNames /\ nm \in InitNames \cup Others /\ arg \in Args
    BY <1>2, <1>3 DEF Args
  <2>2. cmds[i] = Cmd(nm, arg)
    BY <1>3
  <2> HIDE DEF nm, arg, cmds
  <2>3. /\ cmds[i] \in Cmds /\ cmds[i].cmd = nm /\ cmds[i].arg = arg /\ cmds[i].res = RES_OK
        /\ cmds[i].ignore <=> nm \in {"CREG_INIT", "CSCS", "CCWA", "PING"}
    BY <2>1, <2>2, CmdIn
  <2>4. nm \notin {"CCWA", "PING"}
    BY <2>1 DEF InitNames
  <2> QED BY <2>3, <2>4 DEF nm, arg
<1>5. cmds \in Seq(Cmds) /\ Len(cmds) = 10 - k
  <2>1. DOMAIN cmds = 1 .. 10 - k /\ 10 - k \in Nat
    BY <1>1, <1>3
  <2>2. cmds \in [1 .. 10 - k -> Cmds]
    BY <1>3, <1>4, <2>1
  <2> HIDE DEF cmds
  <2> QED BY <2>1, <2>2, SeqDef, LenProperties
<1> HIDE DEF cmds
<1>6. e \in Tasks /\ InitTask(e, k, k - 1)
  BY <1>1, <1>4, <1>5 DEF Tasks, InitTask
<1>7. r = [p EXCEPT !.queue = at_queue_run(a)]
  BY DEF at_enque_initialization, at_queue_insert, names, cmds
<1>8. p.queue \in Seq(Tasks) /\ a = Append(p.queue, e) /\ a \in Seq(Tasks)
  BY <1>6, AppendProperties DEF Pvts, at_queue_add
<1>9. r.queue = at_queue_run(a)
  BY <1>7 DEF Pvts
<1>10. r.queue \in Seq(Tasks) /\ Alike(a, r.queue)
  BY <1>8, <1>9, RunAlike
<1>11. AsksFor(e, conf.fmt)
  BY <1>4, <1>5 DEF AsksFor
<1> HIDE DEF e, a, r
<1>12. /\ r.queue \in Seq(Tasks) /\ r = [p EXCEPT !.queue = r.queue]
       /\ Alike(Append(p.queue, e), r.queue)
  BY <1>7, <1>8, <1>9, <1>10
<1>13. Initializing(p, r, k)
  BY <1>6, <1>11, <1>12 DEF Initializing
<1> QED BY <1>13 DEF r

-----------------------------------------------------------------------------
(* The lines *)

(* A device with another queue *)
LEMMA Requeued ==
  ASSUME NEW p \in Pvts, NEW q \in Seq(Tasks), NEW r, r = [p EXCEPT !.queue = q]
  PROVE  /\ r \in Pvts /\ r.queue = q
         /\ r.connected = p.connected /\ r.initialized = p.initialized
         /\ r.has_voice = p.has_voice /\ r.has_sms = p.has_sms /\ r.fmt = p.fmt
         /\ r.ucs2 = p.ucs2 /\ r.gsm_registered = p.gsm_registered
BY DEF Pvts

(* The first line is handled: what is known of the others *)
LEMMA LineGone ==
  ASSUME SessionTypes, rx # << >>, rx' = Tail(rx)
  PROVE  /\ rx' \in Seq(Lines) /\ Len(rx') = Len(rx) - 1 /\ Len(rx) \in Nat /\ Len(rx) >= 1
         /\ \A i \in 1 .. Len(rx') : rx'[i] = rx[i + 1]
         /\ Head(rx) = rx[1] /\ rx[1] \in Lines
<1>1. rx \in Seq(Lines)
  BY DEF SessionTypes
<1> QED BY <1>1, HeadTailProperties, LenProperties

(* No final code is left behind one. *)
LEMMA FinalGone ==
  ASSUME SessionTypes, Wire, rx # << >>, rx' = Tail(rx), Head(rx).t \in Finals, answered' = FALSE
  PROVE  Wire'
<1>1. /\ Len(rx') = Len(rx) - 1 /\ Len(rx) \in Nat /\ Len(rx) >= 1
      /\ \A i \in 1 .. Len(rx') : rx'[i] = rx[i + 1]
      /\ Head(rx) = rx[1]
  BY LineGone
<1>2. ASSUME NEW i \in 1 .. Len(rx') PROVE rx'[i].t \notin Finals
  <2>1. i + 1 \in 1 .. Len(rx) /\ i + 1 # 1 /\ 1 \in 1 .. Len(rx) /\ rx'[i] = rx[i + 1]
    BY <1>1
  <2> QED BY <1>1, <2>1 DEF Wire
<1> QED BY <1>2 DEF Wire

(* Another line leaves the final code and the command it belongs to. *)
LEMMA OtherGone ==
  ASSUME SessionTypes, Wire, rx # << >>, rx' = Tail(rx), Head(rx).t \notin Finals,
         UNCHANGED <<answered, modem>>, Grown(pvt.queue, pvt'.queue)
  PROVE  Wire'
<1>1. /\ Len(rx') = Len(rx) - 1 /\ Len(rx) \in Nat /\ Len(rx) >= 1
      /\ \A i \in 1 .. Len(rx') : rx'[i] = rx[i + 1]
  BY LineGone
<1>2. \A i \in 1 .. Len(rx') : i + 1 \in 1 .. Len(rx)
  BY <1>1
<1>3. ASSUME NEW i \in 1 .. Len(rx'), NEW j \in 1 .. Len(rx'), rx'[i].t \in Finals, rx'[j].t \in Finals
      PROVE  i = j
  <2>1. i + 1 = j + 1
    BY <1>1, <1>2, <1>3 DEF Wire
  <2> QED BY <2>1
<1>4. ASSUME NEW i \in 1 .. Len(rx'), rx'[i].t \in Finals
      PROVE  answered' /\ Effect(rx[i], HeadCmd)'
  <2>1. rx[i + 1].t \in Finals /\ rx'[i] = rx[i + 1]
    BY <1>1, <1>4
  <2>2. answered /\ Effect(rx[i + 1], HeadCmd)
    BY <1>2, <2>1 DEF Wire
  <2>3. pvt.queue # << >>
    BY <2>2 DEF Wire
  <2>4. HeadCmd'.cmd = HeadCmd.cmd /\ HeadCmd'.arg = HeadCmd.arg
    BY <2>3 DEF Grown, HeadCmd
  <2> QED BY <2>1, <2>2, <2>4 DEF Effect
<1>5. answered' => pvt'.queue # << >>
  BY DEF Wire, Grown
<1> QED BY <1>3, <1>4, <1>5 DEF Wire

(* The registration is as known as before when another line is handled. *)
LEMMA OtherReg ==
  ASSUME SessionTypes, RegKnown, rx # << >>, rx' = Tail(rx), Head(rx).t # "CREG",
         pvt'.gsm_registered = pvt.gsm_registered, modem'.reg = modem.reg
  PROVE  RegKnown'
<1>1. /\ Len(rx') = Len(rx) - 1 /\ Len(rx) \in Nat /\ Len(rx) >= 1
      /\ \A i \in 1 .. Len(rx') : rx'[i] = rx[i + 1]
      /\ Head(rx) = rx[1]
  BY LineGone
<1>2. ASSUME \A i \in 1 .. Len(rx') : rx'[i].t # "CREG" PROVE pvt'.gsm_registered = modem'.reg
  <2>1. ASSUME NEW i \in 1 .. Len(rx) PROVE rx[i].t # "CREG"
    <3>1. i = 1 \/ (i - 1 \in 1 .. Len(rx') /\ rx'[i - 1] = rx[(i - 1) + 1] /\ (i - 1) + 1 = i)
      BY <1>1
    <3> QED BY <1>1, <1>2, <3>1
  <2> QED BY <2>1 DEF RegKnown
<1>3. ASSUME NEW i \in 1 .. Len(rx'), rx'[i].t = "CREG", \A j \in i + 1 .. Len(rx') : rx'[j].t # "CREG"
      PROVE  rx'[i].arg = IF modem'.reg THEN "registered" ELSE "searching"
  <2>1. i + 1 \in 1 .. Len(rx) /\ rx'[i] = rx[i + 1]
    BY <1>1
  <2>2. ASSUME NEW j \in i + 1 + 1 .. Len(rx) PROVE rx[j].t # "CREG"
    <3>1. j - 1 \in i + 1 .. Len(rx') /\ j - 1 \in 1 .. Len(rx') /\ (j - 1) + 1 = j
      BY <1>1
    <3>2. rx'[j - 1] = rx[(j - 1) + 1]
      BY <1>1, <3>1
    <3> QED BY <1>3, <3>1, <3>2
  <2> QED BY <1>3, <2>1, <2>2 DEF RegKnown
<1> QED BY <1>2, <1>3 DEF RegKnown

(* A report is handled. *)
LEMMA ReportReg ==
  ASSUME SessionTypes, RegKnown, rx # << >>, rx' = Tail(rx), Head(rx).t = "CREG",
         pvt'.gsm_registered = (Head(rx).arg = "registered"), modem'.reg = modem.reg
  PROVE  RegKnown'
<1>0. modem.reg \in BOOLEAN
  BY DEF SessionTypes, ModemStates
<1>1. /\ Len(rx') = Len(rx) - 1 /\ Len(rx) \in Nat /\ Len(rx) >= 1
      /\ \A i \in 1 .. Len(rx') : rx'[i] = rx[i + 1]
      /\ Head(rx) = rx[1]
  BY LineGone
<1>4. ASSUME NEW i \in 1 .. Len(rx'), NEW j \in i + 1 + 1 .. Len(rx) 
      PROVE  j - 1 \in i + 1 .. Len(rx') /\ rx'[j - 1] = rx[j]
  <2>1. j - 1 \in i + 1 .. Len(rx') /\ j - 1 \in 1 .. Len(rx') /\ (j - 1) + 1 = j
    BY <1>1
  <2>2. rx'[j - 1] = rx[(j - 1) + 1]
    BY <1>1, <2>1
  <2> QED BY <2>1, <2>2
<1>2. ASSUME \A i \in 1 .. Len(rx') : rx'[i].t # "CREG" PROVE pvt'.gsm_registered = modem'.reg
  <2>1. ASSUME NEW j \in 1 + 1 .. Len(rx) PROVE rx[j].t # "CREG"
    <3>1. j - 1 \in 1 .. Len(rx') /\ (j - 1) + 1 = j
      BY <1>1
    <3>2. rx'[j - 1] = rx[(j - 1) + 1]
      BY <1>1, <3>1
    <3> QED BY <1>2, <3>1, <3>2
  <2>2. 1 \in 1 .. Len(rx) /\ rx[1].t = "CREG"
    BY <1>1
  <2>3. rx[1].arg = IF modem.reg THEN "registered" ELSE "searching"
    BY <2>1, <2>2 DEF RegKnown
  <2>4. pvt'.gsm_registered = (rx[1].arg = "registered")
    BY <1>1
  <2> QED BY <1>0, <2>3, <2>4
<1>3. ASSUME NEW i \in 1 .. Len(rx'), rx'[i].t = "CREG", \A j \in i + 1 .. Len(rx') : rx'[j].t # "CREG"
      PROVE  rx'[i].arg = IF modem'.reg THEN "registered" ELSE "searching"
  <2>1. i + 1 \in 1 .. Len(rx) /\ rx'[i] = rx[i + 1]
    BY <1>1
  <2>2. ASSUME NEW j \in i + 1 + 1 .. Len(rx) PROVE rx[j].t # "CREG"
    BY <1>3, <1>4
  <2> QED BY <1>3, <2>1, <2>2 DEF RegKnown
<1> QED BY <1>2, <1>3 DEF RegKnown

(* Lines are added. *)
LEMMA LinesAdded ==
  ASSUME SessionTypes, NEW lines \in Seq(Lines), rx' = rx \o lines
  PROVE  /\ rx' \in Seq(Lines) /\ Len(rx) \in Nat /\ Len(lines) \in Nat
         /\ Len(rx') = Len(rx) + Len(lines)
         /\ \A i \in 1 .. Len(rx) : i \in 1 .. Len(rx') /\ rx'[i] = rx[i]
         /\ \A i \in 1 .. Len(lines) : Len(rx) + i \in 1 .. Len(rx') /\ rx'[Len(rx) + i] = lines[i]
         /\ \A i \in 1 .. Len(rx') : \/ i \in 1 .. Len(rx)
                                     \/ i - Len(rx) \in 1 .. Len(lines) /\ Len(rx) + (i - Len(rx)) = i
<1>1. rx \in Seq(Lines)
  BY DEF SessionTypes
<1>2. /\ Len(rx) \in Nat /\ Len(lines) \in Nat
  BY <1>1, LenProperties
<1> DEFINE v == rx \o lines
<1>3. /\ v \in Seq(Lines) /\ Len(v) = Len(rx) + Len(lines)
      /\ \A i \in 1 .. Len(rx) + Len(lines) : v[i] = IF i <= Len(rx) THEN rx[i] ELSE lines[i - Len(rx)]
  BY <1>1, ConcatProperties
<1> HIDE DEF v
<1>4. \A i \in 1 .. Len(rx) : i \in 1 .. Len(v) /\ v[i] = rx[i]
  BY <1>2, <1>3
<1>5. ASSUME NEW i \in 1 .. Len(lines)
      PROVE  Len(rx) + i \in 1 .. Len(v) /\ v[Len(rx) + i] = lines[i]
  <2>1. /\ Len(rx) + i \in 1 .. Len(rx) + Len(lines) /\ ~(Len(rx) + i <= Len(rx))
        /\ (Len(rx) + i) - Len(rx) = i
    BY <1>2
  <2> QED BY <1>3, <2>1
<1>6. \A i \in 1 .. Len(v) : \/ i \in 1 .. Len(rx)
                             \/ i - Len(rx) \in 1 .. Len(lines) /\ Len(rx) + (i - Len(rx)) = i
  BY <1>2, <1>3
<1>7. rx' = v
  BY DEF v
<1> QED BY <1>2, <1>3, <1>4, <1>5, <1>6, <1>7

(* The head command is answered: by one final code, the line f. *)
LEMMA AnswerWire ==
  ASSUME SessionTypes, Wire, ~answered, pvt.queue # << >>, answered' = TRUE, pvt' = pvt,
         NEW lines \in Seq(Lines), rx' = rx \o lines, NEW f \in 1 .. Len(lines),
         \A i \in 1 .. Len(lines) : lines[i].t \in Finals => i = f,
         Effect(lines[f], HeadCmd)'
  PROVE  Wire'
<1>1. /\ \A i \in 1 .. Len(rx) : rx'[i] = rx[i]
      /\ \A i \in 1 .. Len(lines) : rx'[Len(rx) + i] = lines[i]
      /\ \A i \in 1 .. Len(rx') : \/ i \in 1 .. Len(rx)
                                  \/ i - Len(rx) \in 1 .. Len(lines) /\ Len(rx) + (i - Len(rx)) = i
  BY LinesAdded
<1>2. ASSUME NEW i \in 1 .. Len(rx'), rx'[i].t \in Finals
      PROVE  i = Len(rx) + f /\ rx'[i] = lines[f]
  <2>1. i \notin 1 .. Len(rx)
    BY <1>1, <1>2 DEF Wire
  <2>2. i - Len(rx) \in 1 .. Len(lines) /\ Len(rx) + (i - Len(rx)) = i
    BY <1>1, <2>1
  <2>3. rx'[i] = lines[i - Len(rx)]
    BY <1>1, <2>2
  <2>4. i - Len(rx) = f
    BY <1>2, <2>2, <2>3
  <2> QED BY <2>2, <2>3, <2>4
<1>3. \A i \in 1 .. Len(rx') : rx'[i].t \in Finals => answered' /\ Effect(rx[i], HeadCmd)'
  BY <1>2
<1>4. \A i, j \in 1 .. Len(rx') : rx'[i].t \in Finals /\ rx'[j].t \in Finals => i = j
  BY <1>2
<1> QED BY <1>3, <1>4 DEF Wire

(* A line that answers nothing comes in. *)
LEMMA NewsWire ==
  ASSUME SessionTypes, Wire, UNCHANGED <<pvt, answered>>, NEW l \in Lines, l.t \notin Finals,
         rx' = Append(rx, l), modem'.voice = modem.voice, modem'.charset = modem.charset,
         modem'.fmt = modem.fmt, modem'.ucs2 = modem.ucs2, modem'.creg = modem.creg
  PROVE  Wire'
<1>1. rx \in Seq(Lines) /\ Len(rx) \in Nat
  BY LenProperties DEF SessionTypes
<1>2. /\ Len(rx') = Len(rx) + 1 /\ rx'[Len(rx) + 1] = l /\ \A i \in 1 .. Len(rx) : rx'[i] = rx[i]
  BY <1>1, AppendProperties
<1>3. ASSUME NEW i \in 1 .. Len(rx'), rx'[i].t \in Finals
      PROVE  i \in 1 .. Len(rx) /\ rx'[i] = rx[i]
  BY <1>1, <1>2, <1>3
<1>4. ASSUME NEW i \in 1 .. Len(rx'), rx'[i].t \in Finals
      PROVE  answered' /\ Effect(rx[i], HeadCmd)'
  <2>1. i \in 1 .. Len(rx) /\ rx'[i] = rx[i]
    BY <1>3, <1>4
  <2>2. answered /\ Effect(rx[i], HeadCmd)
    BY <1>4, <2>1 DEF Wire
  <2>3. HeadCmd' = HeadCmd
    BY DEF HeadCmd
  <2> QED BY <2>1, <2>2, <2>3 DEF Effect
<1> QED BY <1>3, <1>4 DEF Wire

(* Lines without a report are added. *)
LEMMA NoReportReg ==
  ASSUME SessionTypes, NEW lines \in Seq(Lines), rx' = rx \o lines, RegKnown,
         \A i \in 1 .. Len(lines) : lines[i].t # "CREG",
         pvt'.gsm_registered = pvt.gsm_registered, modem'.reg = modem.reg
  PROVE  RegKnown'
<1>1. /\ Len(rx) \in Nat /\ Len(rx') \in Nat
      /\ \A i \in 1 .. Len(rx) : i \in 1 .. Len(rx') /\ rx'[i] = rx[i]
      /\ \A i \in 1 .. Len(lines) : rx'[Len(rx) + i] = lines[i]
      /\ \A i \in 1 .. Len(rx') : \/ i \in 1 .. Len(rx)
                                  \/ i - Len(rx) \in 1 .. Len(lines) /\ Len(rx) + (i - Len(rx)) = i
  BY LinesAdded, LenProperties
<1>2. ASSUME NEW i \in 1 .. Len(rx'), rx'[i].t = "CREG"
      PROVE  i \in 1 .. Len(rx) /\ rx'[i] = rx[i]
  BY <1>1, <1>2
<1>3. ASSUME \A i \in 1 .. Len(rx') : rx'[i].t # "CREG" PROVE pvt'.gsm_registered = modem'.reg
  BY <1>1, <1>3 DEF RegKnown
<1>4. ASSUME NEW i \in 1 .. Len(rx'), rx'[i].t = "CREG", \A j \in i + 1 .. Len(rx') : rx'[j].t # "CREG"
      PROVE  rx'[i].arg = IF modem'.reg THEN "registered" ELSE "searching"
  <2>1. i \in 1 .. Len(rx) /\ rx'[i] = rx[i]
    BY <1>2, <1>4
  <2>2. ASSUME NEW j \in i + 1 .. Len(rx) PROVE rx[j].t # "CREG"
    <3>1. j \in 1 .. Len(rx) 
      BY <1>1
    <3>2. j \in 1 .. Len(rx') /\ rx'[j] = rx[j]
      BY <1>1, <3>1
    <3>3. j \in i + 1 .. Len(rx')
      BY <1>1, <3>2
    <3> QED BY <1>4, <3>2, <3>3
  <2> QED BY <1>4, <2>1, <2>2 DEF RegKnown
<1> QED BY <1>3, <1>4 DEF RegKnown

(* A true report is the last line about the registration. *)
LEMMA TrueReportReg ==
  ASSUME SessionTypes, NEW lines \in Seq(Lines), rx' = rx \o lines, NEW c \in 1 .. Len(lines),
         lines[c].t = "CREG", lines[c].arg = (IF modem'.reg THEN "registered" ELSE "searching"),
         \A i \in 1 .. Len(lines) : i # c => lines[i].t # "CREG"
  PROVE  RegKnown'
<1>1. /\ Len(rx) \in Nat /\ Len(rx') \in Nat /\ Len(lines) \in Nat
      /\ Len(rx') = Len(rx) + Len(lines)
      /\ \A i \in 1 .. Len(lines) : Len(rx) + i \in 1 .. Len(rx') /\ rx'[Len(rx) + i] = lines[i]
      /\ \A i \in 1 .. Len(rx') : \/ i \in 1 .. Len(rx)
                                  \/ i - Len(rx) \in 1 .. Len(lines) /\ Len(rx) + (i - Len(rx)) = i
  BY LinesAdded, LenProperties
<1>2. Len(rx) + c \in 1 .. Len(rx') /\ rx'[Len(rx) + c] = lines[c]
  BY <1>1
<1>3. ASSUME NEW i \in 1 .. Len(rx'), rx'[i].t = "CREG", \A j \in i + 1 .. Len(rx') : rx'[j].t # "CREG"
      PROVE  i = Len(rx) + c
  <2>1. ~(Len(rx) + c \in i + 1 .. Len(rx'))
    BY <1>2, <1>3
  <2>2. i >= Len(rx) + c
    BY <1>1, <1>2, <2>1
  <2>3. i - Len(rx) \in 1 .. Len(lines) /\ Len(rx) + (i - Len(rx)) = i
    BY <1>1, <2>2
  <2>4. rx'[i] = lines[i - Len(rx)]
    BY <1>1, <2>3
  <2>5. i - Len(rx) = c
    BY <1>3, <2>3, <2>4
  <2> QED BY <2>3, <2>5
<1> QED BY <1>2, <1>3 DEF RegKnown

-----------------------------------------------------------------------------
(* The steps *)

(* Where a command of the initialization is *)
LEMMA NamedStage ==
  \A s \in 0 .. 8 : /\ InitList[s + 1] = "AT" <=> s = 0
                    /\ InitList[s + 1] = "U2DIAG" <=> s = 1
                    /\ InitList[s + 1] = "CREG_INIT" <=> s = 2
                    /\ InitList[s + 1] = "CREG" <=> s = 3
                    /\ InitList[s + 1] = "CVOICE" <=> s = 4
                    /\ InitList[s + 1] = "CMGF" <=> s = 5
                    /\ InitList[s + 1] = "CSCS" <=> s = 6
                    /\ InitList[s + 1] = "CNMI" <=> s = 7
                    /\ InitList[s + 1] = "CSQ" <=> s = 8
<1> SUFFICES ASSUME NEW s \in 0 .. 8
             PROVE  /\ InitList[s + 1] = "AT" <=> s = 0
                    /\ InitList[s + 1] = "U2DIAG" <=> s = 1
                    /\ InitList[s + 1] = "CREG_INIT" <=> s = 2
                    /\ InitList[s + 1] = "CREG" <=> s = 3
                    /\ InitList[s + 1] = "CVOICE" <=> s = 4
                    /\ InitList[s + 1] = "CMGF" <=> s = 5
                    /\ InitList[s + 1] = "CSCS" <=> s = 6
                    /\ InitList[s + 1] = "CNMI" <=> s = 7
                    /\ InitList[s + 1] = "CSQ" <=> s = 8
  OBVIOUS
<1>1. s \in {0, 1, 2, 3, 4, 5, 6, 7, 8}
  OBVIOUS
<1>2. 0 + 1 = 1 /\ 1 + 1 = 2 /\ 2 + 1 = 3 /\ 3 + 1 = 4 /\ 4 + 1 = 5 /\ 5 + 1 = 6 /\ 6 + 1 = 7
      /\ 7 + 1 = 8 /\ 8 + 1 = 9
  OBVIOUS
<1> QED BY <1>1, <1>2, InitCommands

(* The command at the head and how far the initialization is *)
LEMMA StageHead ==
  ASSUME SessionTypes, pvt.queue # << >>, NEW k \in Nat, NEW s \in Nat, Stage(k, s)
  PROVE  /\ HeadCmd \in Cmds
         /\ HeadCmd.cmd \in Others => (k = 1 => s = 9)
         /\ HeadCmd.cmd \notin Others =>
              /\ s \in 0 .. 8 /\ HeadCmd.cmd = InitList[s + 1] /\ HeadCmd.res = RES_OK
              /\ HeadCmd.ignore <=> HeadCmd.cmd \in {"CREG_INIT", "CSCS"}
<1>1. /\ pvt.queue \in Seq(Tasks) /\ k \in {1, 6} /\ s \in k - 1 .. 9 /\ Placed(pvt.queue, k, s)
  BY DEF SessionTypes, Pvts, Stage
<1> QED BY <1>1, HeadTask DEF HeadCmd

(* The device is given up. *)
LEMMA GivenUp ==
  ASSUME SessionInv, NEW m \in ModemStates, m.ucs2 => m.charset, Disconnect(m)
  PROVE  SessionInv'
<1>1. /\ pvt' = Disconnected /\ rx' = << >> /\ answered' = FALSE /\ raced' = FALSE /\ conf' = conf
      /\ \/ modem' = m
         \/ modem' = [m EXCEPT !.fmt = "text", !.ucs2 = FALSE, !.creg = FALSE, !.cnmi = FALSE]
  BY DEF Disconnect, disconnect_datacard
<1>2. modem' \in ModemStates /\ (modem'.ucs2 => modem'.charset)
  BY <1>1 DEF ModemStates, Args
<1>3. Disconnected \in Pvts /\ Disconnected.queue = << >> /\ ~Disconnected.connected
  BY EmptySeq DEF Pvts, Disconnected
<1>4. SessionTypes'
  BY <1>1, <1>2, <1>3, EmptySeq DEF SessionTypes, SessionInv
<1>5. Wire'
  BY <1>1 DEF Wire
<1>6. FormatAsked(pvt'.queue, conf'.fmt)
  BY <1>1, <1>3 DEF FormatAsked
<1>7. ~pvt'.connected
  BY <1>1, <1>3
<1> QED BY <1>1, <1>2, <1>4, <1>5, <1>6, <1>7 DEF SessionInv

(* Steps that answer nothing *)
LEMMA GrownInv ==
  ASSUME SessionInv, pvt.connected,
         pvt' \in Pvts, pvt'.connected = pvt.connected, pvt'.initialized = pvt.initialized,
         pvt'.has_voice = pvt.has_voice, pvt'.has_sms = pvt.has_sms, pvt'.fmt = pvt.fmt,
         pvt'.ucs2 = pvt.ucs2, Grown(pvt.queue, pvt'.queue),
         modem' \in ModemStates, modem'.voice = modem.voice, modem'.charset = modem.charset,
         modem'.fmt = modem.fmt, modem'.ucs2 = modem.ucs2, modem'.creg = modem.creg,
         UNCHANGED <<conf, raced, answered>>, rx' \in Seq(Lines), Wire',
         modem.creg /\ RegKnown => RegKnown'
  PROVE  SessionInv'
<1>1. SessionTypes'
  BY DEF SessionInv, SessionTypes
<1>2. PICK k \in Nat, s \in Nat : Stage(k, s)
  BY DEF SessionInv
<1>3. Placed(pvt'.queue, k, s)
  BY <1>2 DEF Grown, Stage
<1>4. Believed(s)'
  BY <1>2 DEF Stage, Believed
<1>5. Stage(k, s)'
  BY <1>2, <1>3, <1>4 DEF Stage
<1>6. raced' \/ FormatAsked(pvt'.queue, conf'.fmt)
  BY DEF SessionInv, Grown
<1>7. /\ pvt'.connected /\ (modem'.ucs2 => modem'.charset)
  BY DEF SessionInv
<1> QED BY <1>1, <1>5, <1>6, <1>7 DEF SessionInv

(* The modem answers. *)
LEMMA AnswerInv ==
  ASSUME SessionInv, Executing, UNCHANGED <<pvt, conf, raced>>, answered' = TRUE,
         NEW lines \in Seq(Lines), rx' = rx \o lines, NEW f \in 1 .. Len(lines),
         \A i \in 1 .. Len(lines) : lines[i].t \in Finals => i = f,
         Effect(lines[f], HeadCmd)',
         modem' \in ModemStates, modem'.voice = modem.voice, modem'.charset = modem.charset,
         modem'.reg = modem.reg, modem.creg => modem'.creg,
         modem'.fmt = modem.fmt \/ HeadCmd.cmd = "CMGF",
         modem'.ucs2 = modem.ucs2 \/ (HeadCmd.cmd = "CSCS" /\ modem'.ucs2 /\ modem.charset),
         \/ HeadCmd.cmd # "CREG" /\ \A i \in 1 .. Len(lines) : lines[i].t # "CREG"
         \/ \E c \in 1 .. Len(lines) :
              /\ lines[c].t = "CREG"
              /\ lines[c].arg = (IF modem'.reg THEN "registered" ELSE "searching")
              /\ \A i \in 1 .. Len(lines) : i # c => lines[i].t # "CREG"
  PROVE  SessionInv'
<1>1. pvt.connected /\ ~answered /\ pvt.queue # << >>
  BY DEF Executing, HeadSent
<1>2. SessionTypes /\ Wire
  BY DEF SessionInv
<1>3. rx' \in Seq(Lines)
  BY <1>2, LinesAdded
<1>4. SessionTypes'
  BY <1>2, <1>3 DEF SessionTypes
<1>5. Wire'
  BY <1>1, <1>2, AnswerWire
<1>6. PICK k \in Nat, s \in Nat : Stage(k, s)
  BY <1>1 DEF SessionInv
<1>7. /\ HeadCmd.cmd \in Others => (k = 1 => s = 9)
      /\ HeadCmd.cmd \notin Others => s \in 0 .. 8 /\ HeadCmd.cmd = InitList[s + 1]
  BY <1>1, <1>2, <1>6, StageHead
<1>8. /\ HeadCmd.cmd = "CMGF" => s = 5
      /\ HeadCmd.cmd = "CSCS" => s = 6
      /\ s = 3 => HeadCmd.cmd = "CREG"
  <2>1. "CMGF" \notin Others /\ "CSCS" \notin Others
    BY DEF Others
  <2>2. s = 3 => k = 1
    BY <1>6 DEF Stage
  <2> QED BY <1>7, <2>1, <2>2, NamedStage
<1>9. RegKnown => RegKnown'
  BY <1>2, NoReportReg, TrueReportReg
<1>10. s = 3 => RegKnown'
  BY <1>2, <1>8, TrueReportReg
<1>11. Believed(s)'
  BY <1>6, <1>8, <1>9, <1>10 DEF Stage, Believed
<1>12. Stage(k, s)'
  BY <1>6, <1>11 DEF Stage
<1>13. modem'.ucs2 => modem'.charset
  BY DEF SessionInv
<1> QED BY <1>1, <1>4, <1>5, <1>12, <1>13 DEF SessionInv

(* The initialization is queued. *)
LEMMA ConnectInv == ASSUME SessionInv, SessionAssumption, Connect PROVE SessionInv'
<1> DEFINE p == [pvt EXCEPT !.connected = TRUE]
           r == at_enque_initialization(p, "AT")
<1>1. /\ ~pvt.connected /\ pvt' = r
      /\ UNCHANGED <<conf, rx, answered, modem, raced>>
  BY DEF Connect
<1>2. SessionTypes /\ pvt = Disconnected /\ rx = << >> /\ ~answered
  BY <1>1 DEF SessionInv
<1>3. /\ p \in Pvts /\ p.connected /\ ~p.initialized /\ p.queue = << >>
  BY <1>2 DEF SessionTypes, Pvts, Disconnected
<1> HIDE DEF p
<1>4. Initializing(p, r, 1)
  <2>1. conf \in Confs /\ "AT" = (IF 1 = 1 THEN "AT" ELSE "CMGF")
    BY <1>2 DEF SessionTypes
  <2> QED BY <1>3, <2>1, InitInsert
<1> HIDE DEF r
<1>5. r \in Pvts /\ r.connected /\ ~r.initialized
  BY <1>3, <1>4, Requeued DEF Initializing
<1>6. PICK e \in Tasks : /\ InitTask(e, 1, 0) /\ AsksFor(e, conf.fmt)
                         /\ Alike(Append(p.queue, e), r.queue)
  <2>1. 1 - 1 = 0
    OBVIOUS
  <2> QED BY <1>4, <2>1 DEF Initializing
<1> DEFINE a == Append(p.queue, e)
<1>7. Len(a) = 1 /\ a[1] = e
  BY <1>3
<1> HIDE DEF a
<1>8. Placed(a, 1, 0) /\ FormatAsked(a, conf.fmt)
  <2>1. Placed(a, 1, 0)
    BY <1>6, <1>7 DEF Placed
  <2>2. FormatAsked(a, conf.fmt)
    BY <1>6, <1>7 DEF FormatAsked, AsksFor
  <2> QED BY <2>1, <2>2
<1>9. Placed(r.queue, 1, 0) /\ FormatAsked(r.queue, conf.fmt)
  <2>1. Alike(a, r.queue) /\ Len(a) \in Nat
    BY <1>6, <1>7 DEF a
  <2> QED BY <1>8, <2>1, AlikeKeeps
<1>10. SessionTypes'
  BY <1>1, <1>2, <1>5 DEF SessionTypes
<1>11. Wire'
  <2>1. Len(rx') = 0 /\ ~answered'
    BY <1>1, <1>2
  <2> QED BY <2>1 DEF Wire
<1>12. Stage(1, 0)'
  <2>1. Believed(0)'
    BY DEF Believed
  <2> QED BY <1>1, <1>5, <1>9, <2>1 DEF Stage
<1>13. modem'.ucs2 => modem'.charset
  BY <1>1 DEF SessionInv
<1> QED BY <1>1, <1>5, <1>9, <1>10, <1>11, <1>12, <1>13 DEF SessionInv

(* The device is lost or stopped. *)
LEMMA LossInv == ASSUME SessionInv, Lost \/ Terminate PROVE SessionInv'
<1>1. modem \in ModemStates /\ (modem.ucs2 => modem.charset)
  BY DEF SessionInv, SessionTypes
<1>2. CASE Terminate
  BY <1>1, <1>2, GivenUp DEF Terminate
<1>3. CASE Lost
  <2> DEFINE m == [modem EXCEPT !.lost = @ + 1]
  <2>1. m \in ModemStates /\ m.ucs2 = modem.ucs2 /\ m.charset = modem.charset
    BY <1>1 DEF ModemStates
  <2>2. Disconnect(m)
    BY <1>3 DEF Lost
  <2> HIDE DEF m
  <2> QED BY <1>1, <2>1, <2>2, GivenUp
<1> QED BY <1>2, <1>3

(* Nothing but the request to stop *)
LEMMA SameInv ==
  ASSUME SessionInv, UNCHANGED <<pvt, conf, rx, answered, modem, raced>>
  PROVE  SessionInv'
<1>1. SessionTypes' /\ Wire'
  BY DEF SessionInv, SessionTypes, Wire, Effect, HeadCmd
<1>2. ASSUME NEW k \in Nat, NEW s \in Nat, Stage(k, s) PROVE Stage(k, s)'
  BY <1>2 DEF Stage, Believed, RegKnown
<1> QED BY <1>1, <1>2 DEF SessionInv

(* The settings are replaced. *)
LEMMA ReloadInv == ASSUME SessionInv, Reload PROVE SessionInv'
<1>1. /\ conf' \in Confs /\ modem' = [modem EXCEPT !.reloads = @ + 1]
      /\ raced' = (raced \/ (Pending("CMGF") /\ conf'.fmt # conf.fmt))
      /\ UNCHANGED <<pvt, rx, answered>>
  BY DEF Reload
<1>2. SessionTypes /\ Wire
  BY DEF SessionInv
<1>3. /\ modem' \in ModemStates /\ modem'.voice = modem.voice /\ modem'.charset = modem.charset
      /\ modem'.reg = modem.reg /\ modem'.fmt = modem.fmt /\ modem'.ucs2 = modem.ucs2
      /\ modem'.creg = modem.creg
  BY <1>1, <1>2 DEF SessionTypes, ModemStates
<1>4. raced' \in BOOLEAN /\ (raced => raced')
  BY <1>1
<1>5. SessionTypes'
  BY <1>1, <1>2, <1>3, <1>4 DEF SessionTypes
<1>6. Wire'
  BY <1>1, <1>2, <1>3 DEF Wire, Effect, HeadCmd
<1>7. ASSUME ~raced' PROVE FormatAsked(pvt'.queue, conf'.fmt)
  <2>1. FormatAsked(pvt.queue, conf.fmt)
    BY <1>4, <1>7 DEF SessionInv
  <2>2. CASE conf'.fmt = conf.fmt
    BY <1>1, <2>1, <2>2
  <2>3. CASE ~Pending("CMGF")
    <3>1. pvt.queue \in Seq(Tasks)
      BY <1>2 DEF SessionTypes, Pvts
    <3>2. ASSUME NEW j \in 1 .. Len(pvt.queue), NEW i \in 1 .. Len(pvt.queue[j].cmds),
                 pvt.queue[j].cmds[i].cmd = "CMGF", i > pvt.queue[j].cindex
          PROVE  FALSE
      <4>1. j \in DOMAIN pvt.queue /\ pvt.queue[j] \in Tasks
        BY <3>1
      <4>2. pvt.queue[j].cmds \in Seq(Cmds)
        BY <4>1 DEF Tasks
      <4>3. i \in DOMAIN pvt.queue[j].cmds
        BY <4>2
      <4> QED BY <2>3, <3>2, <4>1, <4>3 DEF Pending
    <3> QED BY <1>1, <3>2 DEF FormatAsked
  <2> QED BY <1>1, <1>7, <2>2, <2>3
<1>8. ASSUME NEW k \in Nat, NEW s \in Nat, Stage(k, s) PROVE Stage(k, s)'
  <2>1. RegKnown => RegKnown'
    BY <1>1, <1>3 DEF RegKnown
  <2>2. Believed(s)'
    BY <1>1, <1>3, <1>4, <1>8, <2>1 DEF Stage, Believed
  <2> QED BY <1>1, <1>3, <1>8, <2>2 DEF Stage
<1> QED BY <1>1, <1>3, <1>5, <1>6, <1>7, <1>8 DEF SessionInv

(* Another thread or the monitor queues a task of other commands. *)
LEMMA QueuedInv ==
  ASSUME SessionInv, pvt.connected, NEW cmds \in Seq(Cmds), cmds # << >>,
         \A i \in 1 .. Len(cmds) : cmds[i].cmd \in Others,
         NEW prio \in BOOLEAN, prio => pvt.queue = << >>,
         pvt' = at_queue_insert(pvt, cmds, prio), UNCHANGED <<conf, rx, answered, modem, raced>>
  PROVE  SessionInv'
<1>1. SessionTypes /\ Wire /\ pvt \in Pvts
  BY DEF SessionInv, SessionTypes
<1>2. pvt'.queue \in Seq(Tasks) /\ pvt' = [pvt EXCEPT !.queue = pvt'.queue] /\ Grown(pvt.queue, pvt'.queue)
  BY <1>1, InsertGrown
<1>3. /\ pvt' \in Pvts
      /\ pvt'.connected = pvt.connected /\ pvt'.initialized = pvt.initialized
      /\ pvt'.has_voice = pvt.has_voice /\ pvt'.has_sms = pvt.has_sms /\ pvt'.fmt = pvt.fmt
      /\ pvt'.ucs2 = pvt.ucs2 /\ pvt'.gsm_registered = pvt.gsm_registered
  <2> DEFINE q == pvt'.queue
  <2>1. q \in Seq(Tasks) /\ pvt' = [pvt EXCEPT !.queue = q]
    BY <1>2
  <2> HIDE DEF q
  <2> QED BY <1>1, <2>1 DEF Pvts
<1>4. Wire'
  <2>1. ASSUME NEW i \in 1 .. Len(rx), rx[i].t \in Finals
        PROVE  answered' /\ Effect(rx[i], HeadCmd)'
    <3>1. answered /\ Effect(rx[i], HeadCmd) /\ pvt.queue # << >>
      BY <1>1, <2>1 DEF Wire
    <3>2. HeadCmd'.cmd = HeadCmd.cmd /\ HeadCmd'.arg = HeadCmd.arg
      BY <1>2, <3>1 DEF Grown, HeadCmd
    <3> QED BY <3>1, <3>2 DEF Effect
  <2> QED BY <1>1, <1>2, <2>1 DEF Wire, Grown
<1>5. RegKnown => RegKnown'
  BY <1>3 DEF RegKnown
<1>6. rx' \in Seq(Lines) /\ modem' \in ModemStates
  BY <1>1 DEF SessionTypes
<1> QED BY <1>2, <1>3, <1>4, <1>5, <1>6, GrownInv

(* A message or a code is sent. *)
LEMMA SendInv == ASSUME SessionInv, NEW o \in Out, send2(o) PROVE SessionInv'
<1>1. pvt.connected /\ UNCHANGED <<conf, rx, answered, modem, raced>>
  BY DEF send2, Online
<1>2. pvt.fmt \in Args /\ o \in Args
  BY DEF SessionInv, SessionTypes, Pvts, Args
<1>3. CASE pvt' = at_enque_sms(pvt, o)
  <2> DEFINE a == Cmd("CMGS", pvt.fmt)
             b == Cmd("SMSTEXT", o)
  <2>1. a \in Cmds /\ b \in Cmds /\ a.cmd = "CMGS" /\ b.cmd = "SMSTEXT"
    BY <1>2, CmdIn DEF Others
  <2>2. pvt' = at_queue_insert(pvt, <<a, b>>, FALSE)
    BY <1>3 DEF at_enque_sms
  <2> HIDE DEF a, b
  <2>3. <<a, b>> \in Seq(Cmds) /\ <<a, b>> # << >> /\ \A i \in 1 .. Len(<<a, b>>) : <<a, b>>[i].cmd \in Others
    BY <2>1 DEF Others
  <2> QED BY <1>1, <2>2, <2>3, QueuedInv
<1>4. CASE pvt' = at_enque_ussd(pvt, o)
  <2> DEFINE a == Cmd("CUSD", o)
  <2>1. a \in Cmds /\ a.cmd = "CUSD"
    BY <1>2, CmdIn DEF Others
  <2>2. pvt' = at_queue_insert(pvt, <<a>>, FALSE)
    BY <1>4 DEF at_enque_ussd
  <2> HIDE DEF a
  <2>3. <<a>> \in Seq(Cmds) /\ <<a>> # << >> /\ \A i \in 1 .. Len(<<a>>) : <<a>>[i].cmd \in Others
    BY <2>1 DEF Others
  <2> QED BY <1>1, <2>2, <2>3, QueuedInv
<1> QED BY <1>3, <1>4 DEF send2

(* The modem is asked whether it is there. *)
LEMMA PingInv == ASSUME SessionInv, Ping PROVE SessionInv'
<1>1. pvt.connected /\ pvt.queue = << >> /\ UNCHANGED <<conf, rx, answered, modem, raced>>
  BY DEF Ping
<1> DEFINE a == Cmd("PING", "-")
<1>2. a \in Cmds /\ a.cmd = "PING"
  BY CmdIn DEF Others, Args
<1>3. pvt' = at_queue_insert(pvt, <<a>>, TRUE)
  BY DEF Ping, at_enque_ping
<1> HIDE DEF a
<1>4. <<a>> \in Seq(Cmds) /\ <<a>> # << >> /\ \A i \in 1 .. Len(<<a>>) : <<a>>[i].cmd \in Others
  BY <1>2 DEF Others
<1> QED BY <1>1, <1>3, <1>4, QueuedInv

(* Lines of the modem *)
LEMMA LineIn ==
  ASSUME NEW t \in Finals \cup {"CREG", "CUSD", "CPIN", "CMTI"},
         NEW arg \in {"-", "registered", "searching"} \cup In
  PROVE  Line(t, arg) \in Lines /\ Line(t, arg).t = t /\ Line(t, arg).arg = arg
BY DEF Line, Lines

LEMMA CregLineIn ==
  ASSUME NEW reg \in BOOLEAN
  PROVE  /\ CregLine(reg) \in Lines /\ CregLine(reg).t = "CREG"
         /\ CregLine(reg).arg = IF reg THEN "registered" ELSE "searching"
<1>1. (IF reg THEN "registered" ELSE "searching") \in {"-", "registered", "searching"} \cup In
  OBVIOUS
<1> QED BY <1>1, LineIn DEF CregLine

(* The modem answers by one line and stays as it is. *)
LEMMA SingleAnswerInv ==
  ASSUME SessionInv, Executing, NEW t \in Finals, Reply(<<Line(t, "-")>>, modem), HeadCmd.cmd # "CREG",
         Effect(Line(t, "-"), HeadCmd)
  PROVE  SessionInv'
<1> DEFINE l == Line(t, "-")
           lines == <<l>>
<1>1. l \in Lines /\ l.t = t
  BY LineIn
<1>2. rx' = rx \o lines /\ answered' = TRUE /\ UNCHANGED <<modem, pvt, conf, raced>>
  BY DEF Reply
<1>3. Effect(l, HeadCmd)'
  BY <1>2 DEF Effect, HeadCmd
<1> HIDE DEF l
<1>4. /\ lines \in Seq(Lines) /\ Len(lines) = 1 /\ lines[1] = l
  BY <1>1
<1>5. /\ \A i \in 1 .. Len(lines) : i = 1 /\ lines[i].t # "CREG"
      /\ 1 \in 1 .. Len(lines) /\ Effect(lines[1], HeadCmd)'
  BY <1>1, <1>3, <1>4 DEF Finals
<1> HIDE DEF lines
<1>6. modem' \in ModemStates
  BY <1>2 DEF SessionInv, SessionTypes
<1> QED BY <1>2, <1>4, <1>5, <1>6, AnswerInv

(* The modem answers by OK and another line. *)
LEMMA DoubleAnswerInv ==
  ASSUME SessionInv, Executing, NEW l \in Lines, l.t \notin Finals, HeadCmd.cmd \in {"AT", "CREG", "CUSD"},
         IF l.t = "CREG" THEN l = CregLine(modem.reg) ELSE HeadCmd.cmd # "CREG",
         Reply(<<l, Ok>>, modem) \/ Reply(<<Ok, l>>, modem)
  PROVE  SessionInv'
<1>1. Ok \in Lines /\ Ok.t = "OK" /\ Ok.t \in Finals
  BY LineIn DEF Ok, Finals
<1>2. answered' = TRUE /\ UNCHANGED <<modem, pvt, conf, raced>>
  BY DEF Reply
<1>3. Effect(Ok, HeadCmd)'
  <2>1. HeadCmd' = HeadCmd
    BY <1>2 DEF HeadCmd
  <2> QED BY <1>1, <2>1 DEF Effect
<1>4. modem' \in ModemStates /\ modem.reg \in BOOLEAN
  BY <1>2 DEF SessionInv, SessionTypes, ModemStates
<1>5. l.t = "CREG" => l.arg = (IF modem'.reg THEN "registered" ELSE "searching")
  BY <1>2, <1>4, CregLineIn
<1>6. ASSUME NEW lines \in Seq(Lines), rx' = rx \o lines, Len(lines) = 2,
             NEW f \in {1, 2}, lines[f] = Ok, lines[3 - f] = l
      PROVE  SessionInv'
  <2>1. /\ f \in 1 .. Len(lines) /\ 3 - f \in 1 .. Len(lines)
        /\ \A i \in 1 .. Len(lines) : i = f \/ i = 3 - f
    BY <1>6
  <2>2. \A i \in 1 .. Len(lines) : lines[i].t \in Finals => i = f
    BY <1>1, <1>6, <2>1
  <2>3. Effect(lines[f], HeadCmd)'
    BY <1>2, <1>3, <1>6 DEF Effect, HeadCmd
  <2>4. \/ HeadCmd.cmd # "CREG" /\ \A i \in 1 .. Len(lines) : lines[i].t # "CREG"
        \/ \E c \in 1 .. Len(lines) :
             /\ lines[c].t = "CREG"
             /\ lines[c].arg = (IF modem'.reg THEN "registered" ELSE "searching")
             /\ \A i \in 1 .. Len(lines) : i # c => lines[i].t # "CREG"
    BY <1>1, <1>5, <1>6, <2>1
  <2> QED BY <1>2, <1>4, <1>6, <2>1, <2>2, <2>3, <2>4, AnswerInv
<1>7. CASE Reply(<<l, Ok>>, modem)
  <2>1. rx' = rx \o <<l, Ok>> /\ <<l, Ok>> \in Seq(Lines)
    BY <1>1, <1>7 DEF Reply
  <2>2. Len(<<l, Ok>>) = 2 /\ <<l, Ok>>[2] = Ok /\ <<l, Ok>>[3 - 2] = l
    OBVIOUS
  <2> QED BY <1>6, <2>1, <2>2
<1>8. CASE Reply(<<Ok, l>>, modem)
  <2>1. rx' = rx \o <<Ok, l>> /\ <<Ok, l>> \in Seq(Lines)
    BY <1>1, <1>8 DEF Reply
  <2>2. Len(<<Ok, l>>) = 2 /\ <<Ok, l>>[1] = Ok /\ <<Ok, l>>[3 - 1] = l
    OBVIOUS
  <2> QED BY <1>6, <2>1, <2>2
<1> QED BY <1>7, <1>8

(* The head of the queue is a command. *)
LEMMA HeadIn ==
  ASSUME SessionInv, pvt.queue # << >>
  PROVE  pvt.connected /\ HeadCmd \in Cmds
<1>1. pvt.connected
  BY DEF SessionInv, Disconnected
<1> QED BY <1>1, StageHead DEF SessionInv

(* A mode that was set *)
LEMMA ModeSet ==
  ASSUME SessionInv, NEW c \in Cmds, Able(c)
  PROVE  /\ Mode(c) \in ModemStates
         /\ Mode(c).voice = modem.voice /\ Mode(c).charset = modem.charset
         /\ Mode(c).reg = modem.reg /\ (modem.creg => Mode(c).creg)
         /\ Mode(c).fmt = modem.fmt \/ c.cmd = "CMGF"
         /\ Mode(c).ucs2 = modem.ucs2 \/ (c.cmd = "CSCS" /\ Mode(c).ucs2 /\ modem.charset)
         /\ c.cmd = "CVOICE" => Mode(c).voice
         /\ c.cmd = "CMGF" => Mode(c).fmt = c.arg
         /\ c.cmd = "CSCS" => Mode(c).ucs2
         /\ c.cmd = "CREG_INIT" => Mode(c).creg
<1>1. modem \in ModemStates /\ c.arg \in Args
  BY DEF SessionInv, SessionTypes, Cmds
<1>2. CASE c.cmd = "CMGF"
  BY <1>1, <1>2 DEF Mode, ModemStates
<1>3. CASE c.cmd = "CSCS"
  BY <1>1, <1>3 DEF Mode, ModemStates, Able
<1>4. CASE c.cmd = "CREG_INIT"
  BY <1>1, <1>4 DEF Mode, ModemStates
<1>5. CASE c.cmd = "CNMI"
  BY <1>1, <1>5 DEF Mode, ModemStates
<1>6. CASE c.cmd \notin {"CMGF", "CSCS", "CREG_INIT", "CNMI"}
  <2>1. Mode(c) = modem
    BY <1>6 DEF Mode
  <2> QED BY <1>1, <1>6, <2>1 DEF Able
<1> QED BY <1>2, <1>3, <1>4, <1>5, <1>6

(* A command is carried out. *)
LEMMA ExecuteInv == ASSUME SessionInv, Execute PROVE SessionInv'
<1> DEFINE c == HeadCmd
<1>1. Executing /\ Able(c) /\ pvt.queue # << >>
  BY DEF Execute, Executing, HeadSent
<1>2. c \in Cmds
  BY <1>1, HeadIn
<1>3. modem.reg \in BOOLEAN
  BY DEF SessionInv, SessionTypes, ModemStates
<1>4. /\ c.cmd = "CREG" => Reply(<<CregLine(modem.reg), Ok>>, modem)
      /\ c.cmd = "CMGS" => Reply(<<Line("PROMPT", "-")>>, modem)
      /\ c.cmd = "CMGR" => Reply(<<Line("CMGR", "-")>>, modem)
      /\ c.cmd = "CUSD" => \E lines \in {<<Ok, Line("CUSD", "-")>>, <<Line("CUSD", "-"), Ok>>} :
                              Reply(lines, modem)
      /\ c.cmd \notin {"CREG", "CMGS", "CMGR", "CUSD"} => Reply(<<Ok>>, Mode(c))
  BY DEF Execute
<1>5. CASE c.cmd = "CREG"
  <2> DEFINE l == CregLine(modem.reg)
  <2>1. l \in Lines /\ l.t = "CREG" /\ l.t \notin Finals
    BY <1>3, CregLineIn DEF Finals
  <2>2. l = CregLine(modem.reg) /\ Reply(<<l, Ok>>, modem)
    BY <1>4, <1>5
  <2> HIDE DEF l
  <2> QED BY <1>1, <1>5, <2>1, <2>2, DoubleAnswerInv
<1>6. CASE c.cmd = "CMGS"
  <2>1. Line("PROMPT", "-").t = "PROMPT" /\ "PROMPT" \in Finals
    BY LineIn DEF Finals
  <2>2. Effect(Line("PROMPT", "-"), HeadCmd)
    BY <2>1 DEF Effect
  <2> QED BY <1>1, <1>4, <1>6, <2>1, <2>2, SingleAnswerInv
<1>7. CASE c.cmd = "CMGR"
  <2>1. Line("CMGR", "-").t = "CMGR" /\ "CMGR" \in Finals
    BY LineIn DEF Finals
  <2>2. Effect(Line("CMGR", "-"), HeadCmd)
    BY <1>7, <2>1 DEF Effect
  <2> QED BY <1>1, <1>4, <1>7, <2>1, <2>2, SingleAnswerInv
<1>8. CASE c.cmd = "CUSD"
  <2> DEFINE l == Line("CUSD", "-")
  <2>1. l \in Lines /\ l.t = "CUSD" /\ l.t \notin Finals
    BY LineIn DEF Finals
  <2>2. Reply(<<l, Ok>>, modem) \/ Reply(<<Ok, l>>, modem)
    BY <1>4, <1>8
  <2> HIDE DEF l
  <2> QED BY <1>1, <1>8, <2>1, <2>2, DoubleAnswerInv
<1>9. CASE c.cmd \notin {"CREG", "CMGS", "CMGR", "CUSD"}
  <2> DEFINE lines == <<Ok>>
  <2>1. Ok \in Lines /\ Ok.t = "OK"
    BY LineIn DEF Ok, Finals
  <2>2. /\ lines \in Seq(Lines) /\ Len(lines) = 1 /\ lines[1] = Ok
    BY <2>1
  <2>3. rx' = rx \o lines /\ answered' = TRUE /\ modem' = Mode(c) /\ UNCHANGED <<pvt, conf, raced>>
    BY <1>4, <1>9 DEF Reply
  <2>4. /\ modem' \in ModemStates
        /\ modem'.voice = modem.voice /\ modem'.charset = modem.charset
        /\ modem'.reg = modem.reg /\ (modem.creg => modem'.creg)
        /\ modem'.fmt = modem.fmt \/ c.cmd = "CMGF"
        /\ modem'.ucs2 = modem.ucs2 \/ (c.cmd = "CSCS" /\ modem'.ucs2 /\ modem.charset)
        /\ c.cmd = "CVOICE" => modem'.voice
        /\ c.cmd = "CMGF" => modem'.fmt = c.arg
        /\ c.cmd = "CSCS" => modem'.ucs2
        /\ c.cmd = "CREG_INIT" => modem'.creg
    BY <1>1, <1>2, <2>3, ModeSet
  <2>5. HeadCmd' = c
    BY <2>3 DEF HeadCmd
  <2>6. Effect(Ok, HeadCmd)'
    BY <2>1, <2>4, <2>5 DEF Effect, Ok
  <2>7. Effect(lines[1], HeadCmd)'
    BY <2>2, <2>6 DEF Effect, Ok
  <2> HIDE DEF lines, c
  <2>8. /\ \A i \in 1 .. Len(lines) : i = 1 /\ lines[i].t # "CREG"
        /\ 1 \in 1 .. Len(lines)
    BY <2>1, <2>2
  <2>9. c.cmd # "CREG"
    BY <1>9
  <2> QED BY <1>1, <2>2, <2>3, <2>4, <2>7, <2>8, <2>9, AnswerInv DEF c
<1> QED BY <1>5, <1>6, <1>7, <1>8, <1>9

(* A command is refused. *)
LEMMA RefuseInv == ASSUME SessionInv, Willing, Refuse PROVE SessionInv'
<1>1. /\ Executing /\ Reply(<<Line("ERROR", "-")>>, modem)
      /\ HeadCmd.cmd \in Fails \/ ~Able(HeadCmd)
  BY DEF Refuse
<1>2. /\ HeadCmd.cmd \notin {"U2DIAG", "CREG"}
      /\ HeadCmd.cmd = "CVOICE" => ~modem.voice
      /\ HeadCmd.cmd = "CSCS" => ~modem.charset
  BY <1>1 DEF Willing, Able
<1>3. Line("ERROR", "-").t = "ERROR" /\ "ERROR" \in Finals
  BY LineIn DEF Finals
<1>4. Effect(Line("ERROR", "-"), HeadCmd)
  BY <1>2, <1>3 DEF Effect
<1> QED BY <1>1, <1>2, <1>3, <1>4, SingleAnswerInv

(* A message was deleted by somebody else. *)
LEMMA ErasedInv == ASSUME SessionInv, Erased PROVE SessionInv'
<1>1. Executing /\ HeadCmd.cmd = "CMGR" /\ Reply(<<Line("OK", "-")>>, modem)
  BY DEF Erased, Ok
<1>2. Line("OK", "-").t = "OK" /\ "OK" \in Finals
  BY LineIn DEF Finals
<1>3. Effect(Line("OK", "-"), HeadCmd)
  BY <1>1, <1>2 DEF Effect
<1> QED BY <1>1, <1>2, <1>3, SingleAnswerInv

(* The card is locked. *)
LEMMA LockedInv == ASSUME SessionInv, Locked PROVE SessionInv'
<1> DEFINE l == Line("CPIN", "-")
<1>1. l \in Lines /\ l.t = "CPIN" /\ l.t \notin Finals
  BY LineIn DEF Finals
<1>2. Executing /\ HeadCmd.cmd = "AT" /\ Reply(<<l, Ok>>, modem)
  BY DEF Locked
<1> HIDE DEF l
<1> QED BY <1>1, <1>2, DoubleAnswerInv

(* A line that answers nothing comes in. *)
LEMMA NewsInv ==
  ASSUME SessionInv, pvt.connected, NEW l \in Lines, l.t \notin Finals, rx' = Append(rx, l),
         UNCHANGED <<pvt, conf, answered, raced>>, modem' \in ModemStates,
         modem'.voice = modem.voice, modem'.charset = modem.charset,
         modem'.fmt = modem.fmt, modem'.ucs2 = modem.ucs2, modem'.creg = modem.creg,
         IF l.t = "CREG" THEN l = CregLine(modem'.reg) ELSE modem'.reg = modem.reg
  PROVE  SessionInv'
<1> DEFINE lines == <<l>>
<1>1. SessionTypes /\ Wire /\ pvt' \in Pvts
  BY DEF SessionInv, SessionTypes
<1>2. Wire'
  BY <1>1, NewsWire
<1>3. /\ lines \in Seq(Lines) /\ Len(lines) = 1 /\ lines[1] = l
      /\ 1 \in 1 .. Len(lines) /\ \A i \in 1 .. Len(lines) : i = 1 /\ lines[i] = l
  OBVIOUS
<1>4. rx' = rx \o lines /\ rx' \in Seq(Lines)
  <2>1. rx \in Seq(Lines)
    BY <1>1 DEF SessionTypes
  <2> QED BY <2>1, AppendProperties
<1> HIDE DEF lines
<1>5. RegKnown => RegKnown'
  <2>1. CASE l.t = "CREG"
    <3>1. modem'.reg \in BOOLEAN
      BY DEF ModemStates
    <3>2. l.arg = IF modem'.reg THEN "registered" ELSE "searching"
      BY <2>1, <3>1, CregLineIn
    <3> QED BY <1>1, <1>3, <1>4, <2>1, <3>2, TrueReportReg
  <2>2. CASE l.t # "CREG"
    BY <1>1, <1>3, <1>4, <2>2, NoReportReg
  <2> QED BY <2>1, <2>2
<1>6. Grown(pvt.queue, pvt'.queue)
  BY DEF Grown
<1> QED BY <1>1, <1>2, <1>4, <1>5, <1>6, GrownInv

(* A message is announced. *)
LEMMA AnnounceInv == ASSUME SessionInv, NEW m \in In, Announce(m) PROVE SessionInv'
<1> DEFINE l == Line("CMTI", m)
<1>1. l \in Lines /\ l.t = "CMTI" /\ l.t \notin Finals
  <2>1. m \in {"-", "registered", "searching"} \cup In /\ "CMTI" \in Finals \cup {"CREG", "CUSD", "CPIN", "CMTI"}
    OBVIOUS
  <2>2. l \in Lines /\ l.t = "CMTI"
    BY <2>1, LineIn
  <2> QED BY <2>2 DEF Finals
<1>2. pvt.connected /\ rx' = Append(rx, l) /\ UNCHANGED <<pvt, conf, answered, raced, modem>>
  BY DEF Announce
<1>3. modem' \in ModemStates
  BY <1>2 DEF SessionInv, SessionTypes
<1> HIDE DEF l
<1> QED BY <1>1, <1>2, <1>3, NewsInv

(* The registration changes. *)
LEMMA RegisterInv == ASSUME SessionInv, Register PROVE SessionInv'
<1>1. /\ modem' = [modem EXCEPT !.reg = ~@, !.regs = @ + 1]
      /\ rx' = IF pvt.connected /\ modem.creg THEN Append(rx, CregLine(~modem.reg)) ELSE rx
      /\ UNCHANGED <<pvt, conf, answered, raced>>
  BY DEF Register
<1>2. SessionTypes /\ Wire /\ modem \in ModemStates
  BY DEF SessionInv, SessionTypes
<1>3. /\ modem' \in ModemStates /\ modem'.voice = modem.voice /\ modem'.charset = modem.charset
      /\ modem'.reg = ~modem.reg /\ modem'.fmt = modem.fmt /\ modem'.ucs2 = modem.ucs2
      /\ modem'.creg = modem.creg /\ (~modem.reg) \in BOOLEAN
  <2> DEFINE b == ~modem.reg
             n == modem.regs + 1
  <2>1. modem' = [modem EXCEPT !.reg = b, !.regs = n] /\ b \in BOOLEAN /\ n \in Nat
    BY <1>1, <1>2 DEF ModemStates
  <2> HIDE DEF b, n
  <2>2. /\ modem' \in ModemStates /\ modem'.voice = modem.voice /\ modem'.charset = modem.charset
        /\ modem'.reg = b /\ modem'.fmt = modem.fmt /\ modem'.ucs2 = modem.ucs2
        /\ modem'.creg = modem.creg
    BY <1>2, <2>1 DEF ModemStates
  <2> QED BY <2>1, <2>2 DEF b
<1>4. CASE pvt.connected /\ modem.creg
  <2> DEFINE l == CregLine(~modem.reg)
  <2>1. l \in Lines /\ l.t = "CREG" /\ l.t \notin Finals /\ l = CregLine(modem'.reg)
    BY <1>3, CregLineIn DEF Finals
  <2>2. rx' = Append(rx, l)
    BY <1>1, <1>4
  <2> HIDE DEF l
  <2> QED BY <1>1, <1>3, <1>4, <2>1, <2>2, NewsInv
<1>5. CASE ~(pvt.connected /\ modem.creg)
  <2>1. rx' = rx
    BY <1>1, <1>5
  <2>2. Wire'
    BY <1>1, <1>2, <1>3, <2>1 DEF Wire, Effect, HeadCmd
  <2>3. CASE ~pvt.connected
    <3>1. SessionTypes'
      BY <1>1, <1>2, <1>3, <2>1 DEF SessionTypes
    <3> QED BY <1>1, <1>3, <2>1, <2>2, <2>3, <3>1 DEF SessionInv
  <2>4. CASE pvt.connected
    <3>1. ~modem.creg
      BY <1>5, <2>4
    <3>2. Grown(pvt.queue, pvt'.queue)
      BY <1>1 DEF Grown
    <3>3. pvt' \in Pvts /\ rx' \in Seq(Lines)
      BY <1>1, <1>2, <2>1 DEF SessionTypes
    <3> QED BY <1>1, <1>3, <2>2, <2>4, <3>1, <3>2, <3>3, GrownInv
  <2> QED BY <2>3, <2>4
<1> QED BY <1>4, <1>5

(* A line is only there while the device is connected, and a final code      *)
(* answers the command at the head.                                          *)
LEMMA GotFinal ==
  ASSUME SessionInv, rx # << >>
  PROVE  /\ pvt.connected
         /\ Head(rx).t \in Finals => answered /\ pvt.queue # << >> /\ Effect(Head(rx), HeadCmd)
<1>1. /\ Head(rx) = rx[1] /\ Len(rx) \in Nat /\ Len(rx) >= 1
  BY HeadTailProperties, LenProperties DEF SessionInv, SessionTypes
<1>2. pvt.connected
  BY DEF SessionInv
<1>3. 1 \in 1 .. Len(rx)
  BY <1>1
<1> QED BY <1>1, <1>2, <1>3 DEF SessionInv, Wire

(* The queue and the device once the command at the head is answered *)
LEMMA FinalQueue ==
  ASSUME SessionInv, rx # << >>, Head(rx).t \in Finals, NEW p \in Pvts, p.queue = pvt.queue,
         NEW res, Final(p, res), NEW k \in Nat, NEW s \in Nat, Stage(k, s)
  PROVE  /\ pvt' \in Pvts
         /\ pvt'.connected = p.connected /\ pvt'.initialized = p.initialized
         /\ pvt'.has_voice = p.has_voice /\ pvt'.has_sms = p.has_sms /\ pvt'.fmt = p.fmt
         /\ pvt'.ucs2 = p.ucs2 /\ pvt'.gsm_registered = p.gsm_registered
         /\ rx' = Tail(rx) /\ answered' = FALSE /\ UNCHANGED <<conf, modem>>
         /\ HeadCmd.cmd \in Others => Placed(pvt'.queue, k, s)
         /\ HeadCmd.cmd \notin Others /\ (res = RES_OK \/ HeadCmd.ignore) => Placed(pvt'.queue, k, s + 1)
         /\ HeadCmd.cmd \notin Others /\ res # RES_OK /\ ~HeadCmd.ignore => Placed(pvt'.queue, k, 9)
         /\ \A f : FormatAsked(pvt.queue, f) => FormatAsked(pvt'.queue, f)
<1>1. /\ pvt.queue \in Seq(Tasks) /\ k \in {1, 6} /\ s \in k - 1 .. 9 /\ Placed(pvt.queue, k, s)
  BY DEF SessionInv, SessionTypes, Pvts, Stage
<1>2. pvt.queue # << >>
  BY GotFinal
<1> DEFINE q == pvt.queue
           r == at_queue_remove_cmd(q, res)
           v == at_queue_run(r)
<1>3. r \in Seq(Tasks)
  BY <1>1, <1>2, RemoveKeeps
<1>4. v \in Seq(Tasks) /\ Grown(r, v)
  BY <1>3, RunGrown
<1>5. /\ HeadCmd.cmd \in Others => Placed(r, k, s)
      /\ HeadCmd.cmd \notin Others /\ (res = RES_OK \/ HeadCmd.ignore) => Placed(r, k, s + 1)
      /\ HeadCmd.cmd \notin Others /\ res # RES_OK /\ ~HeadCmd.ignore => Placed(r, k, 9)
      /\ \A f : FormatAsked(q, f) => FormatAsked(r, f)
  BY <1>1, <1>2, RemoveKeeps DEF HeadCmd
<1>6. /\ \A f : FormatAsked(r, f) => FormatAsked(v, f)
      /\ Placed(r, k, s) => Placed(v, k, s)
      /\ Placed(r, k, s + 1) => Placed(v, k, s + 1)
      /\ Placed(r, k, 9) => Placed(v, k, 9)
  BY <1>4 DEF Grown
<1>7. pvt' = [p EXCEPT !.queue = v] /\ rx' = Tail(rx) /\ answered' = FALSE /\ UNCHANGED <<conf, modem>>
  <2>1. /\ pvt' = [at_queue_handle_result(p, res) EXCEPT !.queue = at_queue_run(@)]
        /\ rx' = Tail(rx) /\ answered' = FALSE /\ UNCHANGED <<conf, modem>>
    BY DEF Final, Handled
  <2>2. at_queue_handle_result(p, res) = [p EXCEPT !.queue = r]
    BY DEF at_queue_handle_result
  <2>3. DOMAIN p = DOMAIN Disconnected
    BY DEF Pvts, Disconnected
  <2> HIDE DEF r
  <2>4. [p EXCEPT !.queue = r].queue = r
    BY <2>3 DEF Disconnected
  <2>5. pvt' = [[p EXCEPT !.queue = r] EXCEPT !.queue = v]
    BY <2>1, <2>2, <2>4
  <2> HIDE DEF v
  <2>6. [[p EXCEPT !.queue = r] EXCEPT !.queue = v] = [p EXCEPT !.queue = v]
    OBVIOUS
  <2> QED BY <2>1, <2>5, <2>6
<1> HIDE DEF v, r
<1>8. /\ pvt' \in Pvts /\ pvt'.queue = v
      /\ pvt'.connected = p.connected /\ pvt'.initialized = p.initialized
      /\ pvt'.has_voice = p.has_voice /\ pvt'.has_sms = p.has_sms /\ pvt'.fmt = p.fmt
      /\ pvt'.ucs2 = p.ucs2 /\ pvt'.gsm_registered = p.gsm_registered
  BY <1>4, <1>7, Requeued
<1> HIDE DEF q
<1>9. \A f : FormatAsked(q, f) => FormatAsked(v, f)
  BY <1>5, <1>6
<1> QED BY <1>5, <1>6, <1>7, <1>8, <1>9 DEF q

(* The invariant after the command at the head is answered *)
LEMMA FinalInv ==
  ASSUME SessionInv, rx # << >>, Head(rx).t \in Finals, pvt' \in Pvts, pvt'.connected,
         rx' = Tail(rx), answered' = FALSE, UNCHANGED <<conf, modem, raced>>,
         raced \/ FormatAsked(pvt'.queue, conf.fmt), NEW k \in Nat, NEW s \in Nat, Stage(k, s)'
  PROVE  SessionInv'
<1>1. SessionTypes /\ Wire
  BY DEF SessionInv
<1>2. SessionTypes'
  BY <1>1, LineGone DEF SessionTypes
<1>3. Wire'
  BY <1>1, FinalGone
<1>4. modem'.ucs2 => modem'.charset
  BY DEF SessionInv
<1> QED BY <1>2, <1>3, <1>4 DEF SessionInv

(* What is known of the registration stays known. *)
LEMMA FinalReg ==
  ASSUME SessionInv, rx # << >>, Head(rx).t \in Finals, rx' = Tail(rx), RegKnown,
         pvt'.gsm_registered = pvt.gsm_registered, UNCHANGED modem
  PROVE  RegKnown'
<1>1. Head(rx).t # "CREG" /\ SessionTypes
  BY DEF Finals, SessionInv
<1> QED BY <1>1, OtherReg

(* A command that is not of the initialization is answered. *)
LEMMA OtherFinalInv ==
  ASSUME SessionInv, rx # << >>, Head(rx).t \in Finals, HeadCmd.cmd \in Others, NEW p \in Pvts,
         p.queue = pvt.queue, p.connected = pvt.connected, p.initialized = pvt.initialized,
         p.has_voice = pvt.has_voice, p.has_sms = pvt.has_sms, p.fmt = pvt.fmt,
         p.ucs2 = pvt.ucs2, p.gsm_registered = pvt.gsm_registered,
         NEW res, Final(p, res), UNCHANGED raced
  PROVE  SessionInv'
<1>1. pvt.connected
  BY GotFinal
<1>2. PICK k \in Nat, s \in Nat : Stage(k, s)
  BY <1>1 DEF SessionInv
<1>3. /\ pvt' \in Pvts
      /\ pvt'.connected = p.connected /\ pvt'.initialized = p.initialized
      /\ pvt'.has_voice = p.has_voice /\ pvt'.has_sms = p.has_sms /\ pvt'.fmt = p.fmt
      /\ pvt'.ucs2 = p.ucs2 /\ pvt'.gsm_registered = p.gsm_registered
      /\ rx' = Tail(rx) /\ answered' = FALSE /\ UNCHANGED <<conf, modem>>
      /\ Placed(pvt'.queue, k, s)
      /\ \A f : FormatAsked(pvt.queue, f) => FormatAsked(pvt'.queue, f)
  BY <1>2, FinalQueue
<1>4. RegKnown => RegKnown'
  BY <1>3, FinalReg
<1>5. Believed(s)'
  BY <1>2, <1>3, <1>4 DEF Stage, Believed
<1>6. Stage(k, s)'
  BY <1>2, <1>3, <1>5 DEF Stage
<1>7. raced \/ FormatAsked(pvt'.queue, conf.fmt)
  BY <1>3 DEF SessionInv
<1> QED BY <1>1, <1>3, <1>6, <1>7, FinalInv

(* The format that is asked for at the head *)
LEMMA AskedHead ==
  ASSUME SessionInv, pvt.queue # << >>, HeadCmd.cmd = "CMGF", ~raced
  PROVE  HeadCmd.arg = conf.fmt
<1>1. pvt.queue \in Seq(Tasks) /\ FormatAsked(pvt.queue, conf.fmt)
  BY DEF SessionInv, SessionTypes, Pvts
<1>2. Head(pvt.queue) = pvt.queue[1] /\ pvt.queue[1] \in Tasks /\ 1 \in 1 .. Len(pvt.queue)
  BY <1>1, HeadTailProperties, LenProperties
<1>3. pvt.queue[1].cindex + 1 \in 1 .. Len(pvt.queue[1].cmds) /\ pvt.queue[1].cindex + 1 > pvt.queue[1].cindex
  BY <1>2, LenProperties DEF Tasks
<1>4. HeadCmd = pvt.queue[1].cmds[pvt.queue[1].cindex + 1]
  BY <1>2 DEF HeadCmd, at_queue_task_cmd
<1> QED BY <1>1, <1>2, <1>3, <1>4 DEF FormatAsked

(* A command of the initialization is answered and the next one follows. *)
LEMMA InitFinalInv ==
  ASSUME SessionInv, rx # << >>, Head(rx).t \in Finals, NEW p \in Pvts,
         p.queue = pvt.queue, p.connected = pvt.connected, p.gsm_registered = pvt.gsm_registered,
         NEW res, Final(p, res), UNCHANGED raced, NEW k \in Nat, NEW s \in 0 .. 8, Stage(k, s),
         HeadCmd.cmd \notin Others, res = RES_OK \/ HeadCmd.ignore \/ s = 8,
         p.initialized <=> s >= 7,
         s = 2 => modem.creg,
         IF s = 4 THEN p.has_voice = modem.voice ELSE p.has_voice = pvt.has_voice,
         IF s = 5 THEN raced \/ p.fmt = modem.fmt ELSE p.fmt = pvt.fmt,
         IF s = 6 THEN p.ucs2 = modem.ucs2 ELSE p.ucs2 = pvt.ucs2,
         IF s = 7 THEN p.has_sms ELSE p.has_sms = pvt.has_sms
  PROVE  SessionInv'
<1>0. s \in Nat /\ s + 1 \in Nat
  OBVIOUS
<1>1. pvt.connected /\ answered
  BY GotFinal
<1>2. /\ pvt' \in Pvts
      /\ pvt'.connected = p.connected /\ pvt'.initialized = p.initialized
      /\ pvt'.has_voice = p.has_voice /\ pvt'.has_sms = p.has_sms /\ pvt'.fmt = p.fmt
      /\ pvt'.ucs2 = p.ucs2 /\ pvt'.gsm_registered = p.gsm_registered
      /\ rx' = Tail(rx) /\ answered' = FALSE /\ UNCHANGED <<conf, modem>>
      /\ res = RES_OK \/ HeadCmd.ignore => Placed(pvt'.queue, k, s + 1)
      /\ res # RES_OK /\ ~HeadCmd.ignore => Placed(pvt'.queue, k, 9)
      /\ \A f : FormatAsked(pvt.queue, f) => FormatAsked(pvt'.queue, f)
  BY <1>0, FinalQueue
<1>3. Placed(pvt'.queue, k, s + 1)
  <2>1. CASE res = RES_OK \/ HeadCmd.ignore
    BY <1>2, <2>1
  <2>2. CASE ~(res = RES_OK \/ HeadCmd.ignore)
    <3>1. s + 1 = 9
      BY <2>2
    <3> QED BY <1>2, <2>2, <3>1
  <2> QED BY <2>1, <2>2
<1>4. RegKnown => RegKnown'
  BY <1>2, FinalReg
<1>5. Believed(s + 1)'
  BY <1>1, <1>2, <1>4 DEF Stage, Believed
<1>6. Stage(k, s + 1)'
  BY <1>2, <1>3, <1>5 DEF Stage
<1>7. raced \/ FormatAsked(pvt'.queue, conf.fmt)
  BY <1>2 DEF SessionInv
<1> DEFINE n == s + 1
<1>8. n \in Nat /\ Stage(k, n)'
  BY <1>0, <1>6
<1> HIDE DEF n
<1> QED BY <1>1, <1>2, <1>7, <1>8, FinalInv

(* OK *)
LEMMA OkInv == ASSUME SessionInv, at_response_ok PROVE SessionInv'
<1> DEFINE c == HeadCmd
           p == AfterOk(c)
<1>1. /\ rx # << >> /\ Head(rx).t = "OK" /\ Head(rx).t \in Finals
      /\ Final(p, RES_OK) /\ UNCHANGED raced
  BY DEF at_response_ok, Got, Finals
<1>2. pvt.connected /\ pvt.queue # << >> /\ Effect(Head(rx), c)
  BY <1>1, GotFinal
<1>3. PICK k \in Nat, s \in Nat : Stage(k, s)
  BY <1>2 DEF SessionInv
<1>4. c.cmd \notin Others => s \in 0 .. 8 /\ c.cmd = InitList[s + 1] /\ c.res = RES_OK
  BY <1>2, <1>3, StageHead DEF SessionInv
<1>5. pvt \in Pvts /\ conf.fmt \in {"text", "pdu"}
  BY SessionAssumption DEF SessionInv, SessionTypes
<1>6. CASE c.cmd \in Others
  <2>1. p = pvt
    BY <1>6 DEF AfterOk, Others
  <2>2. Final(pvt, RES_OK)
    BY <1>1, <2>1
  <2> QED BY <1>1, <1>5, <1>6, <2>2, OtherFinalInv
<1>7. CASE c.cmd \notin Others
  <2>1. /\ s \in 0 .. 8
        /\ c.cmd = "CREG_INIT" <=> s = 2
        /\ c.cmd = "CVOICE" <=> s = 4
        /\ c.cmd = "CMGF" <=> s = 5
        /\ c.cmd = "CSCS" <=> s = 6
        /\ c.cmd = "CNMI" <=> s = 7
    BY <1>4, <1>7, NamedStage
  <2>2. /\ p \in Pvts
        /\ p.queue = pvt.queue /\ p.connected = pvt.connected /\ p.gsm_registered = pvt.gsm_registered
        /\ p.has_voice = IF c.cmd = "CVOICE" THEN TRUE ELSE pvt.has_voice
        /\ p.fmt = IF c.cmd = "CMGF" THEN conf.fmt ELSE pvt.fmt
        /\ p.ucs2 = IF c.cmd = "CSCS" THEN TRUE ELSE pvt.ucs2
        /\ p.has_sms = IF c.cmd = "CNMI" THEN TRUE ELSE pvt.has_sms
        /\ p.initialized = IF c.cmd = "CNMI" THEN TRUE ELSE pvt.initialized
    <3> HIDE DEF c
    <3>1. CASE c.cmd = "CVOICE"
      BY <1>5, <3>1 DEF AfterOk, Pvts
    <3>2. CASE c.cmd = "CMGF"
      BY <1>5, <3>2 DEF AfterOk, Pvts
    <3>3. CASE c.cmd = "CSCS"
      BY <1>5, <3>3 DEF AfterOk, Pvts
    <3>4. CASE c.cmd = "CNMI"
      BY <1>5, <3>4 DEF AfterOk, Pvts
    <3>5. CASE c.cmd \notin {"CVOICE", "CMGF", "CSCS", "CNMI"}
      <4>1. p = pvt
        BY <3>5 DEF AfterOk
      <4> HIDE DEF p
      <4> QED BY <1>5, <3>5, <4>1
    <3> QED BY <3>1, <3>2, <3>3, <3>4, <3>5
  <2>3. /\ c.cmd = "CREG_INIT" => modem.creg
        /\ c.cmd = "CVOICE" => modem.voice
        /\ c.cmd = "CMGF" => modem.fmt = c.arg /\ (raced \/ c.arg = conf.fmt)
        /\ c.cmd = "CSCS" => modem.ucs2
    BY <1>1, <1>2, AskedHead DEF Effect
  <2>4. modem.voice \in BOOLEAN /\ modem.ucs2 \in BOOLEAN /\ raced \in BOOLEAN
    BY DEF SessionInv, SessionTypes, ModemStates
  <2>5. pvt.initialized <=> s >= 8
    BY <1>3 DEF Stage
  <2> HIDE DEF c, p
  <2>6. /\ s = 2 => modem.creg
        /\ IF s = 4 THEN p.has_voice = modem.voice ELSE p.has_voice = pvt.has_voice
        /\ IF s = 5 THEN raced \/ p.fmt = modem.fmt ELSE p.fmt = pvt.fmt
        /\ IF s = 6 THEN p.ucs2 = modem.ucs2 ELSE p.ucs2 = pvt.ucs2
        /\ IF s = 7 THEN p.has_sms ELSE p.has_sms = pvt.has_sms
    BY <2>1, <2>2, <2>3, <2>4
  <2>7. p.initialized <=> s >= 7
    BY <2>1, <2>2, <2>5
  <2> QED BY <1>1, <1>3, <1>7, <2>1, <2>2, <2>6, <2>7, InitFinalInv DEF c
<1> QED BY <1>6, <1>7

(* Without voice the rest of the initialization is queued again, behind all, *)
(* and the running one ends.                                                 *)
LEMMA SecondInit ==
  ASSUME NEW q \in Seq(Tasks), q # << >>, Placed(q, 1, 4), at_queue_task_cmd(Head(q)).cmd = "CVOICE",
         NEW e \in Tasks, InitTask(e, 6, 5), NEW v \in Seq(Tasks), Alike(Append(q, e), v)
  PROVE  LET r == at_queue_remove_cmd(v, RES_ERROR)
         IN  /\ r \in Seq(Tasks) /\ Placed(r, 6, 5)
             /\ \A f : FormatAsked(q, f) /\ AsksFor(e, f) => FormatAsked(r, f)
<1> DEFINE r == at_queue_remove_cmd(v, RES_ERROR)
           c == at_queue_task_cmd(Head(q))
<1>1. /\ c \in Cmds /\ c.res = RES_OK /\ ~c.ignore
      /\ \A j \in 2 .. Len(q) : Simple(q[j])
  <2>1. 1 \in {1, 6} /\ 4 \in 1 - 1 .. 9 /\ "CVOICE" \notin Others
    BY DEF Others
  <2> QED BY <2>1, HeadTask
<1> DEFINE a == Append(q, e)
<1>2. /\ Len(q) \in Nat /\ Len(q) >= 1 /\ Len(a) = Len(q) + 1 /\ a[Len(q) + 1] = e
      /\ \A i \in 1 .. Len(q) : a[i] = q[i]
      /\ Head(q) = q[1] /\ q[1] \in Tasks /\ a \in Seq(Tasks)
  BY AppendProperties, LenProperties, HeadTailProperties
<1>3. Alike(a, v)
  OBVIOUS
<1> HIDE DEF a
<1>4. Len(v) = Len(q) + 1 /\ v # << >>
  <2>1. Len(v) = Len(q) + 1
    BY <1>2, <1>3 DEF Alike
  <2>2. Len(v) # 0
    BY <1>2, <2>1
  <2> QED BY <2>1, <2>2
<1>5. /\ Head(v) = v[1] /\ Tail(v) \in Seq(Tasks) /\ Len(Tail(v)) = Len(v) - 1
      /\ \A j \in 1 .. Len(Tail(v)) : Tail(v)[j] = v[j + 1]
  BY <1>4, HeadTailProperties
<1>6. TaskEnds(Head(v), RES_ERROR)
  <2> DEFINE n == q[1].cindex + 1
  <2>1. n \in 1 .. Len(q[1].cmds) /\ c = q[1].cmds[n]
    <3>1. q[1].cindex \in Nat /\ q[1].cmds \in Seq(Cmds) /\ q[1].cindex < Len(q[1].cmds)
      BY <1>2 DEF Tasks
    <3>2. Len(q[1].cmds) \in Nat
      BY <3>1, LenProperties
    <3>3. c = q[1].cmds[n]
      BY <1>2 DEF at_queue_task_cmd
    <3> QED BY <3>1, <3>2, <3>3
  <2>2. 1 \in 1 .. Len(a) /\ a[1] = q[1]
    BY <1>2
  <2>3. v[1].cindex = q[1].cindex /\ v[1].cmds[n].res = q[1].cmds[n].res
        /\ (v[1].cmds[n].ignore <=> q[1].cmds[n].ignore)
    <3> HIDE DEF n, c
    <3>1. n \in 1 .. Len(a[1].cmds)
      BY <2>1, <2>2
    <3>2. v[1].cindex = a[1].cindex
      BY <1>3, <2>2 DEF Alike
    <3>3. v[1].cmds[n].res = a[1].cmds[n].res
      BY <1>3, <2>2, <3>1 DEF Alike
    <3>4. v[1].cmds[n].ignore <=> a[1].cmds[n].ignore
      BY <1>3, <2>2, <3>1, Zenon DEF Alike
    <3> QED BY <2>2, <3>2, <3>3, <3>4
  <2>4. at_queue_task_cmd(Head(v)) = v[1].cmds[n]
    BY <1>5, <2>3 DEF at_queue_task_cmd
  <2> HIDE DEF n, c
  <2>5. RES_OK # RES_ERROR
    BY DEF RES_OK, RES_ERROR
  <2> QED BY <1>1, <2>1, <2>3, <2>4, <2>5 DEF TaskEnds
<1>7. r = Tail(v)
  BY <1>4, <1>6 DEF at_queue_remove_cmd
<1> HIDE DEF r
<1>8. /\ r \in Seq(Tasks) /\ Len(r) = Len(q) /\ \A j \in 1 .. Len(q) : r[j] = v[j + 1]
  BY <1>2, <1>4, <1>5, <1>7
<1>9. ASSUME NEW j \in 1 .. Len(q), j # Len(q) PROVE Simple(r[j])
  <2>1. j + 1 \in 2 .. Len(q) /\ j + 1 \in 1 .. Len(q) /\ j + 1 \in 1 .. Len(a)
    BY <1>2, <1>9
  <2>2. Simple(a[j + 1])
    BY <1>1, <1>2, <2>1
  <2>3. Simple(v[j + 1])
    BY <1>3, <2>1, <2>2 DEF Simple, Alike
  <2> QED BY <1>8, <2>3
<1>10. InitTask(r[Len(q)], 6, 5)
  <2>1. Len(q) + 1 \in 1 .. Len(a) /\ Len(q) \in 1 .. Len(q) /\ InitTask(a[Len(q) + 1], 6, 5)
    BY <1>2
  <2> DEFINE n == Len(q) + 1
  <2>2. n \in 1 .. Len(a) /\ InitTask(a[n], 6, 5) /\ r[Len(q)] = v[n]
    BY <1>8, <2>1
  <2> HIDE DEF n
  <2>3. /\ v[n].cindex = a[n].cindex /\ Len(v[n].cmds) = Len(a[n].cmds)
        /\ \A i \in 1 .. Len(a[n].cmds) :
             /\ v[n].cmds[i].cmd = a[n].cmds[i].cmd /\ v[n].cmds[i].res = a[n].cmds[i].res
             /\ v[n].cmds[i].ignore <=> a[n].cmds[i].ignore
    BY <1>3, <2>2 DEF Alike
  <2>4. InitTask(v[n], 6, 5)
    BY <2>2, <2>3 DEF InitTask
  <2> QED BY <2>2, <2>4
<1>11. Placed(r, 6, 5)
  <2>1. Len(q) \in 1 .. Len(r)
    BY <1>2, <1>8
  <2> QED BY <1>8, <1>9, <1>10, <2>1 DEF Placed
<1>12. ASSUME NEW f, FormatAsked(q, f), AsksFor(e, f)
       PROVE  FormatAsked(r, f)
  <2>1. FormatAsked(a, f)
    <3> SUFFICES ASSUME NEW j \in 1 .. Len(a), NEW i \in 1 .. Len(a[j].cmds),
                        a[j].cmds[i].cmd = "CMGF", i > a[j].cindex
                 PROVE  a[j].cmds[i].arg = f
      BY DEF FormatAsked
    <3>1. CASE j = Len(q) + 1
      BY <1>2, <1>12, <3>1 DEF AsksFor
    <3>2. CASE j # Len(q) + 1
      <4>1. j \in 1 .. Len(q) /\ a[j] = q[j]
        BY <1>2, <3>2
      <4> QED BY <1>12, <4>1 DEF FormatAsked
    <3> QED BY <3>1, <3>2
  <2>2. FormatAsked(v, f)
    BY <1>2, <1>3, <2>1, AlikeKeeps
  <2> SUFFICES ASSUME NEW j \in 1 .. Len(r), NEW i \in 1 .. Len(r[j].cmds),
                      r[j].cmds[i].cmd = "CMGF", i > r[j].cindex
               PROVE  r[j].cmds[i].arg = f
    BY DEF FormatAsked
  <2>3. j + 1 \in 1 .. Len(v) /\ r[j] = v[j + 1]
    BY <1>2, <1>4, <1>8
  <2> QED BY <2>2, <2>3 DEF FormatAsked
<1> QED BY <1>8, <1>11, <1>12 DEF r

(* AT^CVOICE? fails: the device has no voice. *)
LEMMA NoVoiceInv ==
  ASSUME SessionInv, rx # << >>, Head(rx).t = "ERROR", HeadCmd.cmd = "CVOICE", ~pvt.initialized,
         Final(AfterError(HeadCmd), RES_ERROR), UNCHANGED raced
  PROVE  SessionInv'
<1> DEFINE q == pvt.queue
           p == [pvt EXCEPT !.has_voice = FALSE]
           r == at_enque_initialization(p, "CMGF")
           u == at_queue_remove_cmd(r.queue, RES_ERROR)
           v == at_queue_run(u)
<1>1. SessionTypes /\ Wire /\ pvt \in Pvts /\ q \in Seq(Tasks) /\ conf \in Confs /\ Head(rx).t \in Finals
  BY DEF SessionInv, SessionTypes, Pvts, Finals
<1>2. pvt.connected /\ answered /\ q # << >> /\ Effect(Head(rx), HeadCmd)
  BY <1>1, GotFinal
<1>3. ~modem.voice
  BY <1>2 DEF Effect
<1>4. PICK k \in Nat, s \in Nat : Stage(k, s)
  BY <1>2 DEF SessionInv
<1>5. k = 1 /\ s = 4 /\ Placed(q, 1, 4) /\ Believed(4)
  <2>1. HeadCmd.cmd \notin Others
    BY DEF Others
  <2>2. s \in 0 .. 8 /\ HeadCmd.cmd = InitList[s + 1]
    BY <1>1, <1>2, <1>4, <2>1, StageHead
  <2>3. s = 4
    BY <2>2, NamedStage
  <2> QED BY <1>4, <2>3 DEF Stage
<1>6. /\ p \in Pvts /\ p.queue = q /\ p.connected = pvt.connected /\ ~p.initialized /\ ~p.has_voice
      /\ p.gsm_registered = pvt.gsm_registered
  BY <1>1 DEF Pvts
<1>7. AfterError(HeadCmd) = r
  BY DEF AfterError
<1> HIDE DEF p
<1>8. Initializing(p, r, 6)
  <2>1. "CMGF" = (IF 6 = 1 THEN "AT" ELSE "CMGF")
    OBVIOUS
  <2> QED BY <1>1, <1>6, <2>1, InitInsert, SessionAssumption
<1> HIDE DEF r, q
<1>9. r.queue \in Seq(Tasks) /\ r = [p EXCEPT !.queue = r.queue]
  BY <1>8 DEF Initializing
<1>10. PICK e \in Tasks : /\ InitTask(e, 6, 5) /\ AsksFor(e, conf.fmt) /\ Alike(Append(q, e), r.queue)
  <2>1. 6 - 1 = 5
    OBVIOUS
  <2> QED BY <1>6, <1>8, <2>1 DEF Initializing
<1>11. at_queue_task_cmd(Head(q)).cmd = "CVOICE"
  BY DEF HeadCmd, q
<1>12. u \in Seq(Tasks) /\ Placed(u, 6, 5) /\ (FormatAsked(q, conf.fmt) => FormatAsked(u, conf.fmt))
  BY <1>1, <1>2, <1>5, <1>9, <1>10, <1>11, SecondInit
<1>13. v \in Seq(Tasks) /\ Placed(v, 6, 5) /\ (FormatAsked(q, conf.fmt) => FormatAsked(v, conf.fmt))
  <2> HIDE DEF u
  <2> QED BY <1>12, RunGrown DEF Grown
<1>14. pvt' = [p EXCEPT !.queue = v] /\ rx' = Tail(rx) /\ answered' = FALSE /\ UNCHANGED <<conf, modem>>
  <2>1. /\ pvt' = [at_queue_handle_result(r, RES_ERROR) EXCEPT !.queue = at_queue_run(@)]
        /\ rx' = Tail(rx) /\ answered' = FALSE /\ UNCHANGED <<conf, modem>>
    BY <1>7 DEF Final, Handled
  <2>2. at_queue_handle_result(r, RES_ERROR) = [r EXCEPT !.queue = u]
    BY DEF at_queue_handle_result
  <2>3. DOMAIN p = DOMAIN Disconnected
    BY <1>6 DEF Pvts, Disconnected
  <2> HIDE DEF u
  <2> DEFINE w == r.queue
  <2>4. r = [p EXCEPT !.queue = w]
    BY <1>9
  <2> HIDE DEF w
  <2>5. [r EXCEPT !.queue = u] = [p EXCEPT !.queue = u]
    BY <2>4
  <2>6. [p EXCEPT !.queue = u].queue = u
    BY <2>3 DEF Disconnected
  <2>7. pvt' = [[p EXCEPT !.queue = u] EXCEPT !.queue = v]
    BY <2>1, <2>2, <2>5, <2>6
  <2> HIDE DEF v
  <2>8. [[p EXCEPT !.queue = u] EXCEPT !.queue = v] = [p EXCEPT !.queue = v]
    OBVIOUS
  <2> QED BY <2>1, <2>7, <2>8
<1> HIDE DEF v, u
<1>15. /\ pvt' \in Pvts /\ pvt'.queue = v /\ pvt'.connected /\ ~pvt'.initialized
       /\ ~pvt'.has_voice /\ pvt'.gsm_registered = pvt.gsm_registered /\ pvt'.has_voice \in BOOLEAN
       /\ modem.voice \in BOOLEAN
  <2>1. /\ pvt' \in Pvts /\ pvt'.queue = v /\ pvt'.connected = p.connected
        /\ pvt'.initialized = p.initialized /\ pvt'.has_voice = p.has_voice
        /\ pvt'.gsm_registered = p.gsm_registered
    BY <1>6, <1>13, <1>14, Requeued
  <2>2. pvt'.has_voice \in BOOLEAN /\ modem.voice \in BOOLEAN
    BY <1>1, <2>1 DEF SessionTypes, Pvts, ModemStates
  <2> QED BY <1>2, <1>6, <2>1, <2>2
<1>16. RegKnown'
  <2>1. RegKnown
    BY <1>5 DEF Believed
  <2> QED BY <1>1, <1>14, <1>15, <2>1, FinalReg
<1>17. Believed(5)'
  BY <1>3, <1>5, <1>14, <1>15, <1>16 DEF Believed
<1>18. Stage(6, 5)'
  BY <1>3, <1>13, <1>14, <1>15, <1>17 DEF Stage
<1>19. raced \/ FormatAsked(pvt'.queue, conf.fmt)
  BY <1>13, <1>15 DEF SessionInv, q
<1> QED BY <1>1, <1>14, <1>15, <1>18, <1>19, FinalInv

(* ERROR *)
LEMMA ErrorInv == ASSUME SessionInv, at_response_error PROVE SessionInv'
<1> DEFINE c == HeadCmd
<1>1. /\ rx # << >> /\ Head(rx).t = "ERROR" /\ Head(rx).t \in Finals
      /\ \/ Fatal(c) /\ Disconnect(modem)
         \/ ~Fatal(c) /\ Final(AfterError(c), RES_ERROR) /\ UNCHANGED raced
  BY DEF at_response_error, Got, Finals
<1>2. pvt.connected /\ pvt.queue # << >> /\ Effect(Head(rx), c)
  BY <1>1, GotFinal
<1>3. PICK k \in Nat, s \in Nat : Stage(k, s)
  BY <1>2 DEF SessionInv
<1>4. c.cmd \notin Others =>
        /\ s \in 0 .. 8 /\ c.cmd = InitList[s + 1]
        /\ c.ignore <=> c.cmd \in {"CREG_INIT", "CSCS"}
  BY <1>2, <1>3, StageHead DEF SessionInv
<1>5. pvt \in Pvts /\ modem \in ModemStates /\ (modem.ucs2 => modem.charset)
  BY DEF SessionInv, SessionTypes
<1>6. CASE Fatal(c)
  BY <1>1, <1>5, <1>6, GivenUp
<1>7. CASE ~Fatal(c) /\ c.cmd \in Others
  <2> DEFINE p == AfterError(c)
  <2>1. p = pvt \/ p = [pvt EXCEPT !.incoming_sms = FALSE]
    BY <1>7 DEF AfterError, Others
  <2>2. /\ p \in Pvts
        /\ p.queue = pvt.queue /\ p.connected = pvt.connected /\ p.initialized = pvt.initialized
        /\ p.has_voice = pvt.has_voice /\ p.has_sms = pvt.has_sms /\ p.fmt = pvt.fmt
        /\ p.ucs2 = pvt.ucs2 /\ p.gsm_registered = pvt.gsm_registered
    <3> HIDE DEF p
    <3> QED BY <1>5, <2>1 DEF Pvts
  <2>3. Final(p, RES_ERROR)
    BY <1>1, <1>7
  <2> HIDE DEF p
  <2> QED BY <1>1, <1>7, <2>2, <2>3, OtherFinalInv
<1>8. CASE ~Fatal(c) /\ c.cmd \notin Others
  <2>1. /\ s \in 0 .. 8
        /\ c.cmd = "AT" <=> s = 0
        /\ c.cmd = "U2DIAG" <=> s = 1
        /\ c.cmd = "CREG_INIT" <=> s = 2
        /\ c.cmd = "CREG" <=> s = 3
        /\ c.cmd = "CVOICE" <=> s = 4
        /\ c.cmd = "CMGF" <=> s = 5
        /\ c.cmd = "CSCS" <=> s = 6
        /\ c.cmd = "CNMI" <=> s = 7
        /\ c.cmd = "CSQ" <=> s = 8
    BY <1>4, <1>8, NamedStage
  <2>2. pvt.initialized <=> s >= 8
    BY <1>3 DEF Stage
  <2>3. s \in {4, 6, 8}
    <3>1. c.cmd \notin {"U2DIAG", "CREG"}
      BY <1>1, <1>2 DEF Effect
    <3>2. c.cmd \notin {"AT", "CREG_INIT"} /\ (c.cmd \in {"CMGF", "CNMI"} => pvt.initialized)
      BY <1>8 DEF Fatal
    <3> HIDE DEF c
    <3> QED BY <2>1, <2>2, <3>1, <3>2
  <2>4. CASE s = 4
    BY <1>1, <1>8, <2>1, <2>2, <2>4, NoVoiceInv
  <2>5. CASE s = 6
    <3> DEFINE p == [pvt EXCEPT !.ucs2 = FALSE]
    <3>1. c.cmd = "CSCS" /\ c.ignore
      BY <1>4, <1>8, <2>1, <2>5
    <3>2. ~modem.ucs2 /\ modem.ucs2 \in BOOLEAN
      BY <1>1, <1>2, <1>5, <3>1 DEF Effect, ModemStates
    <3>3. /\ p \in Pvts
          /\ p.queue = pvt.queue /\ p.connected = pvt.connected /\ p.initialized = pvt.initialized
          /\ p.has_voice = pvt.has_voice /\ p.has_sms = pvt.has_sms /\ p.fmt = pvt.fmt
          /\ p.ucs2 = FALSE /\ p.gsm_registered = pvt.gsm_registered
      BY <1>5 DEF Pvts
    <3>4. Final(p, RES_ERROR) /\ UNCHANGED raced
      <4>1. AfterError(c) = p
        BY <3>1 DEF AfterError
      <4> QED BY <1>1, <1>8, <4>1
    <3>5. p.ucs2 = modem.ucs2
      BY <3>2, <3>3
    <3> HIDE DEF p
    <3> QED BY <1>1, <1>3, <1>8, <2>1, <2>2, <2>5, <3>1, <3>3, <3>4, <3>5, InitFinalInv
  <2>6. CASE s = 8
    <3>1. Final(pvt, RES_ERROR) /\ UNCHANGED raced
      <4>1. c.cmd = "CSQ"
        BY <2>1, <2>6
      <4>2. AfterError(c) = pvt
        BY <4>1 DEF AfterError
      <4> QED BY <1>1, <1>8, <4>2
    <3> QED BY <1>1, <1>3, <1>5, <1>8, <2>1, <2>2, <2>6, <3>1, InitFinalInv
  <2> QED BY <2>3, <2>4, <2>5, <2>6
<1> QED BY <1>6, <1>7, <1>8

(* +CMGR *)
LEMMA CmgrInv == ASSUME SessionInv, at_response_cmgr PROVE SessionInv'
<1> DEFINE p == [pvt EXCEPT !.incoming_sms = FALSE]
<1>1. /\ rx # << >> /\ Head(rx).t = "CMGR" /\ Head(rx).t \in Finals
      /\ Final(p, RES_CMGR) /\ UNCHANGED raced
  BY DEF at_response_cmgr, Got, Finals
<1>2. HeadCmd.cmd \in Others
  BY <1>1, GotFinal DEF Effect, Others
<1>3. /\ p \in Pvts
      /\ p.queue = pvt.queue /\ p.connected = pvt.connected /\ p.initialized = pvt.initialized
      /\ p.has_voice = pvt.has_voice /\ p.has_sms = pvt.has_sms /\ p.fmt = pvt.fmt
      /\ p.ucs2 = pvt.ucs2 /\ p.gsm_registered = pvt.gsm_registered
  BY DEF SessionInv, SessionTypes, Pvts
<1> HIDE DEF p
<1> QED BY <1>1, <1>2, <1>3, OtherFinalInv

(* The prompt for the text of a message *)
LEMMA PromptInv == ASSUME SessionInv, at_response_sms_prompt PROVE SessionInv'
<1>1. /\ rx # << >> /\ Head(rx).t = "PROMPT" /\ Head(rx).t \in Finals
      /\ HeadCmd.res = RES_SMS_PROMPT /\ Final(pvt, RES_SMS_PROMPT) /\ UNCHANGED raced
  BY DEF at_response_sms_prompt, Got, Finals
<1>2. HeadCmd.cmd \in Others
  <2>1. pvt.queue # << >> /\ pvt.connected
    BY <1>1, GotFinal
  <2>2. PICK k \in Nat, s \in Nat : Stage(k, s)
    BY <2>1 DEF SessionInv
  <2>3. HeadCmd.cmd \notin Others => HeadCmd.res = RES_OK
    BY <2>1, <2>2, StageHead DEF SessionInv
  <2> QED BY <1>1, <2>3 DEF RES_OK, RES_SMS_PROMPT
<1>3. pvt \in Pvts
  BY DEF SessionInv, SessionTypes
<1> QED BY <1>1, <1>2, <1>3, OtherFinalInv

(* A line that is no final code is handled. *)
LEMMA NewsHandled ==
  ASSUME SessionInv, rx # << >>, Head(rx).t \notin Finals, NEW p \in Pvts, Grown(pvt.queue, p.queue),
         p.connected = pvt.connected, p.initialized = pvt.initialized,
         p.has_voice = pvt.has_voice, p.has_sms = pvt.has_sms, p.fmt = pvt.fmt, p.ucs2 = pvt.ucs2,
         p.gsm_registered = (IF Head(rx).t = "CREG" THEN Head(rx).arg = "registered"
                             ELSE pvt.gsm_registered),
         Handled(p), UNCHANGED <<answered, raced>>
  PROVE  SessionInv'
<1> DEFINE v == at_queue_run(p.queue)
<1>1. p.queue \in Seq(Tasks) /\ DOMAIN p = DOMAIN Disconnected
  BY DEF Pvts, Disconnected
<1>2. v \in Seq(Tasks) /\ Grown(pvt.queue, v)
  BY <1>1, RunGrown, GrownTwice
<1>3. pvt' = [p EXCEPT !.queue = v] /\ rx' = Tail(rx) /\ UNCHANGED <<conf, modem>>
  BY DEF Handled
<1> HIDE DEF v
<1>4. /\ pvt' \in Pvts /\ pvt'.queue = v
      /\ pvt'.connected = p.connected /\ pvt'.initialized = p.initialized
      /\ pvt'.has_voice = p.has_voice /\ pvt'.has_sms = p.has_sms /\ pvt'.fmt = p.fmt
      /\ pvt'.ucs2 = p.ucs2 /\ pvt'.gsm_registered = p.gsm_registered
  BY <1>2, <1>3, Requeued
<1>5. SessionTypes /\ Wire /\ pvt.connected /\ Grown(pvt.queue, pvt'.queue)
  BY <1>2, <1>4 DEF SessionInv
<1>6. Wire'
  BY <1>3, <1>5, OtherGone
<1>7. RegKnown => RegKnown'
  BY <1>3, <1>4, <1>5, OtherReg, ReportReg
<1>8. rx' \in Seq(Lines) /\ modem' \in ModemStates
  BY <1>3, <1>5, LineGone DEF SessionTypes
<1> QED BY <1>3, <1>4, <1>5, <1>6, <1>7, <1>8, GrownInv

(* +CUSD *)
LEMMA CusdInv == ASSUME SessionInv, at_response_cusd PROVE SessionInv'
<1>1. /\ rx # << >> /\ Head(rx).t = "CUSD" /\ Head(rx).t \notin Finals
      /\ Handled(pvt) /\ UNCHANGED <<answered, raced>>
  BY DEF at_response_cusd, Got, Finals
<1>2. pvt \in Pvts /\ Grown(pvt.queue, pvt.queue)
  BY DEF SessionInv, SessionTypes, Grown
<1>3. Head(rx).t # "CREG"
  BY <1>1
<1> QED BY <1>1, <1>2, <1>3, NewsHandled

(* +CPIN *)
LEMMA CpinInv == ASSUME SessionInv, at_response_cpin PROVE SessionInv'
<1>1. Disconnect(modem) /\ modem \in ModemStates /\ (modem.ucs2 => modem.charset)
  BY DEF at_response_cpin, SessionInv, SessionTypes
<1> QED BY <1>1, GivenUp

(* +CMTI *)
LEMMA CmtiInv == ASSUME SessionInv, at_response_cmti PROVE SessionInv'
<1> DEFINE m == Head(rx).arg
           wanted == ~conf.disablesms /\ pvt_enabled
           r == at_enque_retrive_sms(pvt, m)
           p == [r EXCEPT !.incoming_sms = TRUE]
<1>1. /\ rx # << >> /\ Head(rx).t = "CMTI" /\ Head(rx).t \notin Finals
      /\ Handled(IF wanted THEN p ELSE pvt) /\ UNCHANGED <<answered, raced>>
  BY DEF at_response_cmti, Got, Finals
<1>2. pvt \in Pvts /\ Grown(pvt.queue, pvt.queue) /\ Head(rx).t # "CREG"
  BY <1>1 DEF SessionInv, SessionTypes, Grown
<1>3. CASE ~wanted
  <2>1. Handled(pvt)
    BY <1>1, <1>3
  <2> QED BY <1>1, <1>2, <2>1, NewsHandled
<1>4. CASE wanted
  <2>1. m \in Args
    <3>1. Head(rx) \in Lines
      BY <1>1, LineGone, HeadTailProperties DEF SessionInv, SessionTypes
    <3> QED BY <3>1 DEF Lines, Args
  <2> DEFINE a == Cmd("CMGR", m)
             b == Cmd("CMGD", m)
             cmds == IF conf.autodeletesms THEN <<a, b>> ELSE <<a>>
  <2>2. a \in Cmds /\ b \in Cmds /\ a.cmd \in Others /\ b.cmd \in Others
    <3> HIDE DEF m
    <3> QED BY <2>1, CmdIn DEF Others
  <2>3. r = at_queue_insert(pvt, cmds, FALSE)
    BY DEF at_enque_retrive_sms
  <2> HIDE DEF a, b
  <2>4. cmds \in Seq(Cmds) /\ cmds # << >> /\ \A i \in 1 .. Len(cmds) : cmds[i].cmd \in Others
    BY <2>2
  <2> HIDE DEF cmds
  <2>5. r.queue \in Seq(Tasks) /\ r = [pvt EXCEPT !.queue = r.queue] /\ Grown(pvt.queue, r.queue)
    BY <1>2, <2>3, <2>4, InsertGrown
  <2> DEFINE w == r.queue
  <2>6. r = [pvt EXCEPT !.queue = w] /\ w \in Seq(Tasks) /\ Grown(pvt.queue, w)
    BY <2>5
  <2> HIDE DEF w, r
  <2>7. p = [pvt EXCEPT !.queue = w, !.incoming_sms = TRUE]
    BY <2>6
  <2> HIDE DEF p
  <2>8. /\ p \in Pvts /\ p.queue = w /\ p.connected = pvt.connected /\ p.initialized = pvt.initialized
        /\ p.has_voice = pvt.has_voice /\ p.has_sms = pvt.has_sms /\ p.fmt = pvt.fmt
        /\ p.ucs2 = pvt.ucs2 /\ p.gsm_registered = pvt.gsm_registered
    BY <1>2, <2>6, <2>7 DEF Pvts
  <2>9. Handled(p) /\ Grown(pvt.queue, p.queue)
    BY <1>1, <1>4, <2>6, <2>8
  <2> QED BY <1>1, <1>2, <2>8, <2>9, NewsHandled
<1> QED BY <1>3, <1>4

(* One command more that is not of the initialization *)
LEMMA OneMore ==
  ASSUME NEW p \in Pvts, NEW name \in Others
  PROVE  LET r == at_queue_insert(p, <<Cmd(name, "-")>>, FALSE)
         IN  /\ r \in Pvts /\ Grown(p.queue, r.queue)
             /\ r.connected = p.connected /\ r.initialized = p.initialized
             /\ r.has_voice = p.has_voice /\ r.has_sms = p.has_sms /\ r.fmt = p.fmt
             /\ r.ucs2 = p.ucs2 /\ r.gsm_registered = p.gsm_registered
<1> DEFINE a == Cmd(name, "-")
           r == at_queue_insert(p, <<a>>, FALSE)
<1>1. a \in Cmds /\ a.cmd \in Others
  BY CmdIn DEF Args
<1> HIDE DEF a
<1>2. <<a>> \in Seq(Cmds) /\ <<a>> # << >> /\ \A i \in 1 .. Len(<<a>>) : <<a>>[i].cmd \in Others
  BY <1>1
<1>3. r.queue \in Seq(Tasks) /\ r = [p EXCEPT !.queue = r.queue] /\ Grown(p.queue, r.queue)
  BY <1>2, InsertGrown
<1> HIDE DEF r
<1>4. /\ r \in Pvts
      /\ r.connected = p.connected /\ r.initialized = p.initialized
      /\ r.has_voice = p.has_voice /\ r.has_sms = p.has_sms /\ r.fmt = p.fmt
      /\ r.ucs2 = p.ucs2 /\ r.gsm_registered = p.gsm_registered
  BY <1>3, Requeued
<1> QED BY <1>3, <1>4 DEF r, a

(* +CREG *)
LEMMA CregInv == ASSUME SessionInv, at_response_creg PROVE SessionInv'
<1> DEFINE d == Head(rx).arg = "registered"
           p == at_enque_cops(pvt)
           q == IF d /\ ~p.gsm_registered THEN at_enque_set_ccwa(p) ELSE p
           r == [q EXCEPT !.gsm_registered = d]
<1>1. /\ rx # << >> /\ Head(rx).t = "CREG" /\ Head(rx).t \notin Finals
      /\ Handled(r) /\ UNCHANGED <<answered, raced>>
  BY DEF at_response_creg, Got, Finals
<1>2. pvt \in Pvts /\ d \in BOOLEAN
  BY DEF SessionInv, SessionTypes
<1>3. /\ p \in Pvts /\ Grown(pvt.queue, p.queue)
      /\ p.connected = pvt.connected /\ p.initialized = pvt.initialized
      /\ p.has_voice = pvt.has_voice /\ p.has_sms = pvt.has_sms /\ p.fmt = pvt.fmt
      /\ p.ucs2 = pvt.ucs2
  <2>1. "COPS" \in Others
    BY DEF Others
  <2> QED BY <1>2, <2>1, OneMore DEF at_enque_cops
<1> HIDE DEF p, d
<1>4. /\ q \in Pvts /\ Grown(pvt.queue, q.queue)
      /\ q.connected = pvt.connected /\ q.initialized = pvt.initialized
      /\ q.has_voice = pvt.has_voice /\ q.has_sms = pvt.has_sms /\ q.fmt = pvt.fmt
      /\ q.ucs2 = pvt.ucs2
  <2> DEFINE w == at_enque_set_ccwa(p)
  <2>1. "CCWA" \in Others
    BY DEF Others
  <2>2. /\ w \in Pvts /\ Grown(p.queue, w.queue)
        /\ w.connected = p.connected /\ w.initialized = p.initialized
        /\ w.has_voice = p.has_voice /\ w.has_sms = p.has_sms /\ w.fmt = p.fmt
        /\ w.ucs2 = p.ucs2
    BY <1>3, <2>1, OneMore DEF at_enque_set_ccwa
  <2>3. Grown(pvt.queue, w.queue)
    BY <1>3, <2>2, GrownTwice
  <2> HIDE DEF w
  <2>4. q = w \/ q = p
    BY DEF w
  <2> HIDE DEF q
  <2> QED BY <1>3, <2>2, <2>3, <2>4
<1> HIDE DEF q
<1>5. /\ r \in Pvts /\ r.queue = q.queue
      /\ r.connected = q.connected /\ r.initialized = q.initialized
      /\ r.has_voice = q.has_voice /\ r.has_sms = q.has_sms /\ r.fmt = q.fmt
      /\ r.ucs2 = q.ucs2 /\ r.gsm_registered = d
  BY <1>2, <1>4 DEF Pvts
<1> HIDE DEF r
<1>6. Grown(pvt.queue, r.queue)
  BY <1>4, <1>5
<1>7. r.gsm_registered = (IF Head(rx).t = "CREG" THEN Head(rx).arg = "registered"
                          ELSE pvt.gsm_registered)
  BY <1>1, <1>5 DEF d
<1> QED BY <1>1, <1>4, <1>5, <1>6, <1>7, NewsHandled

(* Every step keeps the invariant. *)
LEMMA NextInv == ASSUME SessionInv, Willing, [Next]_vars PROVE SessionInv'
<1>1. CASE Connect
  BY <1>1, ConnectInv, SessionAssumption
<1>2. CASE Lost \/ Terminate
  BY <1>2, LossInv
<1>3. CASE Reload
  BY <1>3, ReloadInv
<1>4. ASSUME NEW when \in {"gracefully", "convenient"}, RequestStop(when) PROVE SessionInv'
  BY <1>4, SameInv DEF RequestStop
<1>5. ASSUME NEW o \in Out, send2(o) PROVE SessionInv'
  BY <1>5, SendInv
<1>6. CASE Ping
  BY <1>6, PingInv
<1>7. CASE Execute
  BY <1>7, ExecuteInv
<1>8. CASE Refuse
  BY <1>8, RefuseInv
<1>9. CASE Erased
  BY <1>9, ErasedInv
<1>10. CASE Locked
  BY <1>10, LockedInv
<1>11. CASE Register
  BY <1>11, RegisterInv
<1>12. ASSUME NEW m \in In, Announce(m) PROVE SessionInv'
  BY <1>12, AnnounceInv
<1>13. CASE Monitor
  BY <1>13, OkInv, ErrorInv, CmgrInv, PromptInv, CusdInv, CpinInv, CmtiInv, CregInv DEF Monitor
<1>14. CASE UNCHANGED vars
  BY <1>14, SameInv DEF vars
<1> QED BY <1>1, <1>2, <1>3, <1>4, <1>5, <1>6, <1>7, <1>8, <1>9, <1>10, <1>11, <1>12, <1>13, <1>14 DEF Next

(* The initial states have it. *)
LEMMA InitInv == Init => SessionInv
<1> SUFFICES ASSUME Init PROVE SessionInv
  OBVIOUS
<1>1. /\ pvt = Disconnected /\ conf \in Confs /\ rx = << >> /\ answered = FALSE /\ raced = FALSE
      /\ \E voice, charset \in BOOLEAN :
           modem = [voice |-> voice, charset |-> charset, reg |-> TRUE,
                    fmt |-> "text", ucs2 |-> FALSE, creg |-> FALSE, cnmi |-> FALSE,
                    regs |-> 0, lost |-> 0, reloads |-> 0]
  BY DEF Init
<1>2. modem \in ModemStates /\ ~modem.ucs2
  BY <1>1 DEF ModemStates, Args
<1>3. pvt \in Pvts /\ pvt.queue = << >> /\ ~pvt.connected
  BY <1>1, EmptySeq DEF Pvts, Disconnected
<1>4. SessionTypes
  BY <1>1, <1>2, <1>3, EmptySeq DEF SessionTypes
<1>5. Wire
  BY <1>1 DEF Wire
<1>6. FormatAsked(pvt.queue, conf.fmt)
  BY <1>3 DEF FormatAsked
<1> QED BY <1>1, <1>2, <1>3, <1>4, <1>5, <1>6 DEF SessionInv

(* What the invariant is for *)
LEMMA SessionInvBeliefs == ASSUME SessionInv PROVE BeliefsHold
<1> SUFFICES ASSUME pvt.initialized \/ (Got("CMGR") /\ modem.voice)
             PROVE  /\ pvt.has_sms
                    /\ pvt.fmt = modem.fmt \/ raced
                    /\ pvt.ucs2 = modem.ucs2
                    /\ pvt.has_voice = modem.voice
                    /\ (\A i \in DOMAIN rx : rx[i].t # "CREG") => pvt.gsm_registered = modem.reg
  BY DEF BeliefsHold
<1>1. pvt.connected
  <2>1. Got("CMGR") => rx # << >>
    BY DEF Got
  <2> QED BY <2>1 DEF SessionInv, Disconnected
<1>2. PICK k \in Nat, s \in Nat : Stage(k, s)
  BY <1>1 DEF SessionInv
<1>3. s >= 8
  <2>1. CASE pvt.initialized
    BY <1>2, <2>1 DEF Stage
  <2>2. CASE Got("CMGR") /\ modem.voice
    <3>1. rx # << >> /\ Head(rx).t = "CMGR" /\ Head(rx).t \in Finals
      BY <2>2 DEF Got, Finals
    <3>2. pvt.queue # << >> /\ HeadCmd.cmd \in Others
      BY <3>1, GotFinal DEF Effect, Others
    <3>3. k = 1 => s = 9
      BY <1>2, <3>2, StageHead DEF SessionInv
    <3>4. k = 1
      BY <1>2, <2>2 DEF Stage
    <3> QED BY <3>3, <3>4
  <2> QED BY <2>1, <2>2
<1>4. /\ RegKnown /\ pvt.has_voice = modem.voice /\ (raced \/ pvt.fmt = modem.fmt)
      /\ pvt.ucs2 = modem.ucs2 /\ pvt.has_sms
  BY <1>2, <1>3 DEF Stage, Believed
<1>5. DOMAIN rx = 1 .. Len(rx)
  BY DEF SessionInv, SessionTypes
<1> QED BY <1>4, <1>5 DEF RegKnown

(* A device that is ready is what the driver believes it to be, however its  *)
(* answers interleave with unsolicited reports, losses of the device, new    *)
(* settings and other commands, and whatever modes the modem kept from       *)
(* before: format, character set, voice and (once reported) registration.    *)
THEOREM BeliefsTrue == Willing => (Spec => []BeliefsHold)
<1>1. Willing => (Spec => []SessionInv)
  <2> SUFFICES ASSUME Willing PROVE Spec => []SessionInv
    OBVIOUS
  <2>1. SessionInv /\ [Next]_vars => SessionInv'
    BY NextInv
  <2> QED BY <2>1, InitInv, PTL DEF Spec
<1> QED BY <1>1, SessionInvBeliefs, PTL
=============================================================================
