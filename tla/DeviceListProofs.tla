-------------------------- MODULE DeviceListProofs --------------------------
(***************************************************************************)
(* Proofs about DeviceList, for any number of devices, groups and other    *)
(* resources, and any size of state->round_robin.                          *)
(*                                                                         *)
(* NoUseAfterFree is not inductive: it speaks of what a traversal reaches, *)
(* and removed runs through the links of the list itself.  The invariant   *)
(* names the devices S of the list and gives them places `at' along which  *)
(* the links lead (Chain).  While devices are collected removed starts     *)
(* somewhere on the list, behind what was looked at; every link that is    *)
(* set then cuts devices out of S (CutLists).  The first device taken off  *)
(* removed may be on the list and cuts all behind it; from then on removed *)
(* is Apart from the list.                                                 *)
(*                                                                         *)
(* RotationFair rests on the order in which devices are asked: of the k    *)
(* candidates that would be asked before a device every one that is chosen *)
(* instead brings it nearer by as many as it skips (ProbeNearer), so the   *)
(* times it was passed over and k stay below the number of candidates.     *)
(*                                                                         *)
(* List and Candidates are recursive functions; the first section shows    *)
(* that such functions exist, by least counterexample.                     *)
(***************************************************************************)
EXTENDS DeviceList, TLAPS, SequenceTheorems, FiniteSetTheorems, WellFoundedInduction

-----------------------------------------------------------------------------
(* Recursion over the numbers up to a bound *)

(* Every nonempty set of natural numbers has a least element. *)
LEMMA Least ==
  ASSUME NEW P \in SUBSET Nat, P # {}
  PROVE  \E n \in P : \A m \in P : n <= m
<1> DEFINE R == OpToRel(<, Nat)
<1>1. \A x, y \in Nat : x < y => <<x, y>> \in R
  BY DEF OpToRel
<1>2. IsWellFoundedOn(R, Nat)
  BY NatLessThanWellFounded, Zenon
<1> HIDE DEF R
<1>3. PICK n \in P : \A m \in P : ~(<<m, n>> \in R)
  BY <1>2, WFMin, Zenon
<1>4. \A m \in P : ~(m < n)
  BY <1>1, <1>3, Zenon
<1> QED BY <1>4

(* A set that holds 0 and with a number the next one holds all up to C. *)
LEMMA Upwards ==
  ASSUME NEW C \in Nat, NEW P, 0 \in P, \A n \in 1 .. C : n - 1 \in P => n \in P
  PROVE  \A n \in 0 .. C : n \in P
<1> DEFINE Q == {n \in 0 .. C : n \notin P}
<1> SUFFICES Q = {}
  OBVIOUS
<1> SUFFICES ASSUME Q # {} PROVE FALSE
  OBVIOUS
<1>1. PICK n \in Q : \A m \in Q : n <= m
  <2>1. Q \in SUBSET Nat
    OBVIOUS
  <2> HIDE DEF Q
  <2> QED BY <2>1, Least
<1>2. n \in 1 .. C /\ n - 1 \in 0 .. C
  OBVIOUS
<1>3. n - 1 \in P
  BY <1>1, <1>2
<1> QED BY <1>2, <1>3

(* f[0] is z, and h[n] leads from f[n - 1] to f[n] *)
Recursive(C, T, z, h) ==
  \E f \in [0 .. C -> T] : f[0] = z /\ \A n \in 1 .. C : f[n] = h[n][f[n - 1]]

(* A function on 0 .. C can be defined by recursion. *)
LEMMA Recursion ==
  ASSUME NEW C \in Nat, NEW T, NEW z \in T, NEW h,
         \A n \in 1 .. C : \A w \in T : h[n][w] \in T
  PROVE  Recursive(C, T, z, h)
<1> DEFINE P == {m \in 0 .. C : \E f \in [0 .. C -> T] :
                   f[0] = z /\ \A n \in 1 .. m : f[n] = h[n][f[n - 1]]}
<1>1. 0 \in P
  <2> DEFINE f == [n \in 0 .. C |-> z]
  <2>1. f \in [0 .. C -> T] /\ f[0] = z /\ \A n \in 1 .. 0 : f[n] = h[n][f[n - 1]]
    OBVIOUS
  <2> HIDE DEF f
  <2> QED BY <2>1
<1>2. ASSUME NEW m \in 1 .. C, m - 1 \in P PROVE m \in P
  <2>1. PICK f \in [0 .. C -> T] : f[0] = z /\ \A n \in 1 .. m - 1 : f[n] = h[n][f[n - 1]]
    BY <1>2
  <2> DEFINE v == h[m][f[m - 1]]
             e == [f EXCEPT ![m] = v]
  <2>2. v \in T
    OBVIOUS
  <2>3. e \in [0 .. C -> T] /\ e[0] = z
    <3> HIDE DEF v
    <3> QED BY <2>1, <2>2
  <2>4. ASSUME NEW n \in 1 .. m PROVE e[n] = h[n][e[n - 1]]
    <3>1. n - 1 \in 0 .. C /\ n - 1 # m /\ n \in 0 .. C /\ m \in 0 .. C /\ n - 1 \in 0 .. m - 1
      OBVIOUS
    <3>2. e[n - 1] = f[n - 1]
      BY <3>1
    <3>3. CASE n = m
      BY <3>1, <3>2, <3>3
    <3>4. CASE n # m
      <4>1. n \in 1 .. m - 1
        BY <3>4
      <4>2. e[n] = f[n]
        BY <3>1, <3>4
      <4> HIDE DEF e
      <4> QED BY <2>1, <3>2, <4>1, <4>2
    <3> QED BY <3>3, <3>4
  <2> HIDE DEF e
  <2> QED BY <2>3, <2>4
<1>3. C \in P
  <2> HIDE DEF P
  <2>1. \A n \in 0 .. C : n \in P
    BY <1>1, <1>2, Upwards
  <2> QED BY <2>1
<1> QED BY <1>3 DEF Recursive

-----------------------------------------------------------------------------
(* The traversal of the list *)

(* Its step *)
Walked(w) ==
  LET d == IF w = << >> THEN first ELSE next[Last(w)]
  IN  IF d = Null \/ Contains(w, d) THEN w ELSE Append(w, d)

(* A set that is closed under next is not left. *)
LEMMA WalkedIn ==
  ASSUME NEW S, first \in S \cup {Null}, \A d \in S : next[d] \in S \cup {Null},
         NEW w \in Seq(S)
  PROVE  Walked(w) \in Seq(S)
<1> DEFINE d == IF w = << >> THEN first ELSE next[Last(w)]
<1>1. d \in S \cup {Null}
  <2>1. CASE w = << >>
    BY <2>1
  <2>2. CASE w # << >>
    <3>1. Len(w) \in 1 .. Len(w)
      BY <2>2, EmptySeq, LenProperties
    <3>2. Last(w) \in S
      BY <3>1, ElementOfSeq DEF Last
    <3> QED BY <2>2, <3>2
  <2> QED BY <2>1, <2>2
<1> HIDE DEF d
<1>2. d # Null => Append(w, d) \in Seq(S)
  BY <1>1, AppendProperties
<1>3. Walked(w) = IF d = Null \/ Contains(w, d) THEN w ELSE Append(w, d)
  BY DEF Walked, d
<1> QED BY <1>2, <1>3

(* The list of devices is the last of its walks. *)
LEMMA ListWalks ==
  ASSUME IsFiniteSet(Dev), first \in Dev \cup {Null}, \A d \in Dev : next[d] \in Dev \cup {Null}
  PROVE  \E g : /\ List = g[Cardinality(Dev)] /\ Cardinality(Dev) \in Nat
                /\ g[0] = << >> /\ \A n \in 1 .. Cardinality(Dev) : g[n] = Walked(g[n - 1])
<1> DEFINE C == Cardinality(Dev)
           T == Seq(Dev)
           h == [n \in 1 .. C |-> [w \in T |-> Walked(w)]]
           Body(f) == [n \in 0 .. C |-> IF n = 0 THEN << >> ELSE Walked(f[n - 1])]
           g == CHOOSE f : f = Body(f)
<1>1. C \in Nat
  BY FS_CardinalityType
<1>2. List = g[C]
  BY Zenon DEF List, Walked
<1>3. << >> \in T
  OBVIOUS
<1>4. \A w \in T : Walked(w) \in T
  BY WalkedIn
<1> HIDE DEF C, T
<1>5. \A n \in 1 .. C : \A w \in T : h[n][w] \in T
  BY <1>4
<1>6. PICK f \in [0 .. C -> T] : f[0] = << >> /\ \A n \in 1 .. C : f[n] = h[n][f[n - 1]]
  <2> DEFINE z == << >>
  <2>1. z \in T
    BY <1>3
  <2> HIDE DEF h, z
  <2>2. Recursive(C, T, z, h)
    BY <1>1, <1>5, <2>1, Recursion
  <2> QED BY <2>2 DEF Recursive, z
<1>7. ASSUME NEW n \in 1 .. C PROVE f[n] = Walked(f[n - 1])
  <2>1. f[n - 1] \in T
    BY <1>1, <1>6
  <2>2. h[n] = [w \in T |-> Walked(w)]
    OBVIOUS
  <2> HIDE DEF h
  <2> QED BY <1>6, <2>1, <2>2
<1>8. f = Body(f)
  BY <1>1, <1>6, <1>7
<1>9. g = Body(g)
  <2> HIDE DEF Body
  <2> QED BY <1>8, Zenon
<1>10. g[0] = << >> /\ \A n \in 1 .. C : g[n] = Walked(g[n - 1])
  <2> HIDE DEF g
  <2> QED BY <1>1, <1>9
<1> HIDE DEF g
<1> QED BY <1>1, <1>2, <1>10 DEF C

(* The list holds what can be reached from its first device: it stays in any *)
(* set that holds the first device and with a device the next one.           *)
LEMMA ListIn ==
  ASSUME IsFiniteSet(Dev), NEW S \in SUBSET Dev, first \in S \cup {Null},
         \A d \in S : next[d] \in S \cup {Null},
         \A d \in Dev : next[d] \in Dev \cup {Null}
  PROVE  List \in Seq(S) /\ Listed \subseteq S
<1>1. PICK g : /\ List = g[Cardinality(Dev)] /\ Cardinality(Dev) \in Nat
               /\ g[0] = << >> /\ \A n \in 1 .. Cardinality(Dev) : g[n] = Walked(g[n - 1])
  BY ListWalks
<1> DEFINE C == Cardinality(Dev)
           P == {n \in 0 .. C : g[n] \in Seq(S)}
<1>2. 0 \in P
  <2>1. << >> \in Seq(S)
    OBVIOUS
  <2>2. 0 \in 0 .. C
    BY <1>1
  <2> HIDE DEF C
  <2> QED BY <1>1, <2>1, <2>2
<1>3. ASSUME NEW n \in 1 .. C, n - 1 \in P PROVE n \in P
  <2>1. Walked(g[n - 1]) \in Seq(S)
    BY <1>3, WalkedIn
  <2> QED BY <1>1, <1>3, <2>1
<1>4. List \in Seq(S)
  <2>1. C \in 0 .. C /\ C \in Nat
    BY <1>1
  <2>2. \A n \in 0 .. C : n \in P
    <3> HIDE DEF P, C
    <3> QED BY <1>2, <1>3, <2>1, Upwards
  <2> QED BY <1>1, <2>1, <2>2
<1>5. \A i \in 1 .. Len(List) : List[i] \in S
  BY <1>4, ElementOfSeq
<1>6. DOMAIN List = 1 .. Len(List)
  BY <1>4
<1> QED BY <1>4, <1>5, <1>6 DEF Listed, ToSet
-----------------------------------------------------------------------------
(* The selection of a device *)

(* Min picks an element, the least. *)
LEMMA MinIn ==
  ASSUME NEW P \in SUBSET Nat, P # {}
  PROVE  Min(P) \in P /\ \A n \in P : Min(P) <= n
<1>1. \E n \in P : \A m \in P : n <= m
  BY Least
<1> QED BY <1>1 DEF Min

(* Max picks an element. *)
LEMMA MaxIn ==
  ASSUME NEW C \in Nat, NEW P \in SUBSET (1 .. C), P # {}
  PROVE  Max(P) \in P /\ \A n \in P : n <= Max(P)
<1> DEFINE Q == {n \in 0 .. C : C - n \in P}
<1>1. PICK p : p \in P
  OBVIOUS
<1>2. C - p \in Q /\ Q \in SUBSET Nat
  BY <1>1
<1>3. PICK n \in Q : \A m \in Q : n <= m
  <2> HIDE DEF Q
  <2> QED BY <1>2, Least
<1>4. C - n \in P
  BY <1>3
<1>5. ASSUME NEW m \in P PROVE C - n >= m
  <2>1. m \in 1 .. C /\ C - m \in 0 .. C /\ C - (C - m) = m
    OBVIOUS
  <2>2. C - m \in Q
    BY <2>1
  <2>3. n <= C - m /\ n \in Int
    BY <2>2, <1>3
  <2> QED BY <2>1, <2>3
<1>6. \E x \in P : \A y \in P : x >= y
  BY <1>4, <1>5
<1>7. Max(P) \in P /\ \A y \in P : Max(P) >= y
  BY <1>6 DEF Max
<1> QED BY <1>7

(* FirstMatch picks from the list. *)
LEMMA FirstMatchIn ==
  ASSUME NEW S, NEW list \in Seq(S), NEW match, NEW able
  PROVE  FirstMatch(list, match, able) \in S \cup {Null}
<1> DEFINE hits == {i \in DOMAIN list : list[i] \in match \cap able}
<1>1. DOMAIN list = 1 .. Len(list) /\ Len(list) \in Nat
  BY LenProperties
<1>2. hits # {} => Min(hits) \in 1 .. Len(list)
  <2>1. hits \in SUBSET Nat /\ hits \subseteq 1 .. Len(list)
    BY <1>1
  <2> HIDE DEF hits
  <2> QED BY <2>1, MinIn
<1>3. FirstMatch(list, match, able) = IF hits = {} THEN Null ELSE list[Min(hits)]
  BY DEF FirstMatch
<1> HIDE DEF hits
<1> QED BY <1>2, <1>3, ElementOfSeq

(* The devices of the list that fit, as they are collected *)
Fitting(list, match, w, n) ==
  IF list[n] \in match /\ Len(w) < MaxItems THEN Append(w, list[n]) ELSE w

(* Candidates takes this step for every device of the list. *)
LEMMA CandidatesWalk ==
  ASSUME NEW S, NEW list \in Seq(S), NEW match
  PROVE  \E g : /\ Candidates(list, match) = g[Len(list)] /\ g[0] = << >>
                /\ \A n \in 1 .. Len(list) : g[n] = Fitting(list, match, g[n - 1], n)
<1> DEFINE C == Len(list)
           T == Seq(S)
           h == [n \in 1 .. C |-> [w \in T |-> Fitting(list, match, w, n)]]
           Body(f) == [n \in 0 .. C |-> IF n = 0 THEN << >>
                                        ELSE Fitting(list, match, f[n - 1], n)]
           g == CHOOSE f : f = Body(f)
<1>1. C \in Nat
  BY LenProperties
<1>2. Candidates(list, match) = g[C]
  BY Zenon DEF Candidates, Fitting
<1>3. ASSUME NEW w \in T, NEW n \in 1 .. C PROVE Fitting(list, match, w, n) \in T
  <2>1. list[n] \in S
    BY <1>3, ElementOfSeq
  <2>2. Append(w, list[n]) \in T
    BY <2>1, <1>3, AppendProperties
  <2> QED BY <1>3, <2>2 DEF Fitting
<1> DEFINE z == << >>
<1>4. z \in T
  OBVIOUS
<1> HIDE DEF C, T, z
<1>5. \A n \in 1 .. C : \A w \in T : h[n][w] \in T
  BY <1>3
<1>6. PICK f \in [0 .. C -> T] : f[0] = z /\ \A n \in 1 .. C : f[n] = h[n][f[n - 1]]
  <2> HIDE DEF h
  <2>1. Recursive(C, T, z, h)
    BY <1>1, <1>4, <1>5, Recursion
  <2> QED BY <2>1 DEF Recursive
<1>7. ASSUME NEW n \in 1 .. C PROVE f[n] = Fitting(list, match, f[n - 1], n)
  <2>1. f[n - 1] \in T
    BY <1>1, <1>6
  <2>2. h[n] = [w \in T |-> Fitting(list, match, w, n)]
    OBVIOUS
  <2> HIDE DEF h
  <2> QED BY <1>6, <2>1, <2>2
<1>8. f = Body(f)
  BY <1>1, <1>6, <1>7 DEF z
<1>9. g = Body(g)
  <2> HIDE DEF Body
  <2> QED BY <1>8, Zenon
<1>10. g[0] = << >> /\ \A n \in 1 .. C : g[n] = Fitting(list, match, g[n - 1], n)
  <2> HIDE DEF g
  <2> QED BY <1>1, <1>9
<1> HIDE DEF g
<1> QED BY <1>2, <1>10 DEF C

(* The candidates are devices of the list that fit. *)
LEMMA CandidatesIn ==
  ASSUME NEW S, NEW list \in Seq(S), NEW match
  PROVE  Candidates(list, match) \in Seq(S \cap match)
<1>1. PICK g : /\ Candidates(list, match) = g[Len(list)] /\ g[0] = << >>
               /\ \A n \in 1 .. Len(list) : g[n] = Fitting(list, match, g[n - 1], n)
  BY CandidatesWalk
<1> DEFINE C == Len(list)
           P == {n \in 0 .. C : g[n] \in Seq(S \cap match)}
<1>2. C \in Nat
  BY LenProperties
<1>3. 0 \in P
  <2>1. << >> \in Seq(S \cap match)
    OBVIOUS
  <2>2. 0 \in 0 .. C
    BY <1>2
  <2> HIDE DEF C
  <2> QED BY <1>1, <2>1, <2>2
<1>4. ASSUME NEW n \in 1 .. C, n - 1 \in P PROVE n \in P
  <2>1. list[n] \in match => list[n] \in S \cap match
    BY ElementOfSeq
  <2>2. list[n] \in match => Append(g[n - 1], list[n]) \in Seq(S \cap match)
    BY <2>1, <1>4, AppendProperties
  <2>3. g[n] \in Seq(S \cap match)
    BY <1>1, <1>4, <2>2 DEF Fitting
  <2> QED BY <1>2, <2>3
<1>5. C \in P
  <2>1. \A n \in 0 .. C : n \in P
    <3> HIDE DEF P, C
    <3> QED BY <1>2, <1>3, <1>4, Upwards
  <2> HIDE DEF P, C
  <2> QED BY <1>2, <2>1
<1> QED BY <1>1, <1>5

(* The search goes through the candidates. *)
LEMMA ProbeIn ==
  ASSUME NEW S, NEW cands \in Seq(S), NEW flags, NEW i \in 0 .. Len(cands) - 1
  PROVE  /\ LastUsed(cands, flags) \in 1 .. Len(cands)
         /\ ((LastUsed(cands, flags) + i) % Len(cands)) + 1 \in 1 .. Len(cands)
         /\ Probe(cands, flags, i) \in S
<1> DEFINE L == Len(cands)
           set == {k \in DOMAIN cands : cands[k] \in flags}
           u == LastUsed(cands, flags)
<1>1. L \in Nat /\ L >= 1 /\ DOMAIN cands = 1 .. L
  BY LenProperties
<1>2. u = IF set = {} THEN 1 ELSE Max(set)
  BY DEF LastUsed
<1>3. set \subseteq 1 .. L
  BY <1>1
<1>4. u \in 1 .. L
  <2> HIDE DEF set, L, u
  <2>1. CASE set = {}
    BY <2>1, <1>1, <1>2
  <2>2. CASE set # {}
    <3>1. Max(set) \in set
      BY <1>1, <1>3, <2>2, MaxIn
    <3> QED BY <3>1, <2>2, <1>2, <1>3
  <2> QED BY <2>1, <2>2
<1>5. i \in Nat
  BY <1>1
<1> HIDE DEF u, L, set
<1>6. ((u + i) % L) + 1 \in 1 .. L
  BY <1>1, <1>4, <1>5
<1>7. Probe(cands, flags, i) = cands[((u + i) % L) + 1]
  BY DEF Probe, u, L
<1>8. Probe(cands, flags, i) \in S
  BY <1>6, <1>7, ElementOfSeq DEF L
<1> QED BY <1>4, <1>6, <1>8 DEF u, L

(* RoundRobin picks from the list. *)
LEMMA RoundRobinIn ==
  ASSUME NEW S, NEW list \in Seq(S), NEW match, NEW flags, NEW able
  PROVE  RoundRobin(list, match, flags, able) \in S \cup {Null}
<1> DEFINE cands == Candidates(list, match)
           hits == {i \in 0 .. Len(cands) - 1 : Probe(cands, flags, i) \in able}
<1>1. cands \in Seq(S)
  <2>1. cands \in Seq(S \cap match)
    BY CandidatesIn
  <2>2. S \cap match \subseteq S
    OBVIOUS
  <2> HIDE DEF cands
  <2> QED BY <2>1, <2>2
<1>2. RoundRobin(list, match, flags, able) = IF hits = {} THEN Null ELSE Probe(cands, flags, Min(hits))
  BY DEF RoundRobin
<1> HIDE DEF cands
<1>3. hits # {} => Min(hits) \in 0 .. Len(cands) - 1
  <2>1. hits \in SUBSET Nat /\ hits \subseteq 0 .. Len(cands) - 1
    BY <1>1, LenProperties
  <2> HIDE DEF hits
  <2> QED BY <2>1, MinIn
<1> HIDE DEF hits
<1>4. hits # {} => Probe(cands, flags, Min(hits)) \in S
  BY <1>1, <1>3, ProbeIn
<1> QED BY <1>2, <1>4
-----------------------------------------------------------------------------
(* The lists in memory: the invariant *)

Types ==
  /\ next \in [Dev -> Ptr] /\ alloc \subseteq Dev
  /\ {first, last, rfirst, rlast, cur, prev, rm} \subseteq Ptr
  /\ dpc \in {"sleep", "scan", "take", "walk"}

(* The devices S are linked from first in the order of their places at.      *)
Chain(S, at) ==
  /\ S \subseteq alloc
  /\ IF first = Null THEN S = {} ELSE first \in S
  /\ \A s \in S : at[first] <= at[s]
  /\ \A s \in S : next[s] # Null => next[s] \in S /\ at[s] < at[next[s]]
  /\ \A s, t \in S : at[s] < at[t] => next[s] # Null /\ at[next[s]] <= at[t]
  /\ \A s, t \in S : at[s] = at[t] => s = t

(* last ends the list. *)
Ended(S) == first # Null => last \in S /\ next[last] = Null

(* The rest of removed has nothing to do with the list any more. *)
Apart(S) ==
  \E R \in SUBSET Dev : /\ R \cap S = {} /\ rfirst \in R \cup {Null}
                        /\ \A r \in R : next[r] \in R \cup {Null}

(* While devices are collected removed runs along the list, behind the       *)
(* device that is looked at.                                                 *)
Collecting(S, at) ==
  /\ prev = Null /\ Ended(S)
  /\ cur \in S \cup {Null}
  /\ rfirst # Null => /\ {rfirst, rlast} \subseteq S /\ at[rfirst] <= at[rlast]
                      /\ cur # Null => at[rlast] < at[cur]

(* The first device that is taken off removed is on the list and cuts it:    *)
(* all others are not found.                                                 *)
Taking(S) ==
  /\ cur = Null /\ prev \in S \cup {Null} /\ Ended(S)
  /\ rfirst \in S \/ Apart(S)

(* The traversal that looks for the device taken *)
Walking(S, at) ==
  /\ prev \in S \cup {Null} /\ cur \in S \cup {Null} /\ Apart(S)
  /\ cur # Null => IF prev = Null THEN cur = first ELSE next[prev] = cur
  /\ IF rm \in S THEN cur \in S /\ at[cur] <= at[rm] /\ next[rm] = Null ELSE Ended(S)

Lists(S, at) ==
  /\ Chain(S, at)
  /\ dpc = "sleep" => Collecting(S, at) /\ rfirst = Null /\ cur = Null
  /\ dpc = "scan"  => Collecting(S, at)
  /\ dpc = "take"  => Taking(S)
  /\ dpc = "walk"  => Walking(S, at)

Holds == cli \in alloc \cup {Null}

IInv == Types /\ Holds /\ \E S \in SUBSET Dev : \E at \in [Dev -> Int] : Lists(S, at)

(* A chain stays one as long as its links, its first device and its devices *)
(* do.                                                                      *)
LEMMA ChainKept ==
  ASSUME NEW S, NEW at, Chain(S, at),
         first' = first, S \subseteq alloc', \A s \in S : next'[s] = next[s]
  PROVE  Chain(S, at)'
  BY DEF Chain

(* Steps that touch neither list *)
LEMMA ListsKept ==
  ASSUME NEW S, NEW at, Lists(S, at), UNCHANGED <<listvars, alloc, discvars>>
  PROVE  Lists(S, at)'
<1> USE DEF listvars, discvars
<1>1. Chain(S, at)'
  BY DEF Lists, Chain
<1>2. Ended(S)' = Ended(S) /\ Apart(S)' = Apart(S)
  BY DEF Ended, Apart
<1> QED BY <1>1, <1>2 DEF Lists, Collecting, Taking, Walking

(* The order of a chain *)
LEMMA ChainOrder ==
  ASSUME NEW S \in SUBSET Dev, NEW at \in [Dev -> Int], Chain(S, at)
  PROVE  /\ \A s \in S : at[s] \in Int
         /\ \A s, t \in S : s # t => at[s] < at[t] \/ at[t] < at[s]
         /\ \A s \in S : next[s] = Null => \A t \in S : at[t] <= at[s]
<1>1. \A s \in S : at[s] \in Int
  OBVIOUS
<1>2. ASSUME NEW s \in S, NEW t \in S, s # t PROVE at[s] < at[t] \/ at[t] < at[s]
  <2>1. at[s] # at[t]
    BY <1>2 DEF Chain
  <2> QED BY <2>1, <1>1
<1>3. ASSUME NEW s \in S, NEW t \in S, next[s] = Null PROVE at[t] <= at[s]
  <2>1. ~(at[s] < at[t])
    BY <1>3 DEF Chain
  <2> QED BY <2>1, <1>1
<1> QED BY <1>1, <1>2, <1>3

(* The invariant for some devices at some places *)
Listing == \E S \in SUBSET Dev : \E at \in [Dev -> Int] : Lists(S, at)

(* ... whichever they are. *)
LEMMA Relisted ==
  ASSUME NEW S \in SUBSET Dev, NEW at \in [Dev -> Int], Lists(S, at)'
  PROVE  Listing'
  BY DEF Listing

-----------------------------------------------------------------------------
(* The steps of the discovery thread *)

(* Nothing is collected yet. *)
LEMMA ScanBeginsLists ==
  ASSUME Types, NEW S \in SUBSET Dev, NEW at \in [Dev -> Int], Lists(S, at), ScanBegins
  PROVE  Listing'
<1>1. /\ dpc = "sleep" /\ dpc' = "scan" /\ cur' = first /\ prev' = prev /\ rfirst' = rfirst
      /\ UNCHANGED <<next, first, last, alloc>>
  BY DEF ScanBegins, listvars
<1>2. Chain(S, at) /\ Collecting(S, at) /\ rfirst = Null
  BY <1>1 DEF Lists
<1>3. Chain(S, at)'
  BY <1>1, <1>2 DEF Chain
<1>4. Collecting(S, at)'
  <2>1. first \in S \cup {Null}
    BY <1>2 DEF Chain
  <2> QED BY <1>1, <1>2, <2>1 DEF Collecting, Ended
<1>5. Lists(S, at)'
  BY <1>1, <1>3, <1>4 DEF Lists
<1> QED BY <1>5, Relisted

(* A device is passed: removed stays behind. *)
LEMMA ScanKeepsLists ==
  ASSUME Types, NEW S \in SUBSET Dev, NEW at \in [Dev -> Int], Lists(S, at), ScanKeeps
  PROVE  Listing'
<1>1. /\ dpc = "scan" /\ dpc' = "scan" /\ cur # Null /\ cur' = next[cur]
      /\ UNCHANGED <<next, first, last, alloc, prev, rfirst, rlast>>
  BY DEF ScanKeeps, listvars
<1>2. Chain(S, at) /\ Collecting(S, at)
  BY <1>1 DEF Lists
<1>3. Chain(S, at)'
  BY <1>1, <1>2 DEF Chain
<1>4. cur \in S /\ (next[cur] # Null => next[cur] \in S /\ at[cur] < at[next[cur]])
  BY <1>1, <1>2 DEF Collecting, Chain
<1>5. ASSUME rfirst # Null, next[cur] # Null PROVE at[rlast] < at[next[cur]]
  <2>1. at[rlast] < at[cur] /\ rlast \in S
    BY <1>1, <1>2, <1>5 DEF Collecting
  <2>2. at[rlast] \in Int /\ at[cur] \in Int /\ at[next[cur]] \in Int
    BY <2>1, <1>4, <1>5
  <2> QED BY <2>1, <2>2, <1>4, <1>5
<1>6. Collecting(S, at)'
  BY <1>1, <1>2, <1>4, <1>5 DEF Collecting, Ended
<1>7. Lists(S, at)'
  BY <1>1, <1>3, <1>6 DEF Lists
<1> QED BY <1>7, Relisted

(* The second and every further device that is collected: the devices        *)
(* between it and the one before are cut off.                                *)
LEMMA CutLists ==
  ASSUME Types, NEW S \in SUBSET Dev, NEW at \in [Dev -> Int], Lists(S, at),
         ScanCollects, rfirst # Null
  PROVE  Listing'
<1>0. PICK S2 : S2 = {s \in S : at[s] <= at[rlast] \/ at[cur] <= at[s]}
  OBVIOUS
<1>1. /\ dpc = "scan" /\ dpc' = "scan" /\ cur # Null
      /\ next' = [next EXCEPT ![rlast] = cur] /\ rfirst' = rfirst /\ rlast' = cur /\ cur' = next'[cur]
      /\ UNCHANGED <<first, last, alloc, prev>>
  BY DEF ScanCollects
<1>2. Chain(S, at) /\ Collecting(S, at)
  BY <1>1 DEF Lists
<1>3. /\ cur \in S /\ rfirst \in S /\ rlast \in S
      /\ at[rfirst] <= at[rlast] /\ at[rlast] < at[cur]
  BY <1>1, <1>2 DEF Collecting
<1>4. /\ \A s \in S : at[s] \in Int
      /\ \A s, t \in S : s # t => at[s] < at[t] \/ at[t] < at[s]
      /\ \A s \in S : next[s] = Null => \A t \in S : at[t] <= at[s]
  BY <1>2, ChainOrder
<1>5. /\ cur # rlast /\ next'[rlast] = cur /\ \A s \in S : s # rlast => next'[s] = next[s]
  BY <1>1, <1>3, <1>4 DEF Types
<1>6. /\ S \subseteq alloc /\ first # Null /\ first \in S /\ \A s \in S : at[first] <= at[s]
      /\ \A s \in S : next[s] # Null => next[s] \in S /\ at[s] < at[next[s]]
      /\ \A s, t \in S : at[s] < at[t] => next[s] # Null /\ at[next[s]] <= at[t]
      /\ \A s, t \in S : at[s] = at[t] => s = t
  BY <1>2, <1>3 DEF Chain
<1>7. S2 \in SUBSET S /\ first \in S2 /\ cur \in S2 /\ rfirst \in S2 /\ rlast \in S2
  BY <1>0, <1>3, <1>4, <1>6
<1>8. ASSUME NEW s \in S2, next'[s] # Null
      PROVE  next'[s] \in S2 /\ at[s] < at[next'[s]]
  <2>1. CASE s = rlast
    BY <2>1, <1>0, <1>3, <1>5, <1>7
  <2>2. CASE s # rlast
    <3>1. next'[s] = next[s] /\ next[s] \in S /\ at[s] < at[next[s]]
      BY <2>2, <1>5, <1>6, <1>7, <1>8
    <3>2. at[s] < at[rlast] => at[next[s]] <= at[rlast]
      BY <1>3, <1>6, <1>7
    <3>3. at[s] \in Int /\ at[next[s]] \in Int /\ at[cur] \in Int /\ at[rlast] \in Int
      BY <3>1, <1>3, <1>4, <1>7
    <3>4. at[s] < at[rlast] \/ at[cur] <= at[s]
      BY <1>0, <2>2, <3>3, <1>3, <1>4, <1>7
    <3>5. at[next[s]] <= at[rlast] \/ at[cur] <= at[next[s]]
      BY <3>1, <3>2, <3>3, <3>4
    <3> QED BY <1>0, <3>1, <3>5
  <2> QED BY <2>1, <2>2
<1>9. ASSUME NEW s \in S2, NEW t \in S2, at[s] < at[t]
      PROVE  next'[s] # Null /\ at[next'[s]] <= at[t]
  <2>1. CASE s = rlast
    <3>1. at[cur] <= at[t]
      BY <1>0, <2>1, <1>3, <1>4, <1>7, <1>9
    <3> QED BY <2>1, <3>1, <1>1, <1>5
  <2>2. CASE s # rlast
    BY <2>2, <1>5, <1>6, <1>7, <1>9
  <2> QED BY <2>1, <2>2
<1>10. Chain(S2, at)'
  <2> QED BY <1>1, <1>6, <1>7, <1>8, <1>9 DEF Chain
<1>11. Ended(S2)'
  <2>1. last \in S /\ next[last] = Null
    BY <1>2, <1>6 DEF Collecting, Ended
  <2>2. at[cur] <= at[last] /\ at[last] \in Int
    BY <2>1, <1>3, <1>4
  <2>3. last \in S2 /\ last # rlast
    BY <1>0, <2>1, <2>2, <1>3, <1>4
  <2>4. next'[last] = Null
    BY <2>1, <2>3, <1>5
  <2> QED BY <2>3, <2>4, <1>1 DEF Ended
<1>12. cur' # Null => cur' \in S2 /\ at[cur] < at[cur']
  BY <1>1, <1>7, <1>8
<1>13. at[rfirst] <= at[cur]
  BY <1>3, <1>4
<1>14. Collecting(S2, at)'
  <2>1. prev' = Null
    BY <1>1, <1>2 DEF Collecting
  <2> QED BY <1>1, <1>7, <1>11, <1>12, <1>13, <2>1 DEF Collecting
<1>15. Lists(S2, at)'
  BY <1>1, <1>10, <1>14 DEF Lists
<1> QED BY <1>7, <1>15, Relisted

(* The first device that is collected changes no link. *)
LEMMA ScanCollectsLists ==
  ASSUME Types, NEW S \in SUBSET Dev, NEW at \in [Dev -> Int], Lists(S, at), ScanCollects
  PROVE  Listing'
<1>1. CASE rfirst # Null
  BY <1>1, CutLists
<1>2. CASE rfirst = Null
  <2>1. /\ dpc = "scan" /\ dpc' = "scan" /\ cur # Null
        /\ next' = next /\ rfirst' = cur /\ rlast' = cur /\ cur' = next[cur]
        /\ UNCHANGED <<first, last, alloc, prev>>
    BY <1>2 DEF ScanCollects
  <2>2. Chain(S, at) /\ Collecting(S, at)
    BY <2>1 DEF Lists
  <2>3. Chain(S, at)'
    BY <2>1, <2>2 DEF Chain
  <2>4. cur \in S /\ (next[cur] # Null => next[cur] \in S /\ at[cur] < at[next[cur]])
    BY <2>1, <2>2 DEF Collecting, Chain
  <2>5. at[cur] <= at[cur]
    BY <2>4
  <2>6. Collecting(S, at)'
    BY <2>1, <2>2, <2>4, <2>5 DEF Collecting, Ended
  <2>7. Lists(S, at)'
    BY <2>1, <2>3, <2>6 DEF Lists
  <2> QED BY <2>7, Relisted
<1> QED BY <1>1, <1>2

(* What was collected starts on the list. *)
LEMMA ScanEndsLists ==
  ASSUME Types, NEW S \in SUBSET Dev, NEW at \in [Dev -> Int], Lists(S, at), ScanEnds
  PROVE  Listing'
<1>1. /\ dpc = "scan" /\ dpc' = "take" /\ cur = Null
      /\ UNCHANGED <<next, first, last, alloc, prev, rfirst, cur>>
  BY DEF ScanEnds, listvars
<1>2. Chain(S, at) /\ Collecting(S, at)
  BY <1>1 DEF Lists
<1>3. Chain(S, at)'
  BY <1>1, <1>2 DEF Chain
<1>4. rfirst \in S \/ Apart(S)
  <2>1. CASE rfirst # Null
    BY <2>1, <1>2 DEF Collecting
  <2>2. CASE rfirst = Null
    <3>1. {} \in SUBSET Dev /\ {} \cap S = {}
      OBVIOUS
    <3> QED BY <2>2, <3>1 DEF Apart
  <2> QED BY <2>1, <2>2
<1>5. Taking(S)'
  <2>1. Apart(S)' = Apart(S)
    BY <1>1 DEF Apart
  <2> QED BY <1>1, <1>2, <1>4, <2>1 DEF Taking, Collecting, Ended
<1>6. Lists(S, at)'
  BY <1>1, <1>3, <1>5 DEF Lists
<1> QED BY <1>6, Relisted

(* The first device taken off cuts the list behind itself. *)
LEMMA TakeFirstLists ==
  ASSUME Types, DeviceListAssumption, NEW S \in SUBSET Dev, NEW at \in [Dev -> Int], Lists(S, at),
         TakeRemoved, rfirst \in S
  PROVE  Listing'
<1>0. PICK S2 : S2 = {s \in S : at[s] <= at[rfirst]}
  OBVIOUS
<1>1. /\ dpc = "take" /\ dpc' = "walk" /\ rfirst # Null /\ rm' = rfirst /\ rfirst' = next[rfirst]
      /\ next' = [next EXCEPT ![rfirst] = Null] /\ cur' = first /\ prev' = Null
      /\ UNCHANGED <<first, last, alloc>>
  BY DEF TakeRemoved
<1>2. Chain(S, at) /\ Taking(S)
  BY <1>1 DEF Lists
<1>3. rfirst \in S
  OBVIOUS
<1>4. /\ \A s \in S : at[s] \in Int
      /\ \A s, t \in S : s # t => at[s] < at[t] \/ at[t] < at[s]
  BY <1>2, ChainOrder
<1>5. next'[rfirst] = Null /\ \A s \in Dev : s # rfirst => next'[s] = next[s]
  BY <1>1, <1>3 DEF Types
<1>6. /\ S \subseteq alloc /\ first # Null /\ first \in S /\ \A s \in S : at[first] <= at[s]
      /\ \A s \in S : next[s] # Null => next[s] \in S /\ at[s] < at[next[s]]
      /\ \A s, t \in S : at[s] < at[t] => next[s] # Null /\ at[next[s]] <= at[t]
      /\ \A s, t \in S : at[s] = at[t] => s = t
  BY <1>2, <1>3 DEF Chain
<1>7. S2 \in SUBSET S /\ first \in S2 /\ rfirst \in S2
  BY <1>0, <1>3, <1>4, <1>6
<1>8. ASSUME NEW s \in S2, next'[s] # Null
      PROVE  next'[s] \in S2 /\ at[s] < at[next'[s]]
  <2>1. s # rfirst /\ next'[s] = next[s] /\ next[s] \in S /\ at[s] < at[next[s]]
    BY <1>5, <1>6, <1>7, <1>8
  <2>2. at[s] < at[rfirst]
    BY <2>1, <1>0, <1>3, <1>4, <1>7
  <2>3. at[next[s]] <= at[rfirst]
    BY <2>2, <1>3, <1>6, <1>7
  <2> QED BY <2>1, <2>3, <1>0
<1>9. ASSUME NEW s \in S2, NEW t \in S2, at[s] < at[t]
      PROVE  next'[s] # Null /\ at[next'[s]] <= at[t]
  <2>1. s # rfirst
    BY <1>0, <1>3, <1>4, <1>7, <1>9
  <2> QED BY <2>1, <1>5, <1>6, <1>7, <1>9
<1>10. Chain(S2, at)'
  BY <1>1, <1>6, <1>7, <1>8, <1>9 DEF Chain
<1>11. Apart(S2)'
  <2> DEFINE R == {s \in S : at[rfirst] < at[s]}
  <2>1. R \in SUBSET Dev /\ R \cap S2 = {}
    BY <1>0, <1>3, <1>4
  <2>2. rfirst' \in R \cup {Null}
    BY <1>1, <1>3, <1>6
  <2>3. ASSUME NEW r \in R PROVE next'[r] \in R \cup {Null}
    <3>1. r \in S /\ at[rfirst] < at[r] /\ r # rfirst
      BY <1>3, <1>4
    <3>2. CASE next[r] = Null
      BY <3>1, <3>2, <1>5
    <3>3. CASE next[r] # Null
      <4>1. next'[r] = next[r] /\ next[r] \in S /\ at[r] < at[next[r]]
        BY <3>1, <3>3, <1>5, <1>6
      <4>2. at[rfirst] < at[next[r]]
        BY <3>1, <4>1, <1>3, <1>4
      <4> QED BY <4>1, <4>2
    <3> QED BY <3>2, <3>3
  <2> HIDE DEF R
  <2>4. PICK Q : Q = R
    OBVIOUS
  <2>5. \A r \in Q : next'[r] \in Q \cup {Null}
    BY <2>3, <2>4
  <2> QED BY <2>1, <2>2, <2>4, <2>5 DEF Apart
<1>12. Walking(S2, at)'
  <2>1. at[first] <= at[rfirst]
    BY <1>3, <1>6
  <2> QED BY <1>1, <1>5, <1>7, <1>11, <2>1 DEF Walking
<1>13. Lists(S2, at)'
  BY <1>1, <1>10, <1>12 DEF Lists
<1> QED BY <1>7, <1>13, Relisted

(* What is taken off later is not on the list any more. *)
LEMMA TakeRemovedLists ==
  ASSUME Types, DeviceListAssumption, NEW S \in SUBSET Dev, NEW at \in [Dev -> Int], Lists(S, at),
         TakeRemoved
  PROVE  Listing'
<1>1. /\ dpc = "take" /\ dpc' = "walk" /\ rfirst # Null /\ rm' = rfirst /\ rfirst' = next[rfirst]
      /\ next' = [next EXCEPT ![rfirst] = Null] /\ cur' = first /\ prev' = Null
      /\ UNCHANGED <<first, last, alloc>>
  BY DEF TakeRemoved
<1>2. Chain(S, at) /\ Taking(S)
  BY <1>1 DEF Lists
<1>3. CASE rfirst \in S
  BY <1>3, TakeFirstLists
<1>4. CASE Apart(S)
  <2>1. PICK R \in SUBSET Dev : /\ R \cap S = {} /\ rfirst \in R \cup {Null}
                                /\ \A r \in R : next[r] \in R \cup {Null}
    BY <1>4 DEF Apart
  <2>2. rfirst \in R /\ rfirst \in Dev /\ rfirst \notin S
    BY <2>1, <1>1
  <2>3. next'[rfirst] = Null /\ \A s \in Dev : s # rfirst => next'[s] = next[s]
    BY <1>1, <2>2 DEF Types
  <2>4. \A s \in S : next'[s] = next[s]
    BY <2>2, <2>3
  <2>5. Chain(S, at)'
    BY <1>1, <1>2, <2>4 DEF Chain
  <2>6. Apart(S)'
    BY <1>1, <2>1, <2>2, <2>3 DEF Apart
  <2>7. Walking(S, at)'
    <3>1. first \in S \cup {Null}
      BY <1>2 DEF Chain
    <3>2. Ended(S)'
      BY <1>1, <1>2, <2>4 DEF Taking, Ended
    <3> QED BY <1>1, <2>2, <2>6, <3>1, <3>2 DEF Walking
  <2>8. Lists(S, at)'
    BY <1>1, <2>5, <2>7 DEF Lists
  <2> QED BY <2>8, Relisted
<1> QED BY <1>2, <1>3, <1>4 DEF Taking

(* The traversal does not miss the device. *)
LEMMA WalkSkipsLists ==
  ASSUME Types, NEW S \in SUBSET Dev, NEW at \in [Dev -> Int], Lists(S, at), WalkSkips
  PROVE  Listing'
<1>1. /\ dpc = "walk" /\ dpc' = "walk" /\ cur # Null /\ cur # rm /\ prev' = cur /\ cur' = next[cur]
      /\ UNCHANGED <<next, first, last, alloc, rfirst, rlast, rm>>
  BY DEF WalkSkips, listvars
<1>2. Chain(S, at) /\ Walking(S, at)
  BY <1>1 DEF Lists
<1>3. Chain(S, at)'
  BY <1>1, <1>2 DEF Chain
<1>4. cur \in S /\ next[cur] \in S \cup {Null}
  BY <1>1, <1>2 DEF Walking, Chain
<1>5. ASSUME rm \in S PROVE next[cur] \in S /\ at[next[cur]] <= at[rm]
  <2>1. at[cur] <= at[rm]
    BY <1>2, <1>5 DEF Walking
  <2>2. at[cur] # at[rm] /\ at[cur] \in Int /\ at[rm] \in Int
    BY <1>1, <1>2, <1>4, <1>5 DEF Chain
  <2>3. at[cur] < at[rm]
    BY <2>1, <2>2
  <2> QED BY <2>3, <1>2, <1>4, <1>5 DEF Chain
<1>6. Walking(S, at)'
  <2>1. Apart(S)' /\ Ended(S)' = Ended(S)
    BY <1>1, <1>2 DEF Walking, Apart, Ended
  <2>2. rm \in S => next[rm] = Null
    BY <1>2 DEF Walking
  <2>3. rm \notin S => Ended(S)
    BY <1>2 DEF Walking
  <2> QED BY <1>1, <1>4, <1>5, <2>1, <2>2, <2>3 DEF Walking
<1>7. Lists(S, at)'
  BY <1>1, <1>3, <1>6 DEF Lists
<1> QED BY <1>7, Relisted

(* The device taken is the last of the list; it is unlinked and freed. *)
LEMMA WalkUnlinksLists ==
  ASSUME Types, DeviceListAssumption, NEW S \in SUBSET Dev, NEW at \in [Dev -> Int], Lists(S, at),
         WalkUnlinks
  PROVE  Listing'
<1>0. PICK S2 : S2 = S \ {cur}
  OBVIOUS
<1>1. /\ dpc = "walk" /\ dpc' = "walk" /\ cur # Null /\ cur = rm
      /\ UNCHANGED <<rfirst, rlast, prev, rm>> /\ alloc' = alloc \ {cur}
      /\ next' = [d \in Dev |-> IF d = cur THEN Null ELSE IF d = prev THEN next[cur] ELSE next[d]]
      /\ first' = (IF prev = Null THEN next[cur] ELSE first)
      /\ last' = (IF next[cur] = Null THEN prev ELSE last)
      /\ cur' = next[cur]
  BY DEF WalkUnlinks
<1>2. Chain(S, at) /\ Walking(S, at)
  BY <1>1 DEF Lists
<1>3. /\ cur \in S /\ rm \in S /\ next[cur] = Null /\ prev \in S \cup {Null}
      /\ IF prev = Null THEN cur = first ELSE next[prev] = cur
  BY <1>1, <1>2 DEF Walking
<1>4. first' = (IF prev = Null THEN Null ELSE first) /\ last' = prev /\ cur' = Null
  BY <1>1, <1>3
<1>5. /\ \A s \in S : at[s] \in Int
      /\ \A s, t \in S : s # t => at[s] < at[t] \/ at[t] < at[s]
      /\ \A t \in S : at[t] <= at[cur]
  BY <1>2, <1>3, ChainOrder
<1>6. /\ S \subseteq alloc /\ first # Null /\ first \in S /\ \A s \in S : at[first] <= at[s]
      /\ \A s \in S : next[s] # Null => next[s] \in S /\ at[s] < at[next[s]]
      /\ \A s, t \in S : at[s] < at[t] => next[s] # Null /\ at[next[s]] <= at[t]
      /\ \A s, t \in S : at[s] = at[t] => s = t
  BY <1>2, <1>3 DEF Chain
<1>7. prev # cur /\ (prev # Null => prev \in S2)
  BY <1>0, <1>1, <1>3, <1>5, <1>6
<1>8. ASSUME NEW s \in S2, s # prev PROVE next'[s] = next[s] /\ next[s] # cur
  <2>1. s \in S /\ s # cur /\ s \in Dev
    BY <1>0
  <2>2. next'[s] = next[s]
    BY <2>1, <1>1, <1>8
  <2>3. ASSUME next[s] = cur PROVE FALSE
    <3>1. at[s] < at[cur]
      BY <2>1, <2>3, <1>1, <1>6
    <3>2. CASE prev = Null
      <4>1. at[cur] <= at[s]
        BY <2>1, <3>2, <1>3, <1>6
      <4> QED BY <2>1, <3>1, <4>1, <1>3, <1>5
    <3>3. CASE prev # Null
      <4>1. prev \in S /\ next[prev] = cur /\ at[prev] < at[cur]
        BY <3>3, <1>1, <1>3, <1>6
      <4>2. at[s] < at[prev] => at[cur] <= at[prev]
        BY <2>1, <2>3, <4>1, <1>6
      <4>3. at[prev] < at[s] => at[cur] <= at[s]
        BY <2>1, <4>1, <1>6
      <4> QED BY <2>1, <3>1, <4>1, <4>2, <4>3, <1>3, <1>5, <1>8
    <3> QED BY <3>2, <3>3
  <2> QED BY <2>2, <2>3
<1>9. prev # Null => next'[prev] = Null
  BY <1>1, <1>3
<1>10. ASSUME NEW s \in S2, next'[s] # Null
       PROVE  next'[s] \in S2 /\ at[s] < at[next'[s]]
  <2>1. s # prev /\ s \in S
    BY <1>0, <1>7, <1>9, <1>10
  <2>2. next'[s] = next[s] /\ next[s] # cur
    BY <2>1, <1>8
  <2> QED BY <2>1, <2>2, <1>0, <1>6, <1>10
<1>11. ASSUME NEW s \in S2, NEW t \in S2, at[s] < at[t]
       PROVE  next'[s] # Null /\ at[next'[s]] <= at[t]
  <2>1. s \in S /\ t \in S /\ t # cur
    BY <1>0
  <2>2. s # prev
    <3>1. s = prev => at[cur] <= at[t]
      BY <2>1, <1>1, <1>3, <1>6, <1>11
    <3> QED BY <2>1, <3>1, <1>3, <1>5
  <2> QED BY <2>1, <2>2, <1>6, <1>8, <1>11
<1>12. IF first' = Null THEN S2 = {} ELSE first' \in S2
  <2>1. CASE prev = Null
    <3>1. \A s \in S : s = cur
      BY <2>1, <1>3, <1>5, <1>6
    <3> QED BY <2>1, <3>1, <1>0, <1>4
  <2>2. CASE prev # Null
    <3>1. first # cur
      <4>1. at[first] <= at[prev] /\ at[prev] < at[cur] /\ prev \in S
        BY <2>2, <1>1, <1>3, <1>6
      <4> QED BY <4>1, <1>3, <1>5, <1>6
    <3> QED BY <2>2, <3>1, <1>0, <1>4, <1>6
  <2> QED BY <2>1, <2>2
<1>13. first' # Null => first' = first
  BY <1>4
<1>14. Chain(S2, at)'
  <2>1. S2 \subseteq alloc' /\ S2 \subseteq S
    BY <1>0, <1>1, <1>6
  <2>2. \A s \in S2 : at[first'] <= at[s]
    BY <2>1, <1>6, <1>12, <1>13
  <2>3. \A s, t \in S2 : at[s] = at[t] => s = t
    BY <2>1, <1>6
  <2> QED BY <1>10, <1>11, <1>12, <2>1, <2>2, <2>3 DEF Chain
<1>15. Apart(S2)'
  <2>1. PICK R \in SUBSET Dev : /\ R \cap S = {} /\ rfirst \in R \cup {Null}
                                /\ \A r \in R : next[r] \in R \cup {Null}
    BY <1>2 DEF Walking, Apart
  <2>2. ASSUME NEW r \in R PROVE next'[r] \in R \cup {Null}
    <3>1. r # cur /\ r # prev /\ r \in Dev
      BY <2>1, <1>3, DeviceListAssumption
    <3> QED BY <2>1, <3>1, <1>1
  <2>3. R \cap S2 = {} /\ rfirst' \in R \cup {Null}
    BY <1>0, <1>1, <2>1
  <2> QED BY <2>2, <2>3 DEF Apart
<1>16. Walking(S2, at)'
  <2>1. Ended(S2)'
    BY <1>4, <1>7, <1>9 DEF Ended
  <2>2. rm' \notin S2
    BY <1>0, <1>1
  <2> QED BY <1>1, <1>4, <1>7, <1>15, <2>1, <2>2 DEF Walking
<1>17. Lists(S2, at)'
  BY <1>1, <1>14, <1>16 DEF Lists
<1> QED BY <1>0, <1>17, Relisted

(* The traversal has met the device, if it was there. *)
LEMMA WalkEndsLists ==
  ASSUME Types, NEW S \in SUBSET Dev, NEW at \in [Dev -> Int], Lists(S, at), WalkEnds,
         DeviceListAssumption
  PROVE  Listing'
<1>1. /\ dpc = "walk" /\ dpc' = "take" /\ cur = Null
      /\ UNCHANGED <<next, first, last, alloc, prev, rfirst, cur>>
  BY DEF WalkEnds, listvars
<1>2. Chain(S, at) /\ Walking(S, at)
  BY <1>1 DEF Lists
<1>3. Chain(S, at)'
  BY <1>1, <1>2 DEF Chain
<1>4. rm \notin S
  <2>1. cur \notin S
    BY <1>1, DeviceListAssumption
  <2> QED BY <2>1, <1>2 DEF Walking
<1>5. Ended(S) /\ Apart(S) /\ prev \in S \cup {Null}
  BY <1>2, <1>4 DEF Walking
<1>6. Taking(S)'
  <2>1. Apart(S)' /\ Ended(S)'
    BY <1>1, <1>5 DEF Apart, Ended
  <2> QED BY <1>1, <1>5, <2>1 DEF Taking
<1>7. Lists(S, at)'
  BY <1>1, <1>3, <1>6 DEF Lists
<1> QED BY <1>7, Relisted

(* Nothing is left of removed. *)
LEMMA TakeEndsLists ==
  ASSUME Types, NEW S \in SUBSET Dev, NEW at \in [Dev -> Int], Lists(S, at), TakeEnds
  PROVE  Listing'
<1>1. /\ dpc = "take" /\ dpc' = "sleep" /\ rfirst = Null /\ prev' = Null
      /\ UNCHANGED <<next, first, last, alloc, rfirst, cur>>
  BY DEF TakeEnds, listvars
<1>2. Chain(S, at) /\ Taking(S)
  BY <1>1 DEF Lists
<1>3. Chain(S, at)'
  BY <1>1, <1>2 DEF Chain
<1>4. Collecting(S, at)' /\ cur' = Null /\ rfirst' = Null
  BY <1>1, <1>2 DEF Collecting, Taking, Ended
<1>5. Lists(S, at)'
  BY <1>1, <1>3, <1>4 DEF Lists
<1> QED BY <1>5, Relisted

-----------------------------------------------------------------------------
(* The operator *)

(* A new device is linked behind the last one. *)
LEMMA AddDeviceLists ==
  ASSUME Types, DeviceListAssumption, NEW S \in SUBSET Dev, NEW at \in [Dev -> Int], Lists(S, at),
         NEW d \in Dev, AddDevice(d)
  PROVE  Listing'
<1>0. PICK S2, at2 : /\ S2 = S \cup {d}
                     /\ at2 = [at EXCEPT ![d] = IF first = Null THEN 0 ELSE at[last] + 1]
  OBVIOUS
<1>1. /\ dpc = "sleep" /\ d \notin alloc /\ alloc' = alloc \cup {d}
      /\ next' = [e \in Dev |-> IF e = d THEN Null
                                ELSE IF e = last /\ first # Null THEN d ELSE next[e]]
      /\ first' = (IF first = Null THEN d ELSE first) /\ last' = d
      /\ UNCHANGED <<rfirst, rlast, dpc, cur, prev, rm>>
  BY DEF AddDevice
<1>2. Chain(S, at) /\ Collecting(S, at) /\ rfirst = Null /\ cur = Null /\ Ended(S)
  BY <1>1 DEF Lists, Collecting
<1>3. /\ S \subseteq alloc /\ (IF first = Null THEN S = {} ELSE first \in S)
      /\ \A s \in S : at[first] <= at[s]
      /\ \A s \in S : next[s] # Null => next[s] \in S /\ at[s] < at[next[s]]
      /\ \A s, t \in S : at[s] < at[t] => next[s] # Null /\ at[next[s]] <= at[t]
      /\ \A s, t \in S : at[s] = at[t] => s = t
  BY <1>2 DEF Chain
<1>4. d \notin S /\ d # Null /\ next'[d] = Null
  BY <1>1, <1>3, DeviceListAssumption
<1>5. first # Null => /\ last \in S /\ next[last] = Null /\ last # d /\ next'[last] = d
                      /\ \A s \in S : at[s] <= at[last]
  BY <1>1, <1>2, <1>4, ChainOrder DEF Ended
<1>6. \A s \in S : (s # last => next'[s] = next[s]) /\ at[s] \in Int /\ at2[s] = at[s]
  BY <1>0, <1>1, <1>4
<1>7. at2 \in [Dev -> Int] /\ \A s \in S : at2[s] < at2[d]
  <2>1. CASE first = Null
    BY <2>1, <1>0, <1>3
  <2>2. CASE first # Null
    <3>1. at[last] \in Int
      BY <2>2, <1>5
    <3>2. at2 \in [Dev -> Int] /\ at2[d] = at[last] + 1
      BY <2>2, <3>1, <1>0
    <3>3. ASSUME NEW s \in S PROVE at2[s] < at2[d]
      <4>1. at[s] <= at[last] /\ at[s] \in Int /\ at2[s] = at[s]
        BY <2>2, <1>5, <1>6
      <4> QED BY <3>1, <3>2, <4>1
    <3> QED BY <3>2, <3>3
  <2> QED BY <2>1, <2>2
<1>8. at2[d] \in Int
  BY <1>7
<1>9. ASSUME NEW s \in S2, next'[s] # Null
      PROVE  next'[s] \in S2 /\ at2[s] < at2[next'[s]]
  <2>1. s \in S
    BY <1>0, <1>4, <1>9
  <2>2. CASE s = last
    BY <2>1, <2>2, <1>0, <1>3, <1>5, <1>7
  <2>3. CASE s # last
    BY <2>1, <2>3, <1>0, <1>3, <1>6, <1>9
  <2> QED BY <2>2, <2>3
<1>10. ASSUME NEW s \in S2, NEW t \in S2, at2[s] < at2[t]
       PROVE  next'[s] # Null /\ at2[next'[s]] <= at2[t]
  <2>1. s \in S
    <3>1. s = d => t = d \/ at2[t] < at2[s]
      BY <1>0, <1>7
    <3>2. at2[s] \in Int /\ at2[t] \in Int
      BY <1>0, <1>6, <1>8
    <3> QED BY <3>1, <3>2, <1>0, <1>10
  <2>2. first # Null
    BY <2>1, <1>3
  <2>3. CASE s = last
    <3>1. t \notin S
      <4>1. t \in S => at[t] <= at[s] /\ at[s] < at[t] /\ at[s] \in Int /\ at[t] \in Int
        BY <2>1, <2>2, <2>3, <1>5, <1>6, <1>10
      <4> QED BY <4>1
    <3>2. t = d /\ next'[s] = d
      BY <2>2, <2>3, <3>1, <1>0, <1>5
    <3> QED BY <3>2, <1>4, <1>8
  <2>4. CASE s # last /\ t = d
    <3>1. at[s] # at[last] /\ at[s] <= at[last] /\ at[s] \in Int /\ at[last] \in Int
      BY <2>1, <2>2, <2>4, <1>3, <1>5, <1>6
    <3>2. at[s] < at[last]
      BY <3>1
    <3>3. next[s] # Null /\ next[s] \in S /\ next'[s] = next[s]
      BY <2>1, <2>2, <2>4, <3>2, <1>3, <1>5, <1>6
    <3>4. at2[next[s]] < at2[d] /\ at2[next[s]] \in Int
      BY <3>3, <1>6, <1>7
    <3> QED BY <2>4, <3>3, <3>4, <1>8
  <2>5. CASE s # last /\ t # d
    <3>1. t \in S /\ at[s] < at[t]
      BY <2>1, <2>5, <1>0, <1>6, <1>10
    <3>2. next[s] # Null /\ at[next[s]] <= at[t] /\ next[s] \in S /\ next'[s] = next[s]
      BY <2>1, <2>5, <3>1, <1>3, <1>6
    <3> QED BY <3>1, <3>2, <1>6
  <2> QED BY <2>3, <2>4, <2>5
<1>11. \A s, t \in S2 : at2[s] = at2[t] => s = t
  <2>1. ASSUME NEW s \in S2, NEW t \in S2, at2[s] = at2[t] PROVE s = t
    <3>1. at2[s] \in Int /\ at2[t] \in Int
      BY <1>0, <1>6, <1>8
    <3>2. CASE s \in S /\ t \in S
      BY <2>1, <3>2, <1>3, <1>6
    <3>3. CASE s = d \/ t = d
      BY <2>1, <3>1, <3>3, <1>0, <1>7
    <3> QED BY <3>2, <3>3, <1>0
  <2> QED BY <2>1
<1>12. Chain(S2, at2)'
  <2>1. S2 \subseteq alloc' /\ first' # Null /\ first' \in S2
    BY <1>0, <1>1, <1>3, <1>4
  <2>2. ASSUME NEW s \in S2 PROVE at2[first'] <= at2[s]
    <3>1. CASE first = Null
      BY <3>1, <1>0, <1>1, <1>3, <1>8
    <3>2. CASE first # Null /\ s \in S
      BY <3>2, <1>1, <1>3, <1>6
    <3>3. CASE first # Null /\ s = d
      <4>1. first' = first /\ first \in S /\ at2[first] < at2[d] /\ at2[first] \in Int
        BY <3>3, <1>1, <1>3, <1>6, <1>7
      <4> QED BY <3>3, <4>1, <1>8
    <3> QED BY <3>1, <3>2, <3>3, <1>0
  <2> QED BY <1>9, <1>10, <1>11, <2>1, <2>2 DEF Chain
<1>13. Collecting(S2, at2)' /\ rfirst' = Null /\ cur' = Null
  <2>1. prev = Null
    BY <1>2 DEF Collecting
  <2> QED BY <1>0, <1>1, <1>2, <1>4, <2>1 DEF Collecting, Ended
<1>14. Lists(S2, at2)'
  BY <1>1, <1>12, <1>13 DEF Lists
<1>15. S2 \in SUBSET Dev
  BY <1>0
<1> QED BY <1>7, <1>14, <1>15, Relisted

(* A chain of devices bounds what a traversal meets. *)
LEMMA ListedIn ==
  ASSUME Types, DeviceListAssumption, NEW S \in SUBSET Dev, NEW at, Chain(S, at)
  PROVE  List \in Seq(S) /\ Listed \subseteq S /\ S \subseteq alloc
<1>1. first \in S \cup {Null} /\ \A s \in S : next[s] \in S \cup {Null}
  BY DEF Chain
<1>2. \A s \in Dev : next[s] \in Dev \cup {Null}
  BY DEF Types, Ptr
<1>3. IsFiniteSet(Dev)
  BY DeviceListAssumption
<1>4. List \in Seq(S) /\ Listed \subseteq S
  BY <1>1, <1>2, <1>3, ListIn
<1> QED BY <1>4 DEF Chain

(* Steps of the operator and of Asterisk that touch no link *)
LEMMA LookupInductive ==
  ASSUME IInv, DeviceListAssumption, UNCHANGED <<listvars, alloc>>,
         UNCHANGED <<rfirst, rlast, dpc, cur, prev, rm>>, cli' \in alloc \cup {Null}
  PROVE  IInv'
<1>1. PICK S \in SUBSET Dev, at \in [Dev -> Int] : Lists(S, at)
  BY DEF IInv
<1>2. Lists(S, at)'
  <2> USE DEF listvars
  <2>1. Chain(S, at)'
    BY <1>1 DEF Lists, Chain
  <2>2. Ended(S)' = Ended(S) /\ Apart(S)' = Apart(S)
    BY DEF Ended, Apart
  <2> QED BY <1>1, <2>1, <2>2 DEF Lists, Collecting, Taking, Walking
<1>3. Types' /\ Holds'
  BY DEF IInv, Types, Ptr, Holds, listvars
<1> QED BY <1>2, <1>3 DEF IInv

(* What the search finds is a device of the list. *)
LEMMA DialFinds ==
  ASSUME IInv, DeviceListAssumption
  PROVE  /\ Listed \subseteq alloc
         /\ \A match, able : FirstMatch(List, match, able) \in alloc \cup {Null}
         /\ \A match, last_used, able : RoundRobin(List, match, last_used, able) \in alloc \cup {Null}
<1>1. PICK S \in SUBSET Dev, at \in [Dev -> Int] : Lists(S, at)
  BY DEF IInv
<1>2. List \in Seq(S) /\ Listed \subseteq S /\ S \subseteq alloc
  <2>1. Types /\ Chain(S, at)
    BY <1>1 DEF IInv, Lists
  <2> QED BY <2>1, ListedIn
<1>3. ASSUME NEW match, NEW able PROVE FirstMatch(List, match, able) \in alloc \cup {Null}
  BY <1>2, FirstMatchIn
<1>4. ASSUME NEW match, NEW u, NEW able PROVE RoundRobin(List, match, u, able) \in alloc \cup {Null}
  BY <1>2, RoundRobinIn
<1> QED BY <1>2, <1>3, <1>4

(* Every step keeps the lists well formed and the devices in use allocated. *)
LEMMA NextInductive == DeviceListAssumption /\ IInv /\ [Next]_vars => IInv'
<1> SUFFICES ASSUME DeviceListAssumption, IInv, [Next]_vars PROVE IInv'
  OBVIOUS
<1>1. PICK S \in SUBSET Dev, at \in [Dev -> Int] : Lists(S, at)
  BY DEF IInv
<1>2. Types /\ Holds
  BY DEF IInv
<1>3. ASSUME Types', Holds', Listing' PROVE IInv'
  BY <1>3 DEF IInv, Listing
<1>4. /\ first \in Ptr /\ last \in Ptr /\ rfirst \in Ptr /\ rlast \in Ptr /\ cur \in Ptr
      /\ prev \in Ptr /\ rm \in Ptr
      /\ next \in [Dev -> Ptr] /\ alloc \subseteq Dev /\ Null \in Ptr
      /\ \A d \in Dev : next[d] \in Ptr
  BY <1>2 DEF Types, Ptr
<1>5. \A d \in Ptr : d # Null => d \in Dev
  BY DEF Ptr
<1>6. CASE ScanBegins
  <2>1. Listing'
    BY <1>1, <1>2, <1>6, ScanBeginsLists
  <2>2. Types' /\ Holds'
    BY <1>2, <1>4, <1>6 DEF ScanBegins, Types, Holds, listvars
  <2> QED BY <1>3, <2>1, <2>2
<1>7. CASE ScanKeeps
  <2>1. Listing'
    BY <1>1, <1>2, <1>7, ScanKeepsLists
  <2>2. Types' /\ Holds'
    BY <1>2, <1>4, <1>5, <1>7 DEF ScanKeeps, Types, Holds, listvars
  <2> QED BY <1>3, <2>1, <2>2
<1>8. CASE ScanCollects
  <2>1. Listing'
    BY <1>1, <1>2, <1>8, ScanCollectsLists
  <2>2. cur \in Dev /\ next' \in [Dev -> Ptr]
    BY <1>4, <1>5, <1>8 DEF ScanCollects
  <2>3. next'[cur] \in Ptr
    BY <2>2
  <2>4. Types' /\ Holds'
    BY <1>2, <1>4, <1>8, <2>2, <2>3 DEF ScanCollects, Types, Holds
  <2> QED BY <1>3, <2>1, <2>4
<1>9. CASE ScanEnds
  <2>1. Listing'
    BY <1>1, <1>2, <1>9, ScanEndsLists
  <2>2. Types' /\ Holds'
    BY <1>2, <1>9 DEF ScanEnds, Types, Holds, listvars
  <2> QED BY <1>3, <2>1, <2>2
<1>10. CASE TakeRemoved
  <2>1. Listing'
    BY <1>1, <1>2, <1>10, TakeRemovedLists
  <2>2. next' \in [Dev -> Ptr] /\ next[rfirst] \in Ptr
    BY <1>4, <1>5, <1>10 DEF TakeRemoved
  <2>3. Types' /\ Holds'
    BY <1>2, <1>4, <1>10, <2>2 DEF TakeRemoved, Types, Holds
  <2> QED BY <1>3, <2>1, <2>3
<1>11. CASE WalkSkips
  <2>1. Listing'
    BY <1>1, <1>2, <1>11, WalkSkipsLists
  <2>2. Types' /\ Holds'
    BY <1>2, <1>4, <1>5, <1>11 DEF WalkSkips, Types, Holds, listvars
  <2> QED BY <1>3, <2>1, <2>2
<1>12. CASE WalkUnlinks
  <2>1. Listing'
    BY <1>1, <1>2, <1>12, WalkUnlinksLists
  <2>2. next[cur] \in Ptr
    BY <1>4, <1>5, <1>12 DEF WalkUnlinks
  <2>3. next' \in [Dev -> Ptr]
    BY <1>4, <1>12, <2>2 DEF WalkUnlinks
  <2>4. cli' \in alloc' \cup {Null}
    BY <1>2, <1>12 DEF WalkUnlinks, Holds
  <2>5. Types' /\ Holds'
    BY <1>2, <1>4, <1>12, <2>2, <2>3, <2>4 DEF WalkUnlinks, Types, Holds
  <2> QED BY <1>3, <2>1, <2>5
<1>13. CASE WalkEnds
  <2>1. Listing'
    BY <1>1, <1>2, <1>13, WalkEndsLists
  <2>2. Types' /\ Holds'
    BY <1>2, <1>13 DEF WalkEnds, Types, Holds, listvars
  <2> QED BY <1>3, <2>1, <2>2
<1>14. CASE TakeEnds
  <2>1. Listing'
    BY <1>1, <1>2, <1>14, TakeEndsLists
  <2>2. Types' /\ Holds'
    BY <1>2, <1>4, <1>14 DEF TakeEnds, Types, Holds, listvars
  <2> QED BY <1>3, <2>1, <2>2
<1>15. CASE ScheduleRemove
  BY <1>15, LookupInductive DEF ScheduleRemove
<1>16. CASE DialDone
  BY <1>16, LookupInductive DEF DialDone, discvars
<1>17. ASSUME NEW d \in Dev, FindDevice(d) PROVE IInv'
  <2>1. d \in alloc
    BY <1>17, DialFinds DEF FindDevice
  <2> QED BY <1>17, <2>1, LookupInductive DEF FindDevice, Found, discvars
<1>18. ASSUME NEW d \in Dev, AddDevice(d) PROVE IInv'
  <2>1. Listing'
    BY <1>1, <1>2, <1>18, AddDeviceLists
  <2>2. next' \in [Dev -> Ptr] /\ d \in Ptr
    BY <1>4, <1>18 DEF AddDevice, Ptr
  <2>3. Types' /\ Holds'
    BY <1>2, <1>4, <1>18, <2>2 DEF AddDevice, Types, Holds
  <2> QED BY <1>3, <2>1, <2>3
<1>19. ASSUME NEW match \in Firsts, NEW able \in SUBSET match, DialFirst(match, able) PROVE IInv'
  <2>1. FirstMatch(List, match, able) \in alloc \cup {Null}
    BY DialFinds
  <2> QED BY <1>19, <2>1, LookupInductive DEF DialFirst, Found, discvars
<1>20. ASSUME NEW r \in Rotations, NEW able \in SUBSET r.match, DialNext(r, able) PROVE IInv'
  <2>1. RoundRobin(List, r.match, used[r.kind], able) \in alloc \cup {Null}
    BY DialFinds
  <2>2. /\ UNCHANGED <<listvars, alloc, discvars>>
        /\ cli' = RoundRobin(List, r.match, used[r.kind], able)
    BY <1>20 DEF DialNext, Found
  <2> QED BY <2>1, <2>2, LookupInductive DEF discvars
<1>21. CASE UNCHANGED vars
  <2>1. cli' \in alloc \cup {Null}
    BY <1>2, <1>21 DEF vars, Holds
  <2> QED BY <1>21, <2>1, LookupInductive DEF vars, discvars
<1> QED
  BY <1>6, <1>7, <1>8, <1>9, <1>10, <1>11, <1>12, <1>13, <1>14, <1>15, <1>16, <1>17, <1>18, <1>19,
     <1>20, <1>21 DEF Next, Discovery

(* The devices of the configuration are linked in their order. *)
LEMMA InitInductive == DeviceListAssumption /\ Init => IInv
<1> SUFFICES ASSUME DeviceListAssumption, Init PROVE IInv
  OBVIOUS
<1>0. PICK S, at : /\ S = {Loaded[i] : i \in 1 .. N}
                   /\ at = [d \in Dev |-> IF d \in S THEN CHOOSE i \in 1 .. N : Loaded[i] = d ELSE 0]
  OBVIOUS
<1>1. /\ N \in Nat /\ \A i \in 1 .. N : Loaded[i] \in Dev
      /\ \A i, j \in 1 .. N : Loaded[i] = Loaded[j] => i = j
  <2>1. DOMAIN Loaded = 1 .. N /\ N \in Nat
    BY DeviceListAssumption, LenProperties DEF N
  <2> QED BY <2>1, DeviceListAssumption, ElementOfSeq DEF N
<1>2. S \in SUBSET Dev /\ at \in [Dev -> Int] /\ \A i \in 1 .. N : Loaded[i] \in S /\ at[Loaded[i]] = i
  BY <1>0, <1>1
<1>3. /\ \A i \in 1 .. N - 1 : next[Loaded[i]] = Loaded[i + 1]
      /\ N # 0 => next[Loaded[N]] = Null
      /\ next \in [Dev -> Ptr]
  <2>1. next = [d \in Dev |->
       IF \E i \in 1 .. N - 1 : Loaded[i] = d
       THEN Loaded[(CHOOSE i \in 1 .. N - 1 : Loaded[i] = d) + 1] ELSE Null]
    BY DEF Init
  <2>2. ASSUME NEW i \in 1 .. N - 1 PROVE next[Loaded[i]] = Loaded[i + 1]
    <3>1. i \in 1 .. N /\ Loaded[i] \in Dev
      BY <1>1
    <3>2. \A j \in 1 .. N - 1 : Loaded[j] = Loaded[i] => j = i
      BY <1>1, <3>1
    <3>3. (CHOOSE j \in 1 .. N - 1 : Loaded[j] = Loaded[i]) = i
      BY <3>2
    <3> QED BY <2>1, <3>1, <3>3
  <2>3. ASSUME N # 0 PROVE next[Loaded[N]] = Null
    <3>1. N \in 1 .. N /\ Loaded[N] \in Dev
      BY <1>1, <2>3
    <3>2. \A i \in 1 .. N - 1 : Loaded[i] # Loaded[N]
      BY <1>1, <3>1
    <3> QED BY <2>1, <3>1, <3>2
  <2>4. ASSUME NEW d \in Dev PROVE next[d] \in Ptr
    <3>1. CASE \E i \in 1 .. N - 1 : Loaded[i] = d
      <4>1. PICK i \in 1 .. N - 1 : Loaded[i] = d
        BY <3>1
      <4>2. i + 1 \in 1 .. N
        BY <1>1
      <4> QED BY <1>1, <2>2, <4>1, <4>2 DEF Ptr
    <3>2. CASE ~ \E i \in 1 .. N - 1 : Loaded[i] = d
      BY <2>1, <3>2 DEF Ptr
    <3> QED BY <3>1, <3>2
  <2> QED BY <2>1, <2>2, <2>3, <2>4
<1>4. /\ first = (IF N = 0 THEN Null ELSE Loaded[1]) /\ last = (IF N = 0 THEN Null ELSE Loaded[N])
      /\ rfirst = Null /\ rlast = Null /\ alloc = S /\ dpc = "sleep" /\ cur = Null /\ prev = Null
      /\ rm = Null /\ cli = Null
  BY <1>0 DEF Init
<1>5. Chain(S, at)
  <2>1. IF first = Null THEN S = {} ELSE first \in S
    BY <1>0, <1>1, <1>2, <1>4, DeviceListAssumption
  <2>2. ASSUME NEW s \in S
        PROVE  at[first] <= at[s] /\ (next[s] # Null => next[s] \in S /\ at[s] < at[next[s]])
    <3>1. PICK i \in 1 .. N : s = Loaded[i]
      BY <1>0
    <3>2. at[first] = 1 /\ at[s] = i
      BY <1>1, <1>2, <1>4, <3>1
    <3>3. CASE i = N
      BY <1>1, <1>3, <3>1, <3>2, <3>3
    <3>4. CASE i # N
      <4>1. i \in 1 .. N - 1 /\ i + 1 \in 1 .. N
        BY <1>1, <3>4
      <4> QED BY <1>2, <1>3, <3>1, <3>2, <4>1
    <3> QED BY <3>3, <3>4
  <2>3. ASSUME NEW s \in S, NEW t \in S
        PROVE  /\ at[s] < at[t] => next[s] # Null /\ at[next[s]] <= at[t]
               /\ at[s] = at[t] => s = t
    <3>1. PICK i, j \in 1 .. N : s = Loaded[i] /\ t = Loaded[j]
      BY <1>0
    <3>2. at[s] = i /\ at[t] = j
      BY <1>2, <3>1
    <3>3. ASSUME i < j PROVE next[s] # Null /\ at[next[s]] <= j
      <4>1. i \in 1 .. N - 1 /\ i + 1 \in 1 .. N /\ i + 1 <= j
        BY <1>1, <3>3
      <4>2. next[s] = Loaded[i + 1] /\ Loaded[i + 1] # Null /\ at[Loaded[i + 1]] = i + 1
        BY <1>1, <1>2, <1>3, <3>1, <4>1, DeviceListAssumption
      <4> QED BY <4>1, <4>2
    <3> QED BY <3>1, <3>2, <3>3
  <2> QED BY <1>4, <2>1, <2>2, <2>3 DEF Chain
<1>6. Ended(S)
  BY <1>1, <1>2, <1>3, <1>4 DEF Ended
<1>7. Lists(S, at)
  BY <1>4, <1>5, <1>6 DEF Lists, Collecting
<1>8. Types /\ Holds
  <2>1. first \in Ptr /\ last \in Ptr
    <3>1. CASE N = 0
      BY <3>1, <1>4 DEF Ptr
    <3>2. CASE N # 0
      <4>1. 1 \in 1 .. N /\ N \in 1 .. N
        BY <3>2, <1>1
      <4> QED BY <3>2, <4>1, <1>1, <1>4 DEF Ptr
    <3> QED BY <3>1, <3>2
  <2> QED BY <1>2, <1>3, <1>4, <2>1 DEF Types, Holds, Ptr
<1> QED BY <1>2, <1>7, <1>8 DEF IInv

(* What the invariant says of the devices that are in use *)
LEMMA InvariantAlive == DeviceListAssumption /\ IInv => NoUseAfterFree
<1> SUFFICES ASSUME DeviceListAssumption, IInv PROVE NoUseAfterFree
  OBVIOUS
<1>1. PICK S \in SUBSET Dev, at \in [Dev -> Int] : Lists(S, at)
  BY DEF IInv
<1>2. Listed \subseteq S /\ S \subseteq alloc
  <2>1. Types /\ Chain(S, at)
    BY <1>1 DEF IInv, Lists
  <2> QED BY <2>1, ListedIn
<1>3. first \in S \cup {Null} /\ prev \in S \cup {Null} /\ cur \in S \cup {Null}
  <2>1. dpc \in {"sleep", "scan", "take", "walk"}
    BY DEF IInv, Types
  <2> QED BY <1>1, <2>1 DEF Lists, Chain, Collecting, Taking, Walking
<1>4. cli \in alloc \cup {Null}
  BY DEF IInv, Holds
<1> QED BY <1>2, <1>3, <1>4 DEF NoUseAfterFree

(* However many devices there are, and however lookups, calls, removals and  *)
(* additions are interleaved with the discovery thread: no thread holds, and *)
(* no list reaches, a device that was freed.                                 *)
THEOREM DevicesAlive == Spec => []NoUseAfterFree
<1>1. Spec => []IInv
  BY DeviceListAssumption, InitInductive, NextInductive, PTL DEF Spec
<1> QED BY <1>1, DeviceListAssumption, InvariantAlive, PTL

-----------------------------------------------------------------------------
(* Rotation *)

Distinct(s) == \A i, j \in 1 .. Len(s) : s[i] = s[j] => i = j

(* A sequence without repetitions stays one when a new element is appended. *)
LEMMA DistinctAppend ==
  ASSUME NEW T, NEW w \in Seq(T), Distinct(w), NEW d \in T, \A i \in 1 .. Len(w) : w[i] # d
  PROVE  Distinct(Append(w, d))
<1> DEFINE v == Append(w, d)
<1>1. /\ Len(w) \in Nat /\ Len(v) = Len(w) + 1 /\ v[Len(w) + 1] = d
      /\ \A i \in 1 .. Len(w) : v[i] = w[i]
  BY AppendProperties, LenProperties
<1> HIDE DEF v
<1>2. ASSUME NEW i \in 1 .. Len(v), NEW j \in 1 .. Len(v), v[i] = v[j] PROVE i = j
  <2>1. CASE i \in 1 .. Len(w) /\ j \in 1 .. Len(w)
    BY <2>1, <1>1, <1>2 DEF Distinct
  <2>2. CASE i = Len(w) + 1 /\ j \in 1 .. Len(w)
    BY <2>2, <1>1, <1>2
  <2>3. CASE j = Len(w) + 1 /\ i \in 1 .. Len(w)
    BY <2>3, <1>1, <1>2
  <2>4. CASE i = Len(w) + 1 /\ j = Len(w) + 1
    BY <2>4
  <2> QED BY <1>1, <2>1, <2>2, <2>3, <2>4
<1>3. Distinct(v)
  BY <1>2 DEF Distinct
<1> QED BY <1>3 DEF v

(* A traversal meets no device twice. *)
LEMMA ListDistinct ==
  ASSUME Types, DeviceListAssumption
  PROVE  List \in Seq(Dev) /\ Distinct(List)
<1>1. /\ IsFiniteSet(Dev) /\ first \in Dev \cup {Null}
      /\ \A d \in Dev : next[d] \in Dev \cup {Null}
  BY DeviceListAssumption DEF Types, Ptr
<1>2. PICK g : /\ List = g[Cardinality(Dev)] /\ Cardinality(Dev) \in Nat
               /\ g[0] = << >> /\ \A n \in 1 .. Cardinality(Dev) : g[n] = Walked(g[n - 1])
  BY <1>1, ListWalks
<1> DEFINE C == Cardinality(Dev)
           P == {n \in 0 .. C : g[n] \in Seq(Dev) /\ Distinct(g[n])}
<1>3. 0 \in P
  <2>1. << >> \in Seq(Dev) /\ Distinct(<< >>)
    BY DEF Distinct
  <2>2. 0 \in 0 .. C
    BY <1>2
  <2> HIDE DEF C
  <2> QED BY <1>2, <2>1, <2>2
<1>4. ASSUME NEW n \in 1 .. C, n - 1 \in P PROVE n \in P
  <2> DEFINE w == g[n - 1]
             d == IF w = << >> THEN first ELSE next[Last(w)]
  <2>1. w \in Seq(Dev) /\ Distinct(w) /\ g[n] = Walked(w)
    BY <1>2, <1>4
  <2>2. Walked(w) \in Seq(Dev)
    BY <1>1, <2>1, WalkedIn
  <2>3. Walked(w) = IF d = Null \/ Contains(w, d) THEN w ELSE Append(w, d)
    BY DEF Walked
  <2>4. d \in Dev \cup {Null}
    <3>1. CASE w = << >>
      BY <3>1, <1>1
    <3>2. CASE w # << >>
      <4>1. Len(w) \in 1 .. Len(w)
        BY <3>2, <2>1, EmptySeq, LenProperties
      <4>2. Last(w) \in Dev
        BY <4>1, <2>1, ElementOfSeq DEF Last
      <4> QED BY <3>2, <4>2, <1>1
    <3> QED BY <3>1, <3>2
  <2> HIDE DEF d, w
  <2>5. d # Null /\ ~Contains(w, d) => Distinct(Append(w, d))
    <3>1. ~Contains(w, d) => \A i \in 1 .. Len(w) : w[i] # d
      BY DEF Contains
    <3> QED BY <2>1, <2>4, <3>1, DistinctAppend
  <2>6. Distinct(Walked(w))
    BY <2>1, <2>3, <2>5
  <2> QED BY <1>2, <1>4, <2>1, <2>2, <2>6
<1>5. C \in P
  <2>1. \A n \in 0 .. C : n \in P
    <3> HIDE DEF P
    <3> QED BY <1>2, <1>3, <1>4, Upwards
  <2> HIDE DEF P
  <2> QED BY <1>2, <2>1
<1> QED BY <1>2, <1>5

(* Nor is a device twice among the candidates. *)
LEMMA CandidatesDistinct ==
  ASSUME NEW S, NEW list \in Seq(S), Distinct(list), NEW match
  PROVE  Distinct(Candidates(list, match))
<1>1. PICK g : /\ Candidates(list, match) = g[Len(list)] /\ g[0] = << >>
               /\ \A n \in 1 .. Len(list) : g[n] = Fitting(list, match, g[n - 1], n)
  BY CandidatesWalk
<1> DEFINE C == Len(list)
           From(w, n) == \A i \in 1 .. Len(w) : \E k \in 1 .. n : w[i] = list[k]
           P == {n \in 0 .. C : g[n] \in Seq(S) /\ Distinct(g[n]) /\ From(g[n], n)}
<1>2. C \in Nat
  BY LenProperties
<1>3. 0 \in P
  <2>1. << >> \in Seq(S) /\ Distinct(<< >>) /\ From(<< >>, 0)
    BY DEF Distinct
  <2>2. 0 \in 0 .. C
    BY <1>2
  <2> HIDE DEF C, From
  <2> QED BY <1>1, <2>1, <2>2
<1>4. ASSUME NEW n \in 1 .. C, n - 1 \in P PROVE n \in P
  <2> DEFINE w == g[n - 1]
             v == Append(w, list[n])
  <2>1. /\ w \in Seq(S) /\ Distinct(w) /\ From(w, n - 1)
        /\ g[n] = IF list[n] \in match /\ Len(w) < MaxItems THEN v ELSE w
    BY <1>1, <1>4 DEF Fitting
  <2>2. list[n] \in S
    BY ElementOfSeq
  <2>3. v \in Seq(S) /\ Len(v) = Len(w) + 1 /\ v[Len(w) + 1] = list[n]
        /\ \A i \in 1 .. Len(w) : v[i] = w[i]
    BY <2>1, <2>2, AppendProperties
  <2>4. Distinct(v)
    <3>1. ASSUME NEW i \in 1 .. Len(w) PROVE w[i] # list[n]
      <4>1. PICK k \in 1 .. n - 1 : w[i] = list[k]
        BY <2>1
      <4>2. k \in 1 .. C /\ k # n
        BY <1>2
      <4> QED BY <4>1, <4>2 DEF Distinct
    <3> HIDE DEF w
    <3> QED BY <2>1, <2>2, <3>1, DistinctAppend
  <2>5. From(w, n)
    <3>1. 1 .. n - 1 \subseteq 1 .. n
      BY <1>2
    <3> QED BY <2>1, <3>1
  <2>6. From(v, n)
    <3>1. Len(w) \in Nat /\ n \in 1 .. n
      BY <1>2, <2>1, LenProperties
    <3>2. ASSUME NEW i \in 1 .. Len(v) PROVE \E k \in 1 .. n : v[i] = list[k]
      <4>1. CASE i \in 1 .. Len(w)
        BY <4>1, <2>3, <2>5
      <4>2. CASE i = Len(w) + 1
        BY <4>2, <2>3, <3>1
      <4> HIDE DEF v
      <4> QED BY <2>3, <3>1, <4>1, <4>2
    <3> QED BY <3>2
  <2> HIDE DEF w, v, From
  <2>7. g[n] \in Seq(S) /\ Distinct(g[n]) /\ From(g[n], n)
    BY <2>1, <2>3, <2>4, <2>5, <2>6
  <2> QED BY <1>2, <1>4, <2>7
<1>5. C \in P
  <2>1. \A n \in 0 .. C : n \in P
    <3> HIDE DEF P, C
    <3> QED BY <1>2, <1>3, <1>4, Upwards
  <2> HIDE DEF P, C
  <2> QED BY <1>2, <2>1
<1> HIDE DEF From
<1> QED BY <1>1, <1>5

(* A number below the divisor is its own remainder. *)
LEMMA Modulo ==
  ASSUME NEW n \in Nat, NEW a \in 0 .. n - 1
  PROVE  a % n = a /\ (a + n) % n = a
OBVIOUS

(* Every candidate is asked, if no other is chosen before. *)
LEMMA ProbeAll ==
  ASSUME NEW S, NEW cands \in Seq(S), NEW used_, NEW w \in 1 .. Len(cands)
  PROVE  \E k \in 0 .. Len(cands) - 1 : Probe(cands, used_, k) = cands[w]
<1> DEFINE n == Len(cands)
           l == LastUsed(cands, used_)
           k == IF w > l THEN w - 1 - l ELSE w - 1 - l + n
<1>1. n \in Nat /\ n >= 1 /\ 0 \in 0 .. n - 1
  BY LenProperties
<1>2. l \in 1 .. n
  BY <1>1, ProbeIn
<1>3. \A i : Probe(cands, used_, i) = cands[((l + i) % n) + 1]
  BY DEF Probe
<1> HIDE DEF n, l
<1>4. w \in 1 .. n
  BY DEF n
<1>5. k \in 0 .. n - 1 /\ (l + k = w - 1 \/ l + k = w - 1 + n) /\ w - 1 \in 0 .. n - 1
  BY <1>1, <1>2, <1>4
<1> HIDE DEF k
<1>6. (l + k) % n = w - 1
  BY <1>1, <1>5, Modulo
<1>7. Probe(cands, used_, k) = cands[w]
  BY <1>3, <1>4, <1>6
<1> QED BY <1>5, <1>7 DEF n

(* Once a device was chosen those asked after it are nearer by as much. *)
LEMMA ProbeNearer ==
  ASSUME NEW S, NEW cands \in Seq(S), Distinct(cands), NEW used_, NEW used2,
         NEW i \in 0 .. Len(cands) - 1, NEW k \in 0 .. Len(cands) - 1, i < k,
         \A j \in 1 .. Len(cands) : cands[j] \in used2 <=> cands[j] = Probe(cands, used_, i)
  PROVE  Probe(cands, used2, k - i - 1) = Probe(cands, used_, k)
<1> DEFINE n == Len(cands)
           l == LastUsed(cands, used_)
           p == ((l + i) % n) + 1
           set == {j \in DOMAIN cands : cands[j] \in used2}
<1>1. n \in Nat /\ n >= 1 /\ DOMAIN cands = 1 .. n
  BY LenProperties
<1>2. l \in 1 .. n /\ p \in 1 .. n
  BY ProbeIn
<1>3. \A j : Probe(cands, used_, j) = cands[((l + j) % n) + 1]
  BY DEF Probe
<1>4. set = {p}
  <2>1. cands[p] = Probe(cands, used_, i)
    BY <1>3
  <2> HIDE DEF p, l
  <2> QED BY <1>1, <1>2, <2>1 DEF Distinct
<1>5. LastUsed(cands, used2) = p
  <2>1. LastUsed(cands, used2) = IF set = {} THEN 1 ELSE Max(set)
    BY DEF LastUsed
  <2> HIDE DEF set, p
  <2>2. {p} \in SUBSET (1 .. n) /\ {p} # {}
    BY <1>2
  <2>3. Max({p}) \in {p}
    <3> HIDE DEF n
    <3> QED BY <1>1, <2>2, MaxIn
  <2> QED BY <1>4, <2>1, <2>3
<1>6. Probe(cands, used2, k - i - 1) = cands[((p + (k - i - 1)) % n) + 1]
  BY <1>5 DEF Probe
<1>7. i \in Nat /\ k \in Nat /\ i <= n - 1 /\ k <= n - 1
  BY <1>1
<1> HIDE DEF n, l, set
<1>8. p + (k - i - 1) = ((l + i) % n) + (k - i) /\ (l + i) % n \in 0 .. n - 1
  BY <1>1, <1>2, <1>7
<1>9. (((l + i) % n) + (k - i)) % n = (l + k) % n
  <2>1. CASE l + i < n
    <3>1. (l + i) % n = l + i
      BY <2>1, <1>1, <1>2, <1>7, Modulo
    <3> QED BY <3>1, <1>1, <1>2, <1>7
  <2>2. CASE l + i >= n
    <3>1. l + i - n \in 0 .. n - 1 /\ (l + i - n) + n = l + i
      BY <2>2, <1>1, <1>2, <1>7
    <3>2. (l + i) % n = l + i - n
      BY <3>1, <1>1, Modulo
    <3>3. l + k - n \in 0 .. n - 1 /\ (l + k - n) + n = l + k
      BY <2>2, <1>1, <1>2, <1>7
    <3>4. (l + k) % n = l + k - n /\ (l + k - n) % n = l + k - n
      BY <3>3, <1>1, Modulo
    <3>5. ((l + i) % n) + (k - i) = l + k - n
      <4>1. l \in Int /\ n \in Int /\ i \in Int /\ k \in Int
        BY <1>1, <1>2, <1>7
      <4> QED BY <3>2, <4>1
    <3> QED BY <3>4, <3>5
  <2> QED BY <2>1, <2>2, <1>1, <1>2, <1>7
<1> HIDE DEF p
<1> QED BY <1>3, <1>6, <1>8, <1>9

(* Flags of other devices do not matter. *)
LEMMA ProbeSame ==
  ASSUME NEW cands, NEW used_, NEW used2, NEW k,
         \A j \in DOMAIN cands : cands[j] \in used2 <=> cands[j] \in used_
  PROVE  Probe(cands, used2, k) = Probe(cands, used_, k)
<1>1. {j \in DOMAIN cands : cands[j] \in used2} = {j \in DOMAIN cands : cands[j] \in used_}
  OBVIOUS
<1>2. LastUsed(cands, used2) = LastUsed(cands, used_)
  BY <1>1 DEF LastUsed
<1> QED BY <1>2 DEF Probe

(* The flags have their type; and a device that was passed over is among the *)
(* candidates of its group, and so many of them will be asked before it that *)
(* with those that were chosen they are fewer than the candidates.           *)
Passing(r) ==
  LET cands == Candidates(List, r.match)
  IN  \E k \in 0 .. Len(cands) - 1 :
        Probe(cands, used[r.kind], k) = watch /\ passed + k < Len(cands)
Rotating ==
  /\ watch \in Dev /\ passed \in Nat /\ used \in [Kinds -> SUBSET Dev]
  /\ passed # 0 => \E r \in Rotations : r.kind = "group" /\ Passing(r)

(* The candidates of a rotation *)
LEMMA CandidatesOf ==
  ASSUME IInv, DeviceListAssumption, NEW r \in Rotations
  PROVE  /\ Candidates(List, r.match) \in Seq(Dev \cap r.match)
         /\ Distinct(Candidates(List, r.match))
         /\ \A i \in 1 .. Len(Candidates(List, r.match)) :
              Candidates(List, r.match)[i] \in Listed \cap r.match
<1>1. List \in Seq(Dev) /\ Distinct(List)
  BY ListDistinct DEF IInv
<1>2. /\ Candidates(List, r.match) \in Seq(Dev \cap r.match)
      /\ Distinct(Candidates(List, r.match))
  BY <1>1, CandidatesIn, CandidatesDistinct
<1>3. List \in Seq(Listed)
  <2>1. \A i \in 1 .. Len(List) : List[i] \in Listed
    BY <1>1 DEF Listed, ToSet
  <2> QED BY <1>1, <2>1
<1>4. Candidates(List, r.match) \in Seq(Listed \cap r.match)
  BY <1>3, CandidatesIn
<1> QED BY <1>2, <1>4, ElementOfSeq

(* What the invariant says of how often a device is passed over *)
LEMMA RotatingFair ==
  ASSUME IInv, DeviceListAssumption, Rotating
  PROVE  RotationFair
<1> DEFINE mates == {d \in Listed : \E r \in Rotations :
                        r.kind = "group" /\ {watch, d} \subseteq r.match}
<1> SUFFICES ASSUME passed # 0 PROVE passed < Cardinality(mates)
  BY DEF RotationFair
<1>1. PICK r \in Rotations : r.kind = "group" /\ Passing(r)
  BY DEF Rotating
<1> DEFINE cands == Candidates(List, r.match)
           f == [i \in 1 .. Len(cands) |-> cands[i]]
<1>2. /\ cands \in Seq(Dev \cap r.match) /\ Distinct(cands)
      /\ \A i \in 1 .. Len(cands) : cands[i] \in Listed \cap r.match
  BY CandidatesOf
<1>3. PICK k \in 0 .. Len(cands) - 1 :
        Probe(cands, used[r.kind], k) = watch /\ passed + k < Len(cands)
  BY <1>1 DEF Passing
<1>4. watch \in r.match
  <2> HIDE DEF cands
  <2>1. Probe(cands, used[r.kind], k) \in Dev \cap r.match
    BY <1>2, ProbeIn
  <2> QED BY <1>3, <2>1
<1>5. \A i \in 1 .. Len(cands) : cands[i] \in mates
  BY <1>1, <1>2, <1>4
<1>6. IsFiniteSet(mates)
  <2>1. PICK S \in SUBSET Dev, at \in [Dev -> Int] : Lists(S, at)
    BY DEF IInv
  <2>2. Types /\ Chain(S, at)
    BY <2>1 DEF IInv, Lists
  <2>3. Listed \subseteq Dev
    BY <2>2, ListedIn
  <2>4. mates \in SUBSET Dev /\ IsFiniteSet(Dev)
    BY <2>3, DeviceListAssumption
  <2> HIDE DEF mates
  <2> QED BY <2>4, FS_Subset
<1> HIDE DEF cands, mates
<1>7. Len(cands) \in Nat
  BY <1>2, LenProperties
<1>8. f \in Injection(1 .. Len(cands), mates)
  <2>1. f \in [1 .. Len(cands) -> mates]
    BY <1>5
  <2>2. \A i, j \in 1 .. Len(cands) : f[i] = f[j] => i = j
    BY <1>2 DEF Distinct
  <2> QED BY <2>1, <2>2 DEF Injection, IsInjective
<1>9. Cardinality(1 .. Len(cands)) <= Cardinality(mates)
  <2> HIDE DEF f
  <2> QED BY <1>6, <1>8, FS_Injection
<1>10. Cardinality(1 .. Len(cands)) = Len(cands)
  <2> DEFINE n == Len(cands)
  <2>1. n \in Nat
    BY <1>7
  <2> HIDE DEF n, f
  <2>2. 1 \in Int /\ n \in Int
    BY <2>1
  <2>3. Cardinality(1 .. n) = IF 1 > n THEN 0 ELSE n - 1 + 1
    BY <2>2, FS_Interval
  <2>4. Cardinality(1 .. n) = n
    BY <2>1, <2>3
  <2> QED BY <2>4 DEF n
<1>11. Cardinality(mates) \in Nat /\ passed \in Nat
  BY <1>6, FS_CardinalityType DEF Rotating
<1> QED BY <1>3, <1>7, <1>9, <1>10, <1>11

(* Steps that leave list and flags alone, or start counting anew *)
LEMMA RotatingKept ==
  ASSUME Rotating, watch' = watch, used' \in [Kinds -> SUBSET Dev],
         passed' = 0 \/ UNCHANGED <<first, next, used, passed>>
  PROVE  Rotating'
<1>1. CASE passed' = 0
  BY <1>1 DEF Rotating
<1>2. CASE UNCHANGED <<first, next, used, passed>>
  <2>1. List' = List
    BY <1>2 DEF List
  <2>2. \A r \in Rotations : Passing(r) => Passing(r)'
    BY <1>2, <2>1 DEF Passing
  <2> QED BY <1>2, <2>2 DEF Rotating
<1> QED BY <1>1, <1>2

(* A search *)
LEMMA DialNextRotating ==
  ASSUME IInv, DeviceListAssumption, Rotating, NEW r \in Rotations, NEW able \in SUBSET r.match,
         DialNext(r, able)
  PROVE  Rotating'
<1> DEFINE cands == Candidates(List, r.match)
           flags == used[r.kind]
           hits  == {i \in 0 .. Len(cands) - 1 : Probe(cands, flags, i) \in able}
           d     == RoundRobin(List, r.match, flags, able)
           after == UsedAfter(List, r.match, flags, d)
           skipped == r.kind = "group" /\ watch \in able \ {d} /\ Contains(cands, watch)
<1>1. /\ UNCHANGED <<first, next, watch>>
      /\ used' = [used EXCEPT ![r.kind] = after]
      /\ passed' = IF skipped THEN passed + 1
                   ELSE IF watch \in r.match /\ r.kind = "group" THEN 0 ELSE passed
  BY DEF DialNext, Found, listvars
<1>2. /\ cands \in Seq(Dev \cap r.match) /\ Distinct(cands)
      /\ \A i \in 1 .. Len(cands) : cands[i] \in r.match
  BY CandidatesOf
<1>3. d = IF hits = {} THEN Null ELSE Probe(cands, flags, Min(hits))
  BY DEF RoundRobin
<1>4. after = (flags \ {cands[i] : i \in DOMAIN cands}) \cup ({d} \ {Null})
  BY DEF UsedAfter
<1>5. List' = List
  BY <1>1 DEF List
<1>6. r.kind \in Kinds /\ used \in [Kinds -> SUBSET Dev]
  BY DEF Kinds, Rotating
<1> HIDE DEF d, after, cands, hits
<1>7. Len(cands) \in Nat /\ DOMAIN cands = 1 .. Len(cands)
  BY <1>2, LenProperties
<1>8. hits # {} => Min(hits) \in hits /\ \A i \in hits : Min(hits) <= i
  <2>1. hits \in SUBSET Nat
    BY <1>7 DEF hits
  <2> QED BY <2>1, MinIn
<1>9. d \in (Dev \cap r.match) \cup {Null}
  <2>1. hits # {} => Min(hits) \in 0 .. Len(cands) - 1
    BY <1>8 DEF hits
  <2>2. hits # {} => Probe(cands, flags, Min(hits)) \in Dev \cap r.match
    BY <1>2, <2>1, ProbeIn
  <2> QED BY <1>3, <2>2
<1>10. after \in SUBSET Dev /\ used' \in [Kinds -> SUBSET Dev] /\ used'[r.kind] = after
  <2>1. after \in SUBSET Dev
    BY <1>4, <1>6, <1>9
  <2> QED BY <1>1, <1>6, <2>1
<1>11. watch' \in Dev /\ passed' \in Nat
  BY <1>1 DEF Rotating
<1>12. CASE skipped
  <2>1. PICK w \in 1 .. Len(cands) : cands[w] = watch
    BY <1>12 DEF Contains
  <2>2. watch # d /\ watch \in able /\ r.kind = "group"
    BY <1>12
  <2>3. \E k \in 0 .. Len(cands) - 1 :
          Probe(cands, flags, k) = watch /\ passed + k < Len(cands)
    <3>1. CASE passed = 0
      <4> HIDE DEF flags
      <4>1. \E k \in 0 .. Len(cands) - 1 : Probe(cands, flags, k) = cands[w]
        BY <1>2, ProbeAll
      <4>2. PICK k \in 0 .. Len(cands) - 1 : Probe(cands, flags, k) = watch
        BY <2>1, <4>1
      <4> QED BY <3>1, <4>2, <1>7
    <3>2. CASE passed # 0
      <4>1. PICK s \in Rotations : s.kind = "group" /\ Passing(s)
        BY <3>2 DEF Rotating
      <4> DEFINE c == Candidates(List, s.match)
      <4>2. PICK k \in 0 .. Len(c) - 1 :
              Probe(c, used[s.kind], k) = watch /\ passed + k < Len(c)
        BY <4>1 DEF Passing
      <4>3. c \in Seq(Dev \cap s.match)
        BY CandidatesOf
      <4>4. Probe(c, used[s.kind], k) \in Dev \cap s.match
        <5> HIDE DEF c
        <5> QED BY <4>3, ProbeIn
      <4>5. watch \in s.match /\ watch \in r.match
        BY <1>2, <2>1, <4>2, <4>4
      <4>6. s.match = r.match
        BY <2>2, <4>1, <4>5, DeviceListAssumption
      <4> QED BY <2>2, <4>1, <4>2, <4>6 DEF cands
    <3> QED BY <3>1, <3>2
  <2>4. PICK k \in 0 .. Len(cands) - 1 :
          Probe(cands, flags, k) = watch /\ passed + k < Len(cands)
    BY <2>3
  <2>5. k \in hits
    BY <2>2, <2>4 DEF hits
  <2> DEFINE i == Min(hits)
  <2>6. i \in 0 .. Len(cands) - 1 /\ i <= k /\ d = Probe(cands, flags, i) /\ i \in hits
    BY <1>3, <1>8, <2>5 DEF hits
  <2> HIDE DEF i
  <2>7. i < k /\ k - i - 1 \in 0 .. Len(cands) - 1 /\ (passed + 1) + (k - i - 1) < Len(cands)
    <3>1. i # k
      BY <2>2, <2>4, <2>6
    <3>2. passed \in Nat
      BY DEF Rotating
    <3> QED BY <1>7, <2>4, <2>6, <3>1, <3>2
  <2>8. d \in Dev /\ d # Null
    BY <1>2, <2>6, ProbeIn, DeviceListAssumption
  <2>9. \A j \in 1 .. Len(cands) : cands[j] \in after <=> cands[j] = Probe(cands, flags, i)
    BY <1>4, <1>7, <2>6, <2>8
  <2>10. Probe(cands, after, k - i - 1) = watch
    <3> HIDE DEF flags
    <3>1. Probe(cands, after, k - i - 1) = Probe(cands, flags, k)
      <4>1. i \in 0 .. Len(cands) - 1 /\ k \in 0 .. Len(cands) - 1 /\ i < k
        BY <2>4, <2>6, <2>7
      <4>2. cands \in Seq(Dev \cap r.match) /\ Distinct(cands)
        BY <1>2
      <4> QED BY <2>9, <4>1, <4>2, ProbeNearer
    <3> QED BY <2>4, <3>1
  <2>11. Passing(r)'
    <3>1. Candidates(List, r.match)' = cands
      BY <1>5 DEF cands
    <3>2. passed' = passed + 1
      BY <1>1, <1>12
    <3> QED BY <1>1, <1>10, <2>7, <2>10, <3>1, <3>2 DEF Passing
  <2> QED BY <1>10, <1>11, <2>2, <2>11 DEF Rotating
<1>13. CASE ~skipped /\ watch \in r.match /\ r.kind = "group"
  <2>1. passed' = 0
    BY <1>1, <1>13
  <2> QED BY <1>1, <1>10, <2>1, RotatingKept
<1>14. CASE ~skipped /\ ~(watch \in r.match /\ r.kind = "group")
  <2>1. passed' = passed
    BY <1>1, <1>14
  <2>2. ASSUME NEW s \in Rotations, s.kind = "group", Passing(s) PROVE Passing(s)'
    <3> DEFINE c == Candidates(List, s.match)
    <3>1. c \in Seq(Dev \cap s.match) /\ \A j \in 1 .. Len(c) : c[j] \in s.match
      BY CandidatesOf
    <3>2. PICK k \in 0 .. Len(c) - 1 : Probe(c, used[s.kind], k) = watch /\ passed + k < Len(c)
      BY <2>2 DEF Passing
    <3> HIDE DEF c
    <3>3. DOMAIN c = 1 .. Len(c)
      BY <3>1, LenProperties
    <3>4. \A j \in DOMAIN c : c[j] \in used'[s.kind] <=> c[j] \in used[s.kind]
      <4>1. CASE r.kind # "group"
        BY <1>1, <1>6, <2>2, <4>1
      <4>2. CASE r.kind = "group"
        <5>1. watch \in s.match
          <6>1. Probe(c, used[s.kind], k) \in Dev \cap s.match
            BY <3>1, ProbeIn
          <6> QED BY <3>2, <6>1
        <5>2. s.match \cap r.match = {}
          BY <1>14, <2>2, <4>2, <5>1, DeviceListAssumption
        <5>3. \A j \in DOMAIN c : c[j] \notin r.match /\ c[j] # Null
          BY <3>1, <3>3, <5>2, DeviceListAssumption, ElementOfSeq
        <5>4. \A i \in DOMAIN cands : cands[i] \in r.match
          BY <1>2, <1>7
        <5>5. \A j \in DOMAIN c : c[j] \in after <=> c[j] \in flags
          BY <1>4, <1>9, <5>3, <5>4
        <5> QED BY <1>10, <2>2, <4>2, <5>5
      <4> QED BY <4>1, <4>2
    <3>5. Probe(c, used'[s.kind], k) = watch
      BY <3>2, <3>4, ProbeSame
    <3>6. Candidates(List, s.match)' = c
      BY <1>5 DEF c
    <3> QED BY <1>1, <2>1, <3>2, <3>5, <3>6 DEF Passing
  <2> QED BY <1>10, <1>11, <2>1, <2>2 DEF Rotating
<1> QED BY <1>12, <1>13, <1>14

(* Every step keeps the count within the candidates that are left. *)
LEMMA NextRotating == DeviceListAssumption /\ IInv /\ Rotating /\ [Next]_vars => Rotating'
<1> SUFFICES ASSUME DeviceListAssumption, IInv, Rotating, [Next]_vars PROVE Rotating'
  OBVIOUS
<1>1. used \in [Kinds -> SUBSET Dev]
  BY DEF Rotating
<1>2. ASSUME UNCHANGED selvars, UNCHANGED listvars PROVE Rotating'
  BY <1>1, <1>2, RotatingKept DEF selvars, listvars
<1>3. CASE \/ ScanBegins \/ ScanKeeps \/ ScanEnds \/ WalkSkips \/ WalkEnds \/ TakeEnds
            \/ ScheduleRemove \/ DialDone
  BY <1>2, <1>3 DEF ScanBegins, ScanKeeps, ScanEnds, WalkSkips, WalkEnds, TakeEnds,
     ScheduleRemove, DialDone
<1>4. CASE ScanCollects \/ TakeRemoved \/ WalkUnlinks
  <2>1. passed' = 0 /\ used' = used /\ watch' = watch
    BY <1>4 DEF ScanCollects, TakeRemoved, WalkUnlinks
  <2> QED BY <1>1, <2>1, RotatingKept
<1>5. ASSUME NEW d \in Dev, FindDevice(d) PROVE Rotating'
  BY <1>1, <1>5, RotatingKept DEF FindDevice, Found, listvars
<1>6. ASSUME NEW d \in Dev, AddDevice(d) PROVE Rotating'
  <2>1. passed' = 0 /\ watch' = watch /\ used' = [k \in Kinds |-> used[k] \ {d}]
    BY <1>6 DEF AddDevice
  <2> QED BY <1>1, <2>1, RotatingKept
<1>7. ASSUME NEW match \in Firsts, NEW able \in SUBSET match, DialFirst(match, able) PROVE Rotating'
  BY <1>1, <1>7, RotatingKept DEF DialFirst, Found, listvars
<1>8. ASSUME NEW r \in Rotations, NEW able \in SUBSET r.match, DialNext(r, able) PROVE Rotating'
  BY <1>8, DialNextRotating
<1>9. CASE UNCHANGED vars
  BY <1>2, <1>9 DEF vars
<1> QED BY <1>3, <1>4, <1>5, <1>6, <1>7, <1>8, <1>9 DEF Next, Discovery

(* Nobody was passed over yet. *)
LEMMA InitRotating == Init => Rotating
  BY DEF Init, Rotating

(* However many devices and groups there are: a device that can dial         *)
(* whenever a call is requested for its group is passed over fewer times in  *)
(* a row than the group has devices, whichever others can dial and whatever  *)
(* other rotations and failed requests happen in between (one counts anew    *)
(* when the list changes).                                                   *)
THEOREM EveryoneGetsATurn == Spec => []RotationFair
<1>1. Spec => [](IInv /\ Rotating)
  <2>1. Init => IInv /\ Rotating
    BY DeviceListAssumption, InitInductive, InitRotating
  <2>2. IInv /\ Rotating /\ [Next]_vars => (IInv /\ Rotating)'
    BY DeviceListAssumption, NextInductive, NextRotating
  <2> QED BY <2>1, <2>2, PTL DEF Spec
<1>2. IInv /\ Rotating => RotationFair
  BY DeviceListAssumption, RotatingFair
<1> QED BY <1>1, <1>2, PTL
=============================================================================
