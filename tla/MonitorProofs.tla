--------------------------- MODULE MonitorProofs ----------------------------
(***************************************************************************)
(* Proofs about the monitor thread: its life and the device's (Lifecycle)  *)
(* and its time-outs (MonitorTimeout).                                     *)
(*                                                                         *)
(* Lifecycle, for every set of requests, every configuration file and every*)
(* bound on what happens.  The discovery thread, the monitor and the       *)
(* unloading thread decide with what they saw under the lock and go on     *)
(* after they have released it.  The invariant says what stays true in     *)
(* between: a monitor that is not running (any more) has left the device   *)
(* disconnected and without calls, a dead device has nobody looking at it, *)
(* and once the discovery thread has been joined it is gone.               *)
(*                                                                         *)
(* MonitorTimeout, for every timeout, every delay of the monitor thread and*)
(* every number of unsolicited codes.  One round of the loop takes at most *)
(* Round ticks: a delay before at_wait, the sleep and a delay after it.    *)
(* Every unsolicited code that is handled buys the command another round;  *)
(* what is left of the running one is Rest.                                *)
(***************************************************************************)
EXTENDS Lifecycle, MonitorTimeout, TLAPS

-----------------------------------------------------------------------------
(* The life of a device and its monitor *)

Counts == [requests : Nat, reloads : Nat, soft : Nat, losses : Nat]

Types == /\ TypeOK
         /\ count \in Counts
         /\ IsSettings(settings)

(* A monitor that has ended has disconnected the device; calls die with it  *)
Disconnecting ==
  /\ mon \in {"none", "exited"} => current = "stopped"
  /\ mon \in {"none", "exited", "dying"} => ~chans

(* A device is freed by the discovery thread, which then sleeps or ends, or *)
(* by the unloading thread, which has joined the discovery thread before    *)
Freeing ==
  /\ ~alive => disc \in {"sleep", "gone"}
  /\ unload \in {"destroy", "joinMonitor", "done"} => disc = "gone"

(* While there are calls, "now" is in force only if the operator asked for it *)
Justified == NoSoftReload /\ chans /\ rtime = "now" /\ desired # current => hard

IndInv == Types /\ Disconnecting /\ Freeing /\ MonitorJoined /\ Justified

-----------------------------------------------------------------------------
(* What a device is born with satisfies the invariant. *)
LEMMA InitIndInv == Init => IndInv
<1>1. IsSettings(InitSettings) /\ InitSettings.init \in {"stopped", "started"}
  BY LifecycleAssumption DEF IsSettings
<1> SUFFICES ASSUME Init PROVE IndInv
  OBVIOUS
<1>2. count \in Counts /\ IsSettings(settings)
  BY <1>1 DEF Init, Counts
<1>3. TypeOK
  BY <1>1 DEF Init, TypeOK, DevStates, Times
<1>4. Disconnecting /\ Freeing /\ MonitorJoined /\ Justified
  BY DEF Init, Disconnecting, Freeing, MonitorJoined, Justified
<1> QED BY <1>2, <1>3, <1>4 DEF IndInv, Types

(* A request: Schedule and Reload touch only what is desired and when. *)
LEMMA RequestIndInv ==
  ASSUME IndInv,
         UNCHANGED <<current, chans, sms, term, mon, disc, unload, alive>>,
         desired' \in DevStates, rtime' \in Times, asked' \in DevStates, hard' \in BOOLEAN,
         count' \in Counts, IsSettings(settings'), Justified'
  PROVE  IndInv'
BY DEF IndInv, Types, TypeOK, Disconnecting, Freeing, MonitorJoined

(* Every step keeps the invariant. *)
LEMMA NextIndInv == IndInv /\ [Next]_vars => IndInv'
<1> SUFFICES ASSUME IndInv, [Next]_vars PROVE IndInv'
  OBVIOUS
<1> USE DEF IndInv
<1>1. ASSUME NEW ev \in Events, NEW when \in Whens, Schedule(ev, when) PROVE IndInv'
  <2>1. ev \in DevStates /\ when \in Times
    BY LifecycleAssumption
  <2>2. /\ UNCHANGED <<current, chans, sms, term, mon, disc, unload, settings, alive>>
        /\ desired' = ev /\ asked' = ev /\ hard' = (when = "now")
        /\ rtime' = IF pvt_time4restate(ev, when, chans, sms) THEN "now" ELSE when
        /\ count' = [count EXCEPT !.requests = @ + 1]
    BY <1>1 DEF Schedule
  <2>3. rtime' \in Times /\ count' \in Counts /\ IsSettings(settings')
    BY <2>1, <2>2 DEF Times, Types, Counts
  <2>4. Justified'
    BY <2>1, <2>2 DEF Justified, NoSoftReload, pvt_time4restate, Types, TypeOK, Counts
  <2> QED BY <2>1, <2>2, <2>3, <2>4, RequestIndInv
<1>2. ASSUME NEW s \in Settings, NEW when \in Whens, Reload(s, when) PROVE IndInv'
  <2> DEFINE des == Reconfigured(s)
  <2>1. IsSettings(s) /\ when \in Times /\ (des = "same" \/ des \in DevStates)
    BY LifecycleAssumption DEF IsSettings, Reconfigured, DevStates
  <2>2. /\ UNCHANGED <<current, chans, sms, term, mon, disc, unload, alive>>
        /\ IF des = "same" THEN UNCHANGED <<desired, rtime, asked, hard>>
           ELSE /\ desired' = des /\ asked' = des /\ hard' = (when = "now")
                /\ rtime' = IF pvt_time4restate(des, rtime, chans, sms) THEN "now" ELSE when
        /\ settings' = IF s.init = "removed" THEN settings ELSE s
        /\ count' = [count EXCEPT !.reloads = @ + 1, !.soft = @ + (IF when = "now" THEN 0 ELSE 1)]
    BY <1>2 DEF Reload
  <2> HIDE DEF des
  <2>3. /\ desired' \in DevStates /\ rtime' \in Times /\ asked' \in DevStates
        /\ hard' \in BOOLEAN /\ IsSettings(settings')
    BY <2>1, <2>2 DEF Types, TypeOK, Times
  <2>4. count' \in Counts /\ (NoSoftReload' => NoSoftReload /\ when = "now")
    <3> DEFINE k == IF when = "now" THEN 0 ELSE 1
    <3>1. k \in Nat /\ (k = 0 => when = "now") /\ count.soft \in Nat
      BY DEF Types, Counts
    <3>2. count' = [count EXCEPT !.reloads = @ + 1, !.soft = @ + k]
      BY <2>2
    <3> HIDE DEF k
    <3>3. count' = [requests |-> count.requests, reloads |-> count.reloads + 1,
                    soft |-> count.soft + k, losses |-> count.losses]
      BY <3>2 DEF Types, Counts
    <3>4. count' \in Counts /\ count'.soft = count.soft + k
      BY <3>1, <3>3 DEF Types, Counts
    <3> QED BY <3>1, <3>4 DEF NoSoftReload
  <2>5. Justified'
    BY <2>2, <2>4 DEF Justified
  <2> QED BY <2>2, <2>3, <2>4, <2>5, RequestIndInv
<1>3. ASSUME Discovery PROVE IndInv'
  <2> USE DEF Types, TypeOK, Disconnecting, Freeing, MonitorJoined, Justified, opvars, setvars,
              NoSoftReload, DevStates
  <2>1. CASE PassBegins \/ PassIdle \/ DiscoveryEnds
    BY <2>1 DEF PassBegins, PassIdle, DiscoveryEnds
  <2>2. CASE PassStops
    BY <2>2 DEF PassStops
  <2>3. CASE PassGoesOn
    BY <2>3 DEF PassGoesOn, AfterStop
  <2>4. CASE Joined
    BY <2>4 DEF Joined, AfterStop
  <2>5. CASE OpenOk
    BY <2>5 DEF OpenOk
  <2>6. CASE OpenFails
    BY <2>6 DEF OpenFails
  <2>7. CASE Removes
    <3>1. mon = "none" /\ ~alive' /\ alive' \in BOOLEAN /\ disc' = "sleep" /\ UNCHANGED mon
      BY <2>7 DEF Removes
    <3> QED BY <2>7, <3>1 DEF Removes
  <2> QED BY <1>3, <2>1, <2>2, <2>3, <2>4, <2>5, <2>6, <2>7 DEF Discovery
<1>4. ASSUME CallBegins \/ SmsBegins \/ CallEnds \/ SmsEnds \/ Unblocks \/ Dies PROVE IndInv'
  <2> USE DEF Types, TypeOK, Disconnecting, Freeing, MonitorJoined, Justified, opvars, setvars,
              NoSoftReload, Times
  <2>1. CASE CallBegins
    BY <2>1 DEF CallBegins, pvt_enabled
  <2>2. CASE SmsBegins
    BY <2>2 DEF SmsBegins
  <2>3. CASE CallEnds
    BY <2>3 DEF CallEnds, pvt_try_restate, pvt_time4restate
  <2>4. CASE SmsEnds
    BY <2>4 DEF SmsEnds, pvt_try_restate, pvt_time4restate
  <2>5. CASE Unblocks
    BY <2>5 DEF Unblocks
  <2>6. CASE Dies
    BY <2>6 DEF Dies, Disconnected
  <2> QED BY <1>4, <2>1, <2>2, <2>3, <2>4, <2>5, <2>6
<1>5. ASSUME NEW lost \in BOOLEAN, MonitorEnds(lost) PROVE IndInv'
  <2>1. /\ mon = "running" /\ term' = (term /\ ~lost)
        /\ count' = [count EXCEPT !.losses = @ + (IF lost THEN 1 ELSE 0)]
        /\ rtime' \in {rtime, "now"} /\ chans' = FALSE
        /\ \/ mon' = "dying" /\ UNCHANGED <<current, sms>>
           \/ mon' = "exited" /\ current' = "stopped" /\ sms' = FALSE
        /\ UNCHANGED <<desired, disc, unload, settings, used, alive, asked, hard>>
    BY <1>5 DEF MonitorEnds, Disconnected, setvars
  <2>2. count' \in Counts
    BY <2>1 DEF Types, Counts
  <2> QED BY <2>1, <2>2 DEF Types, TypeOK, Times, Disconnecting, Freeing, MonitorJoined, Justified
<1>6. ASSUME Unload PROVE IndInv'
  <2> USE DEF Types, TypeOK, Disconnecting, Freeing, MonitorJoined, Justified, opvars, setvars,
              NoSoftReload
  <2>1. CASE UnloadBegins \/ UnloadJoins
    BY <2>1 DEF UnloadBegins, UnloadJoins
  <2>2. CASE UnloadStops
    BY <2>2 DEF UnloadStops
  <2>3. CASE UnloadFrees
    BY <2>3 DEF UnloadFrees
  <2> QED BY <1>6, <2>1, <2>2, <2>3 DEF Unload
<1>7. CASE UNCHANGED vars
  BY <1>7 DEF vars, Types, TypeOK, Disconnecting, Freeing, MonitorJoined, Justified, NoSoftReload
<1> QED BY <1>1, <1>2, <1>3, <1>4, <1>5, <1>6, <1>7 DEF Next

(* The invariant holds in every reachable state. *)
LEMMA Inductive == Spec => []IndInv
  BY InitIndInv, NextIndInv, PTL DEF Spec

-----------------------------------------------------------------------------
(* Every variable of the life of a device always has its type. *)
THEOREM TypeCorrect == Spec => []TypeOK
<1>1. IndInv => TypeOK
  BY DEF IndInv, Types
<1> QED BY <1>1, Inductive, PTL

(* pvt_start opens the ports, and pvt_free frees the device, only after the *)
(* last monitor thread was joined: two monitors never serve one device, and *)
(* none serves a device that is freed.                                      *)
THEOREM OneMonitor == Spec => []MonitorJoined
<1>1. IndInv => MonitorJoined
  BY DEF IndInv
<1> QED BY <1>1, Inductive, PTL

(* The monitor of a device with a call is told to end only by a request that *)
(* was "now" (do_discovery, pvt_stop), whatever ended or began before.       *)
THEOREM GracefulWaits == Spec => GracefulKeepsCalls
<1>1. ASSUME IndInv, [Next]_vars, ~term, term', unload = "no", NoSoftReload, chans PROVE hard
  <2>1. Next
    BY <1>1 DEF vars
  <2>2. Discovery \/ Unload \/ UNCHANGED term \/ ~term'
    BY <2>1 DEF Next, Schedule, Reload, CallBegins, SmsBegins, CallEnds, SmsEnds, Unblocks, Dies,
                MonitorEnds
  <2>3. UNCHANGED term \/ ~term' \/ PassStops \/ UnloadStops
    BY <2>2, <1>1 DEF Discovery, PassBegins, PassIdle, PassGoesOn, Joined, OpenOk, OpenFails, Removes,
                DiscoveryEnds, Unload, UnloadBegins, UnloadJoins, UnloadFrees
  <2>4. PassStops
    BY <1>1, <2>3 DEF UnloadStops
  <2> QED BY <1>1, <2>4 DEF PassStops, IndInv, Justified
<1>2. IndInv /\ [Next]_vars
        => [~term /\ term' /\ unload = "no" /\ NoSoftReload /\ chans => hard]_vars
  BY <1>1
<1> QED BY <1>2, Inductive, PTL DEF Spec, GracefulKeepsCalls

-----------------------------------------------------------------------------
(* The monitor's time-outs *)

Round == IdleTimeout + 2 * MaxLag

(* Unsolicited codes handled since the head command was written *)
Served == urcs - PendingUrcs

(* What a command may use when k codes were handled since it was written *)
Budget(k) == (k + 1) * Round

(* The longest the monitor stays in the running round *)
Rest == CASE phase = "loop"                  -> (MaxLag - lag) + IdleTimeout + MaxLag
          [] phase = "wait"                  -> left + MaxLag
          [] phase \in {"handle", "expired"} -> MaxLag - lag
          [] phase = "dead"                  -> 0

(* A command that was never written has no age; one that was has used, and  *)
(* will use, no more than the rounds that it and the codes stand for.       *)
Ageing == /\ urc => urcs > 0
          /\ head = "unsent" => age = 0
          /\ head = "sent" => age + Rest <= Budget(Served)

(* A sleep that was chosen for the head command lasts until it expires *)
SleptEnough ==
  head = "sent" /\ ~late =>
    /\ phase = "wait" => age + left >= CmdTimeout
    /\ phase \in {"expired", "dead"} => age >= CmdTimeout

(* ClockTypeOK, in two parts *)
Flags == ans \in BOOLEAN /\ urc \in BOOLEAN /\ late \in BOOLEAN
Numbers ==
  /\ head \in {"none", "sent", "unsent"} /\ age \in 0 .. MaxAge
  /\ phase \in {"loop", "wait", "expired", "handle", "dead"}
  /\ left \in 0 .. IdleTimeout /\ lag \in 0 .. MaxLag /\ urcs \in 0 .. MaxUrcs

ClockInv == Flags /\ Numbers /\ Ageing /\ SleptEnough

-----------------------------------------------------------------------------
(* One code more is one round more. *)
LEMMA BudgetSteps ==
  /\ Round = IdleTimeout + 2 * MaxLag /\ Round \in Nat
  /\ \A k \in Nat : /\ Budget(k) \in Nat /\ Budget(k) >= Round
                    /\ Budget(k + 1) = Budget(k) + Round
                    /\ WorstAge(k) = Budget(k)
<1>1. Round \in Nat /\ Round = IdleTimeout + 2 * MaxLag
  BY TimeoutAssumption DEF Round
<1>2. \A k, r \in Nat : /\ (k + 1) * r \in Nat /\ (k + 1) * r >= r
                        /\ (k + 1 + 1) * r = (k + 1) * r + r
  OBVIOUS
<1>3. \A k \in Nat : WorstAge(k) = Budget(k)
  BY DEF WorstAge, Round, Budget
<1> HIDE DEF Round
<1> QED BY <1>1, <1>2, <1>3 DEF Budget

(* A later code never shortens the bound. *)
LEMMA BudgetMonotone == ASSUME NEW k \in Nat, NEW m \in Nat, k <= m PROVE Budget(k) <= Budget(m)
<1>1. \A r \in Nat : (k + 1) * r <= (m + 1) * r
  OBVIOUS
<1> QED BY <1>1, BudgetSteps DEF Budget

(* Ages that are not told apart lie beyond every bound. *)
LEMMA MaxAgeType == MaxAge \in Nat /\ MaxAge > CmdTimeout
<1>1. MaxUrcs \in Nat
  BY TimeoutAssumption
<1>2. Budget(MaxUrcs) \in Nat /\ Budget(MaxUrcs) >= Round /\ WorstAge(MaxUrcs) = Budget(MaxUrcs)
  BY <1>1, BudgetSteps
<1>3. CmdTimeout <= Round /\ Round \in Nat
  BY BudgetSteps, TimeoutAssumption
<1> QED BY <1>2, <1>3, TimeoutAssumption DEF MaxAge

(* What can be read, and whether a command was late, is always a yes or no. *)
LEMMA NextFlags == Flags /\ [ClockNext]_clockVars => Flags'
<1> SUFFICES ASSUME Flags, [ClockNext]_clockVars PROVE Flags'
  OBVIOUS
<1>1. CASE LoopTop \/ WaitReady \/ WaitExpires \/ DeclareTimeout \/ Ping
  BY <1>1, Zenon DEF LoopTop, WaitReady, WaitExpires, DeclareTimeout, Ping, Flags
<1>2. CASE HandleAnswer \/ HandleUrc \/ LostDevice \/ Reconnect
  BY <1>2, Zenon DEF HandleAnswer, HandleUrc, LostDevice, Reconnect, Flags
<1>3. CASE ForeignInsert
  <2>1. late' = (phase \in {"wait", "expired"}) /\ UNCHANGED <<ans, urc>>
    BY <1>3 DEF ForeignInsert
  <2>2. late' \in BOOLEAN
    BY <2>1
  <2> QED BY <2>1, <2>2, Zenon DEF Flags
<1>4. CASE ModemAnswers \/ ModemUrc \/ Tick \/ UNCHANGED clockVars
  BY <1>4, Zenon DEF ModemAnswers, ModemUrc, Tick, clockVars, Flags
<1> QED BY <1>1, <1>2, <1>3, <1>4 DEF ClockNext, Monitor

(* The monitor is born with a command just written. *)
LEMMA InitClockInv == ClockInit => ClockInv
<1> SUFFICES ASSUME ClockInit PROVE ClockInv
  OBVIOUS
<1>1. Numbers
  BY MaxAgeType, TimeoutAssumption DEF ClockInit, Numbers
<1>4. Flags
  BY Zenon DEF ClockInit, Flags
<1>2. Served = 0 /\ Rest = Round
  <2>1. PendingUrcs = 0
    BY DEF ClockInit, PendingUrcs
  <2>2. Rest = (MaxLag - 0) + IdleTimeout + MaxLag
    BY DEF ClockInit, Rest
  <2> QED BY <2>1, <2>2, BudgetSteps, TimeoutAssumption DEF ClockInit, Served
<1>3. Budget(0) >= Round /\ Budget(0) \in Nat
  BY BudgetSteps
<1> QED BY <1>1, <1>2, <1>3, <1>4, BudgetSteps DEF ClockInit, ClockInv, Ageing, SleptEnough

(* Every step keeps the invariant. *)
LEMMA NextClockInv == ClockInv /\ [ClockNext]_clockVars => ClockInv'
<1> SUFFICES ASSUME ClockInv, [ClockNext]_clockVars PROVE ClockInv'
  OBVIOUS
<1> USE TimeoutAssumption, MaxAgeType
<1>1. /\ Served \in Nat /\ Served <= urcs /\ Budget(Served) \in Nat /\ Budget(Served) >= Round
      /\ Budget(Served + 1) = Budget(Served) + Round /\ Budget(0) \in Nat /\ Budget(0) >= Round
      /\ Round = IdleTimeout + 2 * MaxLag
  <2>1. Served \in Nat /\ Served <= urcs
    BY DEF ClockInv, Numbers, Ageing, Served, PendingUrcs
  <2> QED BY <2>1, BudgetSteps
<1>2. PendingUrcs \in 0 .. MaxUrcs
  BY DEF ClockInv, Numbers, Ageing, PendingUrcs
<1>11. Flags'
  BY NextFlags DEF ClockInv
<1> USE <1>11 DEF ClockInv
<1>3. CASE LoopTop
  <2>1. Numbers'
    BY <1>3 DEF LoopTop, Numbers, at_queue_timeout
  <2>2. Served' = Served
    BY <1>3 DEF LoopTop, Served, PendingUrcs
  <2>3. Ageing'
    BY <1>1, <1>3, <2>2 DEF LoopTop, Numbers, Ageing, Rest, at_queue_timeout
  <2> QED BY <1>3, <2>1, <2>3 DEF LoopTop, Numbers, SleptEnough, at_queue_timeout
<1>4. CASE WaitReady \/ WaitExpires \/ DeclareTimeout
  <2>1. Served' = Served /\ UNCHANGED <<head, age, left, ans, urc, late, urcs>>
    BY <1>4 DEF WaitReady, WaitExpires, DeclareTimeout, Served, PendingUrcs
  <2>2. Numbers'
    BY <1>4, <2>1 DEF WaitReady, WaitExpires, DeclareTimeout, Numbers
  <2>3. Ageing'
    BY <1>1, <1>4, <2>1 DEF WaitReady, WaitExpires, DeclareTimeout, Numbers, Ageing, Rest
  <2> QED BY <1>4, <2>1, <2>2, <2>3 DEF WaitReady, WaitExpires, DeclareTimeout, Numbers, SleptEnough
<1>5. CASE Ping \/ HandleAnswer \/ LostDevice \/ Reconnect
  <2>1. Numbers'
    BY <1>2, <1>5 DEF Ping, HandleAnswer, LostDevice, Reconnect, Handled, Restart, Numbers
  <2>2. age' = 0 /\ Served' = 0 /\ (urc' => urcs' > 0)
    BY <1>5 DEF Ping, HandleAnswer, LostDevice, Reconnect, Restart, Served, PendingUrcs
  <2>3. head' = "sent" => Rest' <= Round /\ Rest' \in Nat
    BY <1>1, <1>5 DEF Ping, HandleAnswer, LostDevice, Reconnect, Handled, Restart, Numbers, Rest
  <2>4. Ageing'
    BY <1>1, <2>2, <2>3 DEF Ageing
  <2> QED BY <1>5, <2>1, <2>4 DEF Ping, HandleAnswer, LostDevice, Reconnect, Handled, SleptEnough
<1>6. CASE HandleUrc
  <2>1. Numbers'
    BY <1>6 DEF HandleUrc, Handled, Numbers
  <2>2. Served' = Served + 1
    BY <1>6 DEF HandleUrc, Numbers, Served, PendingUrcs
  <2>3. Ageing'
    BY <1>1, <1>6, <2>2 DEF HandleUrc, Handled, Numbers, Ageing, Rest
  <2> QED BY <1>6, <2>1, <2>3 DEF HandleUrc, Handled, SleptEnough
<1>7. CASE ForeignInsert
  <2>1. Numbers'
    BY <1>2, <1>7 DEF ForeignInsert, Restart, Numbers
  <2>2. age' = 0 /\ Served' = 0 /\ (urc' => urcs' > 0)
    BY <1>7 DEF ForeignInsert, Restart, Served, PendingUrcs
  <2>3. Rest' <= Round /\ Rest' \in Nat
    BY <1>1, <1>7 DEF ForeignInsert, Numbers, Rest
  <2>4. Ageing'
    BY <1>1, <2>2, <2>3 DEF Ageing
  <2> QED BY <1>7, <2>1, <2>4 DEF ForeignInsert, SleptEnough
<1>8. CASE ModemAnswers \/ ModemUrc
  <2>1. Numbers' /\ UNCHANGED <<head, age, phase, left, lag, late>>
    BY <1>8 DEF ModemAnswers, ModemUrc, Numbers
  <2>2. Served' = Served /\ (urc' => urcs' > 0)
    BY <1>8 DEF ModemAnswers, ModemUrc, Numbers, Ageing, Served, PendingUrcs
  <2> QED BY <2>1, <2>2 DEF Ageing, Rest, SleptEnough
<1>9. CASE Tick
  <2>1. Numbers'
    BY <1>9 DEF Tick, Numbers
  <2>2. Served' = Served
    BY <1>9 DEF Tick, Served, PendingUrcs
  <2>3. Ageing'
    BY <1>1, <1>9, <2>2 DEF Tick, Numbers, Ageing, Rest
  <2>4. SleptEnough'
    <3> SUFFICES ASSUME head' = "sent", ~late'
                 PROVE  /\ phase' = "wait" => age' + left' >= CmdTimeout
                        /\ phase' \in {"expired", "dead"} => age' >= CmdTimeout
      BY DEF SleptEnough
    <3>1. head = "sent" /\ ~late /\ phase' = phase
      BY <1>9 DEF Tick
    <3>2. age' = age + 1 \/ (age' = age /\ age > CmdTimeout)
      BY <1>9, <3>1 DEF Tick, Numbers
    <3>3. left' = left \/ left' = left - 1
      BY <1>9 DEF Tick
    <3>4. age \in Nat /\ left \in Nat /\ left' \in Nat
      BY <2>1 DEF Numbers
    <3>5. phase = "wait" => age + left >= CmdTimeout
      BY <3>1 DEF SleptEnough
    <3>6. phase \in {"expired", "dead"} => age >= CmdTimeout
      BY <3>1 DEF SleptEnough
    <3> QED BY <3>1, <3>2, <3>3, <3>4, <3>5, <3>6
  <2> QED BY <2>1, <2>3, <2>4
<1>10. CASE UNCHANGED clockVars
  BY <1>10 DEF clockVars, Numbers, Ageing, Rest, Served, PendingUrcs, SleptEnough
<1> QED BY <1>3, <1>4, <1>5, <1>6, <1>7, <1>8, <1>9, <1>10 DEF ClockNext, Monitor

(* The invariant holds in every reachable state. *)
LEMMA ClockInductive == ClockSpec => []ClockInv
  BY InitClockInv, NextClockInv, PTL DEF ClockSpec

-----------------------------------------------------------------------------
(* Every variable of the monitor's clockwork always has its type. *)
THEOREM ClockTypeCorrect == ClockSpec => []ClockTypeOK
<1>1. ClockInv => ClockTypeOK
  BY DEF ClockInv, Flags, Numbers, ClockTypeOK
<1> QED BY <1>1, ClockInductive, PTL

(* The device is given up only for a command whose time has run out, or that *)
(* was written while the monitor slept for another reason; and no command    *)
(* waits longer than a round of the loop for itself and for every            *)
(* unsolicited code.                                                         *)
THEOREM Timely == ClockSpec => []TimeoutInTime
<1>1. ClockInv => TimeoutInTime
  <2> SUFFICES ASSUME ClockInv, head = "sent"
               PROVE  (phase = "dead" => age >= CmdTimeout \/ late) /\ age <= WorstAge(urcs)
    BY DEF TimeoutInTime
  <2>1. Served \in Nat /\ Served <= urcs /\ urcs \in Nat /\ age \in Nat /\ Rest \in Nat
    BY TimeoutAssumption DEF ClockInv, Numbers, Ageing, Served, PendingUrcs, Rest
  <2>2. Budget(Served) <= Budget(urcs) /\ WorstAge(urcs) = Budget(urcs)
        /\ Budget(Served) \in Nat /\ Budget(urcs) \in Nat
    BY <2>1, BudgetMonotone, BudgetSteps
  <2>3. age + Rest <= Budget(Served)
    BY DEF ClockInv, Ageing
  <2>4. age <= WorstAge(urcs)
    BY <2>1, <2>2, <2>3
  <2> QED BY <2>4 DEF ClockInv, SleptEnough
<1> QED BY <1>1, ClockInductive, PTL
=============================================================================
