----------------------------- MODULE Lifecycle ------------------------------
(***************************************************************************)
(* The life of one device: how requests of an operator (CLI, manager,      *)
(* reload) are carried out by the discovery thread, the device's monitor   *)
(* thread and, at the end, by the thread that unloads the module.          *)
(*                                                                         *)
(* An action is a critical section of the device lock pvt->lock.  The lock *)
(* is released in the middle of pvt_stop (pthread_join) and of             *)
(* pvt_discovery (port lookup), so these are several actions.  The only    *)
(* place where a thread blocks while it holds the lock is discovery_restart*)
(* (it wants discovery_lock): mon is then "blocked" or "dying".            *)
(***************************************************************************)
EXTENDS Integers

CONSTANTS
  Events,        \* what the operator asks for: subset of DevStates
  Whens,         \* and when
  Settings,      \* configurations a reload may find in the file
  InitSettings,  \* the configuration at load time
  MayUnload,     \* may the module be unloaded?
  MaxRequests, MaxReloads, MaxLosses   \* bounds

DevStates == {"stopped", "restarted", "removed", "started"}   \* dev_state_t
Times     == {"now", "gracefully", "convenient"}              \* restate_time_t

(* The values of the enumeration, which pvt_reconfigure compares to a flag *)
Code(state) == CASE state = "stopped" -> 0 [] state = "restarted" -> 1
                 [] state = "removed" -> 2 [] state = "started"   -> 3

(* The part of the settings that matters: initstate, smsaspdu, and the rest *)
(* of what "requires restarting" as one value                               *)
IsSettings(s) == /\ s.init \in {"stopped", "removed", "started"}
                 /\ s.pdu \in {0, 1} /\ s.tty \in Nat

ASSUME LifecycleAssumption ==
  /\ Events \subseteq DevStates /\ Whens \subseteq Times
  /\ \A s \in Settings \cup {InitSettings} : IsSettings(s)
  /\ InitSettings.init # "removed"
  /\ MayUnload \in BOOLEAN
  /\ {MaxRequests, MaxReloads, MaxLosses} \subseteq Nat

VARIABLES
  desired, current,  \* desired_state, current_state (connected = "started")
  rtime,             \* restart_time
  chans, sms,        \* the device has channels; an SMS is on its way
  term,              \* terminate_monitor
  mon,               \* the monitor thread, "none" is AST_PTHREADT_NULL
  disc,              \* the discovery thread
  unload,            \* the unloading thread
  settings, used,    \* pvt->settings; the ports the monitor was started with
  alive,             \* the struct pvt is allocated
  asked, hard,       \* the operator's last request: what, and was it "now"
  count              \* events that are bounded

opvars  == <<asked, hard, count>>
setvars == <<settings, used>>
vars == <<desired, current, rtime, chans, sms, term, mon, disc, unload, settings, used,
          alive, asked, hard, count>>

(* pvt_create *)
Init ==
  /\ desired = InitSettings.init /\ current = "stopped" /\ rtime = "now"
  /\ chans = FALSE /\ sms = FALSE /\ term = FALSE
  /\ mon = "none" /\ disc = "sleep" /\ unload = "no"
  /\ settings = InitSettings /\ used = InitSettings.tty
  /\ alive = TRUE
  /\ asked = InitSettings.init /\ hard = TRUE
  /\ count = [requests |-> 0, reloads |-> 0, soft |-> 0, losses |-> 0]

(* pvt->lock can be taken *)
LockFree == mon \notin {"blocked", "dying"}

(* discovery_lock is held while the discovery thread is joined *)
DiscoveryLocked == unload = "join"

(* Mutant: the channels are forgotten *)
pvt_time4restate_IgnoresCalls(des, rt, ch, sm) == des # current /\ (rt = "now" \/ ~sm)

(* pvt_time4restate *)
pvt_time4restate(des, rt, ch, sm) == des # current /\ (rt = "now" \/ (~ch /\ ~sm))

(* pvt_enabled *)
pvt_enabled == current = "started" /\ (desired = current \/ rtime = "convenient")

-----------------------------------------------------------------------------
(* The operator *)

(* schedule_restart_event; "start" is always now *)
Schedule(ev, when) ==
  /\ alive /\ LockFree /\ unload = "no"
  /\ count.requests < MaxRequests
  /\ ev = "started" => when = "now"
  /\ desired' = ev
  /\ rtime' = IF pvt_time4restate(ev, when, chans, sms) THEN "now" ELSE when
  /\ asked' = ev /\ hard' = (when = "now")
  /\ count' = [count EXCEPT !.requests = @ + 1]
  /\ UNCHANGED <<current, chans, sms, term, mon, disc, unload, settings, used, alive>>

(* What pvt_reconfigure, or the last loop of reload_config, makes of desired *)
Reconfigured(s) ==
  IF s.init = "removed" THEN "removed"
  ELSE IF Code(s.init) # settings.pdu THEN s.init
  ELSE IF s.tty # settings.tty \/ s.pdu # settings.pdu THEN "restarted"
  ELSE "same"

(* reload_config for a device that is listed: the restart time that decides  *)
(* is the one of an earlier request                                          *)
Reload(s, when) ==
  /\ alive /\ LockFree /\ unload = "no"
  /\ count.reloads < MaxReloads
  /\ LET des == Reconfigured(s)
     IN  IF des = "same" THEN UNCHANGED <<desired, rtime, asked, hard>>
         ELSE /\ desired' = des /\ asked' = des /\ hard' = (when = "now")
              /\ rtime' = IF pvt_time4restate(des, rtime, chans, sms) THEN "now" ELSE when
  /\ settings' = IF s.init = "removed" THEN settings ELSE s
  /\ count' = [count EXCEPT !.reloads = @ + 1, !.soft = @ + (IF when = "now" THEN 0 ELSE 1)]
  /\ UNCHANGED <<current, chans, sms, term, mon, disc, unload, used, alive>>

-----------------------------------------------------------------------------
(* The discovery thread *)

(* top of the loop *)
PassBegins ==
  /\ disc = "sleep" /\ unload = "no" /\ alive
  /\ disc' = "scan"
  /\ UNCHANGED <<desired, current, rtime, chans, sms, term, mon, unload, setvars, alive, opvars>>

PassIdle ==
  /\ disc = "scan" /\ LockFree
  /\ ~(rtime = "now" /\ desired # current)
  /\ disc' = "sleep"
  /\ UNCHANGED <<desired, current, rtime, chans, sms, term, mon, unload, setvars, alive, opvars>>

(* Mutant: the pass only stops the device, whatever it is asked for *)
AfterStop_NoStart(des) ==
  /\ disc' = IF des = "removed" THEN "collected" ELSE "sleep"
  /\ UNCHANGED <<desired, used>>

(* What do_discovery does once pvt_stop has returned: pvt_start, the list    *)
(* `removed', or nothing                                                     *)
AfterStop(des) ==
  /\ desired' = IF des = "restarted" THEN "started" ELSE desired
  /\ disc' = CASE des \in {"restarted", "started"} -> "lookup"
               [] des = "removed" -> "collected"
               [] des = "stopped" -> "sleep"
  /\ used' = IF des \in {"restarted", "started"} THEN settings.tty ELSE used

(* Mutant: the monitor is not told to end *)
PassStops_NoTerm ==
  /\ disc = "scan" /\ LockFree
  /\ rtime = "now" /\ desired # current
  /\ mon # "none"
  /\ disc' = desired
  /\ UNCHANGED <<desired, current, rtime, chans, sms, term, mon, unload, setvars, alive, opvars>>

(* Mutant: pvt_start does not join the monitor that has ended *)
PassStops_NoJoin ==
  /\ disc = "scan" /\ LockFree
  /\ rtime = "now" /\ desired # current
  /\ mon # "none"
  /\ IF mon = "exited" THEN AfterStop(desired) /\ UNCHANGED term
     ELSE term' = TRUE /\ disc' = desired /\ UNCHANGED <<desired, used>>
  /\ UNCHANGED <<current, rtime, chans, sms, mon, unload, settings, alive, opvars>>

(* pvt_stop: tell the monitor and join it without the lock *)
PassStops ==
  /\ disc = "scan" /\ LockFree
  /\ rtime = "now" /\ desired # current
  /\ mon # "none"
  /\ term' = TRUE
  /\ disc' = desired
  /\ UNCHANGED <<desired, current, rtime, chans, sms, mon, unload, setvars, alive, opvars>>

PassGoesOn ==
  /\ disc = "scan" /\ LockFree
  /\ rtime = "now" /\ desired # current
  /\ mon = "none"
  /\ AfterStop(desired)
  /\ UNCHANGED <<current, rtime, chans, sms, term, mon, unload, settings, alive, opvars>>

(* pthread_join returns, the lock is taken again *)
Joined ==
  /\ disc \in DevStates /\ mon = "exited"
  /\ mon' = "none" /\ term' = FALSE
  /\ AfterStop(disc)
  /\ UNCHANGED <<current, rtime, chans, sms, unload, settings, alive, opvars>>

(* the rest of pvt_start, after pvt_discovery: the ports are opened, or not  *)
OpenOk ==
  /\ disc = "lookup" /\ LockFree
  /\ mon' = "running" /\ current' = "started"
  /\ disc' = "sleep"
  /\ UNCHANGED <<desired, rtime, chans, sms, term, unload, setvars, alive, opvars>>

OpenFails ==
  /\ disc = "lookup" /\ LockFree
  /\ disc' = "sleep"
  /\ UNCHANGED <<desired, current, rtime, chans, sms, term, mon, unload, setvars, alive, opvars>>

(* actual device removal: pvt_free *)
Removes ==
  /\ disc = "collected" /\ LockFree
  /\ alive' = FALSE /\ disc' = "sleep"
  /\ UNCHANGED <<desired, current, rtime, chans, sms, term, mon, unload, setvars, opvars>>

DiscoveryEnds ==
  /\ disc = "sleep" /\ unload # "no"
  /\ disc' = "gone"
  /\ UNCHANGED <<desired, current, rtime, chans, sms, term, mon, unload, setvars, alive, opvars>>

-----------------------------------------------------------------------------
(* The monitor thread, and the calls and messages it serves *)

CallBegins ==
  /\ mon = "running" /\ ~chans
  /\ pvt_enabled
  /\ chans' = TRUE
  /\ UNCHANGED <<desired, current, rtime, sms, term, mon, disc, unload, setvars, alive, opvars>>

SmsBegins ==
  /\ mon = "running" /\ ~sms
  /\ sms' = TRUE
  /\ UNCHANGED <<desired, current, rtime, chans, term, mon, disc, unload, setvars, alive, opvars>>

(* pvt_try_restate: the thread may have to wait for discovery_lock *)
pvt_try_restate(ch, sm) ==
  IF pvt_time4restate(desired, rtime, ch, sm)
  THEN /\ rtime' = "now"
       /\ mon' = IF DiscoveryLocked THEN "blocked" ELSE mon
  ELSE UNCHANGED <<rtime, mon>>

(* cpvt_free of the last channel *)
CallEnds ==
  /\ mon = "running" /\ chans
  /\ chans' = FALSE
  /\ pvt_try_restate(FALSE, sms)
  /\ UNCHANGED <<desired, current, sms, term, disc, unload, setvars, alive, opvars>>

(* at_response_ok, _error, _cmgr: the message was sent, read or refused *)
SmsEnds ==
  /\ mon = "running" /\ sms
  /\ sms' = FALSE
  /\ pvt_try_restate(chans, FALSE)
  /\ UNCHANGED <<desired, current, chans, term, disc, unload, setvars, alive, opvars>>

Unblocks ==
  /\ mon = "blocked" /\ ~DiscoveryLocked
  /\ mon' = "running"
  /\ UNCHANGED <<desired, current, rtime, chans, sms, term, disc, unload, setvars, alive, opvars>>

(* disconnect_datacard and the end of the thread *)
Disconnected == /\ current' = "stopped" /\ chans' = FALSE /\ sms' = FALSE /\ mon' = "exited"

(* do_monitor_phone leaves its loop: told to, or the device is lost; freeing *)
(* the last channel runs pvt_try_restate while current is still "started"    *)
MonitorEnds(lost) ==
  /\ mon = "running"
  /\ IF lost THEN count.losses < MaxLosses ELSE term
  /\ term' = (term /\ ~lost)
  /\ count' = [count EXCEPT !.losses = @ + (IF lost THEN 1 ELSE 0)]
  /\ LET again == chans /\ pvt_time4restate(desired, rtime, FALSE, sms)
     IN  /\ rtime' = IF again THEN "now" ELSE rtime
         /\ IF again /\ DiscoveryLocked
            THEN chans' = FALSE /\ mon' = "dying" /\ UNCHANGED <<current, sms>>
            ELSE Disconnected
  /\ UNCHANGED <<desired, disc, unload, setvars, alive, asked, hard>>

Dies ==
  /\ mon = "dying" /\ ~DiscoveryLocked
  /\ Disconnected
  /\ UNCHANGED <<desired, rtime, term, disc, unload, setvars, alive, opvars>>

-----------------------------------------------------------------------------
(* Unloading the module; Asterisk does not unload it while there are channels *)

(* discovery_stop: flag, lock, signal, join *)
UnloadBegins ==
  /\ MayUnload /\ unload = "no" /\ ~chans
  /\ unload' = "join"
  /\ UNCHANGED <<desired, current, rtime, chans, sms, term, mon, disc, setvars, alive, opvars>>

UnloadJoins ==
  /\ unload = "join" /\ disc = "gone"
  /\ unload' = "destroy"
  /\ UNCHANGED <<desired, current, rtime, chans, sms, term, mon, disc, setvars, alive, opvars>>

(* Mutant: the monitor is joined without having been told to end *)
UnloadStops_NoTerm ==
  /\ unload = "destroy" /\ LockFree
  /\ alive /\ mon # "none"
  /\ unload' = "joinMonitor"
  /\ UNCHANGED <<desired, current, rtime, chans, sms, term, mon, disc, setvars, alive, opvars>>

(* devices_destroy, pvt_destroy: pvt_stop ... *)
UnloadStops ==
  /\ unload = "destroy" /\ LockFree
  /\ alive /\ mon # "none"
  /\ term' = TRUE /\ unload' = "joinMonitor"
  /\ UNCHANGED <<desired, current, rtime, chans, sms, mon, disc, setvars, alive, opvars>>

(* ... and pvt_free *)
UnloadFrees ==
  /\ \/ unload = "destroy" /\ mon = "none"
     \/ unload = "joinMonitor" /\ mon = "exited"
  /\ mon' = "none" /\ alive' = FALSE /\ unload' = "done"
  /\ UNCHANGED <<desired, current, rtime, chans, sms, term, disc, setvars, opvars>>

Discovery == \/ PassBegins \/ PassIdle \/ PassStops \/ PassGoesOn \/ Joined
             \/ OpenOk \/ OpenFails \/ Removes \/ DiscoveryEnds
Unload == UnloadBegins \/ UnloadJoins \/ UnloadStops \/ UnloadFrees

Next ==
  \/ \E ev \in Events, when \in Whens : Schedule(ev, when)
  \/ \E s \in Settings, when \in Whens : Reload(s, when)
  \/ Discovery
  \/ CallBegins \/ SmsBegins \/ CallEnds \/ SmsEnds \/ Unblocks \/ Dies
  \/ \E lost \in BOOLEAN : MonitorEnds(lost)
  \/ Unload

Spec == Init /\ [][Next]_vars

(* Every thread goes on when it can; calls and messages end; a device that   *)
(* is there is opened after some attempts; nobody has to unload the module.  *)
FairSpec ==
  /\ Spec
  /\ WF_vars(Discovery) /\ SF_vars(OpenOk)
  /\ WF_vars(CallEnds) /\ WF_vars(SmsEnds)
  /\ WF_vars(Unblocks) /\ WF_vars(Dies) /\ WF_vars(MonitorEnds(FALSE))
  /\ WF_vars(UnloadJoins \/ UnloadStops \/ UnloadFrees)

-----------------------------------------------------------------------------
(* Properties *)

(* Every variable has its type. *)
TypeOK ==
  /\ desired \in DevStates /\ current \in {"stopped", "started"} /\ rtime \in Times
  /\ {chans, sms, term, alive, hard} \subseteq BOOLEAN
  /\ mon \in {"none", "running", "blocked", "dying", "exited"}
  /\ disc \in DevStates \cup {"sleep", "scan", "lookup", "collected", "gone"}
  /\ unload \in {"no", "join", "destroy", "joinMonitor", "done"}
  /\ asked \in DevStates

(* pvt_start comes to open the ports only when the last monitor thread has   *)
(* been joined ("prevent start_monitor() multiple times"), and pvt_free too. *)
MonitorJoined ==
  /\ disc \in {"lookup", "collected"} => mon = "none" /\ current = "stopped"
  /\ ~alive => mon = "none"

(* A reload that is not "now" decides with the restart time of an earlier     *)
(* request, see Reload; three properties are about the time before it.        *)
NoSoftReload == count.soft = 0

(* A request for "gracefully" or "when convenient" never stops a monitor     *)
(* that serves a call, however it interleaves with calls that end and begin. *)
GracefulKeepsCalls ==
  [][ ~term /\ term' /\ unload = "no" /\ NoSoftReload /\ chans => hard ]_vars

(* do_discovery overwrites what is requested while it restarts the device    *)
Pending(ev) == asked = ev /\ hard /\ desired = asked /\ disc # "restarted" /\ NoSoftReload
Superseded(ev) == asked # ev \/ ~hard \/ ~alive \/ unload # "no" \/ ~NoSoftReload

(* An immediate request to stop or to remove the device that does not fall    *)
(* into a restart is carried out unless another request follows it, whatever *)
(* the discovery thread is doing with an earlier one.                        *)
RequestHonoured ==
  /\ Pending("stopped") ~> (current = "stopped" \/ Superseded("stopped"))
  /\ Pending("removed") ~> (~alive \/ Superseded("removed"))

(* A device that was started, by the configuration or by the last request,   *)
(* and is lost is connected again.                                           *)
ShouldRun == desired = "started" /\ asked = "started" /\ NoSoftReload
LostReconnects ==
  (ShouldRun /\ current = "stopped") ~>
    (current = "started" \/ ~ShouldRun \/ ~alive \/ unload # "no")

(* Unloading the module comes to an end if no request is pending when it     *)
(* begins, also when messages end and the device is lost meanwhile.          *)
UnloadEnds ==
  (unload = "join" /\ desired = "started" /\ current = "started") ~> (unload = "done")
=============================================================================
