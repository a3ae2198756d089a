--------------------------- MODULE ZigbeeAutoheal ---------------------------
(***************************************************************************)
(* The healing of a Zigbee coordinator whose radio hangs (ansible/         *)
(* playbooks/iot/files): on each node of a Pacemaker cluster the watchdog  *)
(* zigbee_soft_hang_watchdog.sh and the alert zigbee_coordinator_alert.sh  *)
(* call zigbee_coordinator_reset.sh, which switches the coordinator off    *)
(* and on, once in a cooldown of that node.                                *)
(*                                                                         *)
(* A lock file is a time stamp on one node; here it counts down.  A tick   *)
(* is the three minutes of the watchdog's window and re-entry guard.  No   *)
(* script lives through two of them: what it waits for adds up to less, or *)
(* systemd ends it.  z2m (Zigbee2MQTT) runs on one node.                   *)
(*                                                                         *)
(* AfterAnyone, WaitNever, CleanUpNever and RestartNothing have a defect   *)
(* and are no part of ZigbeeNext: exchanged for the definitions they stand *)
(* in front of, they show that the properties notice.                      *)
(***************************************************************************)
EXTENDS Naturals

CONSTANTS
    Node,       \* nodes of the cluster
    Cooldown,   \* RESET_COOLDOWN, in ticks
    Bounds      \* bounds: what one behaviour may hold, in each combination

(* A line of the logs leaves the watchdog's window at the second tick.     *)
Window == 2

ASSUME ZigbeeAssumption ==
    /\ Node # {}
    /\ Cooldown \in Nat /\ Cooldown > Window
    /\ Bounds \subseteq [trouble : Nat,  \* times the radio hangs, a command fails
                                         \* or a node crashes
                        alerts : Nat]   \* resets a node's alerts have under way
                                        \* at one time

Watchdog == 0
Alerts   == UNION {1..b.alerts : b \in Bounds}
Proc     == Node \X ({Watchdog} \cup Alerts)     \* the resets of a node

VARIABLES
    radio,      \* the coordinator
    fit,        \* z2m's session is with the radio as it last booted
    at,         \* the node z2m runs on, if any
    banned,     \* nodes on which z2m failed too often
    storm,      \* ticks for which timeouts of the radio show in the logs
    lock,       \* ticks for which each node's cooldown lock is fresh
    reentry,    \* nodes whose watchdog acted a short while ago
    cuts,       \* times a node's resets cut the power in its cooldown
    pc,         \* where each caller's reset is
    old,        \* resets that have lived through a tick
    hang,       \* times the radio hung so far
    mishap,     \* mishaps so far
    bound       \* the combination of bounds

worldVars  == <<radio, fit, at, banned, storm>>
zigbeeVars == <<worldVars, lock, reentry, cuts, pc, old, hang, mishap, bound>>

(* The order of a reset; a watchdog goes on with ready and restart.        *)
Place == {"idle", "write", "off", "on", "boot", "cleanup", "ready", "restart"}

BridgeUp == radio \in {"ok", "hung"}    \* the serial bridge accepts TCP

Serving == at # {} /\ radio = "ok" /\ fit

MaxCuts == 2    \* bound: more cuts than these are not told apart

(* The shape of the state.                                                 *)
ZigbeeTypeOK ==
    /\ radio \in {"ok", "hung", "off", "booting"}
    /\ fit \in BOOLEAN
    /\ at \subseteq Node /\ \A m, n \in at : m = n
    /\ banned \subseteq Node
    /\ storm \in 0..Window
    /\ lock \in [Node -> 0..Cooldown]
    /\ reentry \subseteq Node
    /\ cuts \in [Node -> 0..MaxCuts]
    /\ pc \in [Proc -> Place]
    /\ \A n \in Node, a \in Alerts : pc[<<n, a>>] \notin {"ready", "restart"}
    /\ old \subseteq Proc
    /\ bound \in Bounds
    /\ hang \in Nat /\ mishap \in Nat /\ hang + mishap <= bound.trouble

ZigbeeInit ==
    /\ radio = "ok"
    /\ fit = TRUE
    /\ at = {CHOOSE n \in Node : TRUE}     \* the nodes are alike
    /\ banned = {}
    /\ storm = 0
    /\ lock = [n \in Node |-> 0]
    /\ reentry = {}
    /\ cuts = [n \in Node |-> 0]
    /\ pc = [x \in Proc |-> "idle"]
    /\ old = {}
    /\ hang = 0
    /\ mishap = 0
    /\ bound \in Bounds

Mishap == hang + mishap < bound.trouble /\ mishap' = mishap + 1

-----------------------------------------------------------------------------
(***************************************************************************)
(* The coordinator, z2m and Pacemaker.                                     *)
(***************************************************************************)

(* The firmware freezes; bridge and z2m stay up.                           *)
Freeze ==
    /\ radio = "ok"
    /\ hang + mishap < bound.trouble
    /\ hang' = hang + 1
    /\ radio' = "hung"
    /\ UNCHANGED <<fit, at, banned, storm, lock, reentry, cuts, pc, old, mishap, bound>>

Boot ==
    /\ radio = "booting"
    /\ radio' = "ok"
    /\ UNCHANGED <<fit, at, banned, storm, lock, reentry, cuts, pc, old, hang, mishap, bound>>

(* z2m logs timeouts if the radio hangs or is not the one it knew.         *)
Symptom == at # {} /\ (radio = "hung" \/ (radio = "ok" /\ ~fit))

Storm ==
    /\ Symptom
    /\ storm < Window
    /\ storm' = Window
    /\ UNCHANGED <<radio, fit, at, banned, lock, reentry, cuts, pc, old, hang, mishap, bound>>

AfterAnyone(x) == "ready"

(* Where a reset ends: the watchdog restarts z2m, the alert does nothing.  *)
After(x) == IF x[2] = Watchdog THEN "ready" ELSE "idle"

(* Whether a reset goes on, by the lock as it is found.                    *)
Check(x) == IF lock[x[1]] > 0 THEN After(x) ELSE "write"

Begin(x) ==
    /\ pc[x] = "idle"
    /\ pc' = [pc EXCEPT ![x] = Check(x)]
    /\ old' = old \ {x}

(* The one of the idle resets that an alert detaches.                      *)
Detached(x) == \A a \in Alerts : a < x[2] => pc[<<x[1], a>>] # "idle"

(* A failed start or monitor calls the alert.  It finds the signature in   *)
(* the logs, unless they are out of reach, and detaches a reset, whether   *)
(* or not an earlier one has got as far as the lock.                       *)
Alert(n) ==
    /\ storm' = Window
    /\ \/ lock[n] > 0 /\ UNCHANGED <<pc, old, mishap>>
       \/ /\ lock[n] = 0
          /\ \E x \in {n} \X (1..bound.alerts) : Detached(x) /\ Begin(x)
          /\ UNCHANGED mishap
       \/ Mishap /\ UNCHANGED <<pc, old>>

(* Pacemaker starts z2m on a node; a failure may be one too many.          *)
StartZ2m(n) ==
    /\ at = {}
    /\ n \notin banned
    /\ \/ /\ radio = "ok"
          /\ at' = {n}
          /\ fit' = TRUE
          /\ UNCHANGED <<banned, storm, pc, old, mishap>>
       \/ /\ radio # "ok"
          /\ banned' \in {banned, banned \cup {n}}
          /\ Alert(n)
          /\ UNCHANGED <<at, fit>>
    /\ UNCHANGED <<radio, lock, reentry, cuts, hang, bound>>

(* z2m does not survive the loss of its bridge.                            *)
MonitorFails(n) ==
    /\ n \in at
    /\ ~BridgeUp
    /\ at' = {}
    /\ banned' \in {banned, banned \cup {n}}
    /\ Alert(n)
    /\ UNCHANGED <<radio, fit, lock, reentry, cuts, hang, bound>>

(* A node goes down and comes back, with /var/run empty.                   *)
Crash(n) ==
    /\ Mishap
    /\ at' = at \ {n}
    /\ banned' = banned \ {n}
    /\ lock' = [lock EXCEPT ![n] = 0]
    /\ reentry' = reentry \ {n}
    /\ cuts' = [cuts EXCEPT ![n] = 0]
    /\ pc' = [x \in Proc |-> IF x[1] = n THEN "idle" ELSE pc[x]]
    /\ old' = {x \in old : x[1] # n}
    /\ UNCHANGED <<radio, fit, storm, hang, bound>>

Fewer(n) == IF n = 0 THEN 0 ELSE n - 1

(* The watchdog's timer, which fires twice a minute, finds something to do. *)
Due(n) ==
    /\ n \in at
    /\ n \notin reentry
    /\ storm > 0
    /\ pc[<<n, Watchdog>>] = "idle"

(* Three minutes pass.  In them the radio's symptoms get into the logs,    *)
(* the timers fire, and the parts of a reset that take seconds end.        *)
Tick ==
    /\ \A x \in old : pc[x] = "idle"
    /\ \A x \in Proc : pc[x] \notin {"write", "off", "on"}
    /\ Symptom => storm = Window
    /\ \A n \in Node : ~Due(n)
    /\ old' = {x \in Proc : pc[x] # "idle"}
    /\ storm' = Fewer(storm)
    /\ lock' = [n \in Node |-> Fewer(lock[n])]
    /\ cuts' = [n \in Node |-> IF lock'[n] = 0 THEN 0 ELSE cuts[n]]
    /\ reentry' = {}
    /\ UNCHANGED <<radio, fit, at, banned, pc, hang, mishap, bound>>

-----------------------------------------------------------------------------
(***************************************************************************)
(* The scripts.                                                            *)
(***************************************************************************)

(* The watchdog of the node that runs z2m sees timeouts.                   *)
Detect(n) ==
    /\ Due(n)
    /\ Begin(<<n, Watchdog>>)
    /\ reentry' = reentry \cup {n}
    /\ UNCHANGED <<worldVars, lock, cuts, hang, mishap, bound>>

Goto(x, from, to) == pc[x] = from /\ pc' = [pc EXCEPT ![x] = to]

(* The reset goes on without a lock if it cannot write one.                *)
Write(x) ==
    /\ Goto(x, "write", "off")
    /\ \/ lock' = [lock EXCEPT ![x[1]] = Cooldown] /\ UNCHANGED mishap
       \/ Mishap /\ UNCHANGED lock
    /\ UNCHANGED <<worldVars, reentry, cuts, old, hang, bound>>

(* The port is switched off; whether the switch answered is not looked at. *)
CycleOff(x) ==
    /\ Goto(x, "off", "on")
    /\ \/ /\ radio' = "off"
          /\ fit' = FALSE
          /\ cuts' = [cuts EXCEPT ![x[1]] = IF @ < MaxCuts THEN @ + 1 ELSE @]
          /\ UNCHANGED mishap
       \/ Mishap /\ UNCHANGED <<radio, fit, cuts>>
    /\ UNCHANGED <<at, banned, storm, lock, reentry, old, hang, bound>>

CycleOn(x) ==
    /\ Goto(x, "on", "boot")
    /\ \/ radio' = (IF radio = "off" THEN "booting" ELSE radio) /\ UNCHANGED mishap
       \/ Mishap /\ UNCHANGED radio
    /\ UNCHANGED <<fit, at, banned, storm, lock, reentry, cuts, old, hang, bound>>

(* The wait for the bridge ends: it is up, or nobody gave the radio power, *)
(* or the radio takes too long.  The script goes on all the same.          *)
WaitOver ==
    \/ (BridgeUp \/ radio = "off") /\ UNCHANGED mishap
    \/ Mishap

WaitNever(x) ==
    /\ Goto(x, "boot", "cleanup")
    /\ UNCHANGED <<worldVars, lock, reentry, cuts, old, hang, mishap, bound>>

WaitBoot(x) ==
    /\ Goto(x, "boot", "cleanup")
    /\ WaitOver
    /\ UNCHANGED <<worldVars, lock, reentry, cuts, old, hang, bound>>

CleanUpNever(x) ==
    /\ Goto(x, "cleanup", After(x))
    /\ UNCHANGED <<worldVars, lock, reentry, cuts, old, hang, mishap, bound>>

(* Pacemaker forgets the failures of z2m.                                  *)
CleanUp(x) ==
    /\ Goto(x, "cleanup", After(x))
    /\ \/ banned' = {} /\ UNCHANGED mishap
       \/ Mishap /\ UNCHANGED banned
    /\ UNCHANGED <<radio, fit, at, storm, lock, reentry, cuts, old, hang, bound>>

(* Not before the bridge is up: the cycle may be another caller's.         *)
Ready(x) ==
    /\ Goto(x, "ready", "restart")
    /\ WaitOver
    /\ UNCHANGED <<worldVars, lock, reentry, cuts, old, hang, bound>>

RestartNothing(x) ==
    /\ Goto(x, "restart", "idle")
    /\ UNCHANGED <<worldVars, lock, reentry, cuts, old, hang, mishap, bound>>

(* z2m is stopped, for Pacemaker to start it, unless the command fails.    *)
Restart(x) ==
    /\ Goto(x, "restart", "idle")
    /\ \/ at' = {} /\ UNCHANGED mishap
       \/ Mishap /\ UNCHANGED at
    /\ UNCHANGED <<radio, fit, banned, storm, lock, reentry, cuts, old, hang, bound>>

(* systemd ends a watchdog that takes more than five minutes, as it does   *)
(* where neither of its waits finds the bridge; a script may also die or   *)
(* hang in a command for good.  The lock stays.                            *)
Kill(x) ==
    /\ pc[x] # "idle"
    /\ pc' = [pc EXCEPT ![x] = "idle"]
    /\ \/ pc[x] = "ready" /\ x \in old /\ ~BridgeUp /\ UNCHANGED mishap
       \/ Mishap
    /\ UNCHANGED <<worldVars, lock, reentry, cuts, old, hang, bound>>

ScriptStep(x) ==
    \/ Write(x)
    \/ CycleOff(x)
    \/ CycleOn(x)
    \/ WaitBoot(x)
    \/ CleanUp(x)
    \/ Ready(x)
    \/ Restart(x)

-----------------------------------------------------------------------------
Pacemaker == \E n \in Node : StartZ2m(n) \/ MonitorFails(n)

ZigbeeNext ==
    \/ Freeze \/ Boot \/ Storm \/ Tick \/ Pacemaker
    \/ \E n \in Node : Crash(n) \/ Detect(n)
    \/ \E x \in Proc : ScriptStep(x) \/ Kill(x)

(* Scripts run to their end, timers fire, time passes, and Pacemaker does  *)
(* what it has to do.                                                      *)
ZigbeeSpec ==
    /\ ZigbeeInit
    /\ [][ZigbeeNext]_zigbeeVars
    /\ WF_zigbeeVars(Boot) /\ WF_zigbeeVars(Storm) /\ WF_zigbeeVars(Pacemaker)
    /\ WF_zigbeeVars(Tick)
    /\ \A n \in Node : WF_zigbeeVars(Detect(n))
    /\ \A x \in Proc : WF_zigbeeVars(ScriptStep(x))

-----------------------------------------------------------------------------
(***************************************************************************)
(* Properties.                                                             *)
(***************************************************************************)

(* Unless a command failed, the bridge is down only while a reset is there *)
(* to give the coordinator its power back and to wait for it, however many *)
(* of them work on the one port.                                           *)
DownInHand ==
    ~BridgeUp /\ mishap = 0 => \E x \in Proc : pc[x] \in {"on", "boot"}

(* One hang never puts z2m out of service for good, although each node's   *)
(* lock leaves the others' cycles alone and failed starts meet cooldowns.  *)
OneHangHeals == [](hang <= 1 /\ mishap = 0) => []<>Serving

(* However often the radio hangs and commands fail, z2m always serves      *)
(* again, or Pacemaker gives it up on every node.                          *)
HealsOrIsGivenUp == []<>Serving \/ <>[](at = {} /\ banned = Node)

(* What zigbee_coordinator_reset.sh and the watchdog say of the lock:      *)
(* unless a command fails, no node cuts the power more than once in a      *)
(* cooldown, its watchdog and its alerts taken together.                   *)
OneCutPerCooldown == mishap = 0 => \A n \in Node : cuts[n] <= 1
=============================================================================
