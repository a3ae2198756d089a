------------------------ MODULE ZigbeeAutoheal_proofs ------------------------
(***************************************************************************)
(* Theorems about ZigbeeAutoheal for every set of nodes, every cooldown    *)
(* and any number of troubles and alerts.                                  *)
(***************************************************************************)
EXTENDS ZigbeeAutoheal, TLAPS

USE DEF Window, MaxCuts

WorldStep ==
    \/ Freeze \/ Boot \/ Storm \/ Tick
    \/ \E n \in Node : StartZ2m(n) \/ MonitorFails(n) \/ Crash(n) \/ Detect(n)

LEMMA NextSplits ==
    ASSUME ZigbeeNext
    PROVE  WorldStep \/ \E x \in Proc : ScriptStep(x) \/ Kill(x)
BY DEF ZigbeeNext, WorldStep, Pacemaker

LEMMA Callers ==
    /\ \A n \in Node : <<n, Watchdog>> \in Proc
    /\ \A n \in Node, a \in Alerts : <<n, a>> \in Proc
    /\ \A x \in Proc : x[1] \in Node /\ x = <<x[1], x[2]>>
BY DEF Proc

LEMMA AlertsOK == bound \in Bounds => 1..bound.alerts \subseteq Alerts /\ Watchdog \notin Alerts
BY ZigbeeAssumption DEF Alerts, Watchdog

-----------------------------------------------------------------------------
(* Type correctness.                                                       *)

(* The resets of alerts end with the clean-up.                             *)
AlertsStop == \A n \in Node, a \in Alerts : pc[<<n, a>>] \notin {"ready", "restart"}

LEMMA BeginType ==
    ASSUME ZigbeeTypeOK, NEW x \in Proc, Begin(x)
    PROVE  /\ pc' \in [Proc -> Place]
           /\ AlertsStop'
           /\ old' \subseteq Proc
<1>1. Check(x) \in Place
  BY DEF Check, After, Place
<1>2. x[2] # Watchdog => Check(x) \notin {"ready", "restart"}
  BY DEF Check, After
<1>3. \A n \in Node, a \in Alerts : <<n, a>> \in Proc /\ <<n, a>>[2] # Watchdog
  BY Callers, AlertsOK DEF ZigbeeTypeOK
<1> QED
  BY <1>1, <1>2, <1>3 DEF Begin, ZigbeeTypeOK, AlertsStop

LEMMA AlertType ==
    ASSUME ZigbeeTypeOK, NEW n \in Node, Alert(n), UNCHANGED <<hang, bound>>
    PROVE  /\ pc' \in [Proc -> Place]
           /\ AlertsStop'
           /\ old' \subseteq Proc
           /\ storm' \in 0..Window
           /\ mishap' \in Nat /\ hang' + mishap' <= bound'.trouble
<1>1. storm' \in 0..Window
  BY DEF Alert
<1>2. CASE (\E x \in {n} \X (1..bound.alerts) : Begin(x)) /\ UNCHANGED mishap
  <2>1. PICK a \in Alerts : Begin(<<n, a>>)
    BY <1>2, AlertsOK DEF ZigbeeTypeOK
  <2> QED
    BY <1>1, <1>2, <2>1, Callers, BeginType DEF ZigbeeTypeOK
<1>3. CASE UNCHANGED <<pc, old, mishap>>
  BY <1>1, <1>3 DEF ZigbeeTypeOK, AlertsStop
<1>4. CASE Mishap /\ UNCHANGED <<pc, old>>
  <2>1. mishap' \in Nat /\ hang' + mishap' <= bound.trouble
    BY <1>4, ZigbeeAssumption DEF Mishap, ZigbeeTypeOK
  <2> QED
    BY <1>1, <1>4, <2>1 DEF ZigbeeTypeOK, AlertsStop
<1> QED
  BY <1>2, <1>3, <1>4 DEF Alert

LEMMA WorldType ==
    ASSUME ZigbeeTypeOK, WorldStep
    PROVE  ZigbeeTypeOK'
<1> USE ZigbeeAssumption DEF worldVars
<1>1. CASE Freeze
  BY <1>1 DEF Freeze, ZigbeeTypeOK, AlertsStop
<1>2. CASE Boot
  BY <1>2 DEF Boot, ZigbeeTypeOK, AlertsStop
<1>3. CASE Storm
  BY <1>3 DEF Storm, ZigbeeTypeOK, AlertsStop
<1>4. CASE Tick
  <2>1. storm' \in 0..Window /\ lock' \in [Node -> 0..Cooldown]
    BY <1>4 DEF Tick, Fewer, ZigbeeTypeOK, AlertsStop
  <2>2. cuts' \in [Node -> 0..MaxCuts]
    BY <1>4 DEF Tick, ZigbeeTypeOK, AlertsStop
  <2> QED
    BY <1>4, <2>1, <2>2 DEF Tick, ZigbeeTypeOK, AlertsStop
<1>5. ASSUME NEW n \in Node, StartZ2m(n) PROVE ZigbeeTypeOK'
  <2>1. CASE radio = "ok"
    BY <1>5, <2>1 DEF StartZ2m, ZigbeeTypeOK, AlertsStop
  <2>2. CASE radio # "ok"
    <3>1. Alert(n) /\ UNCHANGED <<at, fit, radio, lock, reentry, cuts, hang, bound>>
      BY <1>5, <2>2 DEF StartZ2m
    <3>2. banned' \subseteq Node
      BY <1>5, <2>2 DEF StartZ2m, ZigbeeTypeOK, AlertsStop
    <3> QED
      BY <3>1, <3>2, AlertType DEF ZigbeeTypeOK, AlertsStop
  <2> QED
    BY <2>1, <2>2
<1>6. ASSUME NEW n \in Node, MonitorFails(n) PROVE ZigbeeTypeOK'
  <2>1. Alert(n) /\ UNCHANGED <<fit, radio, lock, reentry, cuts, hang, bound>>
    BY <1>6 DEF MonitorFails
  <2>2. banned' \subseteq Node /\ at' = {}
    BY <1>6 DEF MonitorFails, ZigbeeTypeOK, AlertsStop
  <2> QED
    BY <2>1, <2>2, AlertType DEF ZigbeeTypeOK, AlertsStop
<1>7. ASSUME NEW n \in Node, Crash(n) PROVE ZigbeeTypeOK'
  <2>1. pc' \in [Proc -> Place] /\ AlertsStop'
    BY <1>7, Callers DEF Crash, Place, ZigbeeTypeOK, AlertsStop
  <2>2. mishap' \in Nat /\ hang' + mishap' <= bound.trouble
    BY <1>7 DEF Crash, Mishap, ZigbeeTypeOK, AlertsStop
  <2>3. lock' \in [Node -> 0..Cooldown] /\ cuts' \in [Node -> 0..MaxCuts]
    BY <1>7 DEF Crash, ZigbeeTypeOK, AlertsStop
  <2>4. old' \subseteq Proc /\ at' \subseteq at /\ banned' \subseteq Node /\ reentry' \subseteq Node
    BY <1>7 DEF Crash, ZigbeeTypeOK, AlertsStop
  <2>5. UNCHANGED <<radio, fit, storm, hang, bound>>
    BY <1>7 DEF Crash
  <2> QED
    BY <2>1, <2>2, <2>3, <2>4, <2>5 DEF ZigbeeTypeOK, AlertsStop
<1>8. ASSUME NEW n \in Node, Detect(n) PROVE ZigbeeTypeOK'
  BY <1>8, Callers, BeginType DEF Detect, ZigbeeTypeOK, AlertsStop
<1> QED
  BY <1>1, <1>2, <1>3, <1>4, <1>5, <1>6, <1>7, <1>8 DEF WorldStep

LEMMA GotoType ==
    ASSUME ZigbeeTypeOK, NEW x \in Proc, NEW from \in Place, NEW to \in Place, Goto(x, from, to),
           x[2] # Watchdog => to \notin {"ready", "restart"}
    PROVE  /\ pc' \in [Proc -> Place]
           /\ AlertsStop'
<1>1. \A n \in Node, a \in Alerts : <<n, a>> \in Proc /\ <<n, a>>[2] # Watchdog
  BY Callers, AlertsOK DEF ZigbeeTypeOK, AlertsStop
<1> QED
  BY <1>1 DEF Goto, ZigbeeTypeOK, AlertsStop

LEMMA ScriptType ==
    ASSUME ZigbeeTypeOK, NEW x \in Proc, ScriptStep(x)
    PROVE  ZigbeeTypeOK'
<1> USE ZigbeeAssumption, Callers DEF worldVars, Mishap
<1>1. CASE Write(x)
  <2>1. pc' \in [Proc -> Place] /\ AlertsStop'
    BY <1>1, GotoType DEF Write, Place
  <2>2. lock' \in [Node -> 0..Cooldown]
    BY <1>1 DEF Write, ZigbeeTypeOK, AlertsStop
  <2>3. mishap' \in Nat /\ hang' + mishap' <= bound.trouble
    BY <1>1 DEF Write, ZigbeeTypeOK, AlertsStop
  <2> QED
    BY <1>1, <2>1, <2>2, <2>3 DEF Write, ZigbeeTypeOK, AlertsStop
<1>2. CASE CycleOff(x)
  <2>1. pc' \in [Proc -> Place] /\ AlertsStop'
    BY <1>2, GotoType DEF CycleOff, Place
  <2>2. cuts' \in [Node -> 0..MaxCuts]
    BY <1>2 DEF CycleOff, ZigbeeTypeOK, AlertsStop
  <2>3. mishap' \in Nat /\ hang' + mishap' <= bound.trouble /\ UNCHANGED hang
    BY <1>2 DEF CycleOff, ZigbeeTypeOK, AlertsStop
  <2>4. radio' \in {"ok", "hung", "off", "booting"} /\ fit' \in BOOLEAN
    BY <1>2 DEF CycleOff, ZigbeeTypeOK, AlertsStop
  <2>5. UNCHANGED <<at, banned, storm, lock, reentry, old, bound>>
    BY <1>2 DEF CycleOff
  <2> QED
    BY <2>1, <2>2, <2>3, <2>4, <2>5 DEF ZigbeeTypeOK, AlertsStop
<1>3. CASE CycleOn(x)
  <2>1. pc' \in [Proc -> Place] /\ AlertsStop'
    BY <1>3, GotoType DEF CycleOn, Place
  <2> QED
    BY <1>3, <2>1 DEF CycleOn, ZigbeeTypeOK, AlertsStop
<1>4. CASE WaitBoot(x)
  <2>1. pc' \in [Proc -> Place] /\ AlertsStop'
    BY <1>4, GotoType DEF WaitBoot, Place
  <2> QED
    BY <1>4, <2>1 DEF WaitBoot, WaitOver, ZigbeeTypeOK, AlertsStop
<1>5. CASE CleanUp(x)
  <2>1. After(x) \in Place /\ (x[2] # Watchdog => After(x) \notin {"ready", "restart"}) /\ "cleanup" \in Place
    BY DEF After, Place
  <2>2. pc' \in [Proc -> Place] /\ AlertsStop'
    BY <1>5, <2>1, GotoType DEF CleanUp
  <2> QED
    BY <1>5, <2>2 DEF CleanUp, ZigbeeTypeOK, AlertsStop
<1>6. CASE Ready(x)
  <2>1. pc[x] = "ready" /\ "ready" \in Place /\ "restart" \in Place
    BY <1>6 DEF Ready, Goto, Place
  <2>2. x[2] = Watchdog
    BY <2>1 DEF ZigbeeTypeOK, Proc
  <2>3. pc' \in [Proc -> Place] /\ AlertsStop'
    BY <1>6, <2>1, <2>2, GotoType DEF Ready
  <2> QED
    BY <1>6, <2>3 DEF Ready, WaitOver, ZigbeeTypeOK, AlertsStop
<1>7. CASE Restart(x)
  <2>1. pc' \in [Proc -> Place] /\ AlertsStop'
    BY <1>7, GotoType DEF Restart, Place
  <2> QED
    BY <1>7, <2>1 DEF Restart, ZigbeeTypeOK, AlertsStop
<1> QED
  BY <1>1, <1>2, <1>3, <1>4, <1>5, <1>6, <1>7 DEF ScriptStep

LEMMA KillType ==
    ASSUME ZigbeeTypeOK, NEW x \in Proc, Kill(x)
    PROVE  ZigbeeTypeOK'
<1>1. pc' \in [Proc -> Place] /\ AlertsStop'
  BY Callers DEF Kill, ZigbeeTypeOK, AlertsStop, Place
<1>2. mishap' \in Nat /\ hang' + mishap' <= bound'.trouble
  BY ZigbeeAssumption DEF Kill, Mishap, ZigbeeTypeOK
<1> QED
  BY <1>1, <1>2 DEF Kill, ZigbeeTypeOK, AlertsStop, worldVars

LEMMA InitType == ZigbeeInit => ZigbeeTypeOK
<1>1. (CHOOSE n \in Node : TRUE) \in Node
  BY ZigbeeAssumption
<1> SUFFICES ASSUME ZigbeeInit PROVE ZigbeeTypeOK
  OBVIOUS
<1>2. at \subseteq Node /\ \A m, n \in at : m = n
  BY <1>1 DEF ZigbeeInit
<1>3. lock \in [Node -> 0..Cooldown] /\ cuts \in [Node -> 0..MaxCuts]
  BY ZigbeeAssumption DEF ZigbeeInit
<1>4. pc \in [Proc -> Place] /\ \A n \in Node, a \in Alerts : pc[<<n, a>>] = "idle"
  BY Callers DEF ZigbeeInit, Place
<1> QED
  BY <1>2, <1>3, <1>4, ZigbeeAssumption DEF ZigbeeInit, ZigbeeTypeOK

(* Every reachable state has the shape ZigbeeTypeOK gives: in particular   *)
(* z2m runs on one node at most and an alert never restarts it.            *)
THEOREM ZigbeeTypeCorrect == ZigbeeSpec => []ZigbeeTypeOK
<1>1. ZigbeeTypeOK /\ [ZigbeeNext]_zigbeeVars => ZigbeeTypeOK'
  <2> SUFFICES ASSUME ZigbeeTypeOK, [ZigbeeNext]_zigbeeVars PROVE ZigbeeTypeOK'
    OBVIOUS
  <2>1. CASE ZigbeeNext
    BY <2>1, NextSplits, WorldType, ScriptType, KillType
  <2>2. CASE UNCHANGED zigbeeVars
    BY <2>2 DEF zigbeeVars, worldVars, ZigbeeTypeOK
  <2> QED
    BY <2>1, <2>2
<1> QED
  BY <1>1, InitType, PTL DEF ZigbeeSpec

-----------------------------------------------------------------------------
(* The coordinator is not left without power.                              *)

(* DownInHand with what keeps it so: whoever gives the power back is there *)
(* while it is off, whoever waits for the boot while the radio boots.      *)
HandInv ==
    mishap = 0 =>
        /\ radio = "off" => \E x \in Proc : pc[x] = "on"
        /\ radio = "booting" => \E x \in Proc : pc[x] \in {"on", "boot"}

LEMMA HandSame ==
    ASSUME ZigbeeTypeOK, HandInv, radio' \in {radio, "ok", "hung"}, mishap = 0 \/ mishap' # 0,
           mishap' # 0 \/ \A x \in Proc : pc[x] \in {"on", "boot"} => pc'[x] = pc[x]
    PROVE  HandInv'
BY DEF HandInv, ZigbeeTypeOK

LEMMA HandBegin ==
    ASSUME ZigbeeTypeOK, HandInv, UNCHANGED <<radio, mishap>>, NEW x \in Proc, Begin(x)
    PROVE  HandInv'
<1>1. \A y \in Proc : pc[y] \in {"on", "boot"} => pc'[y] = pc[y]
  BY DEF Begin, ZigbeeTypeOK
<1> QED
  BY <1>1, HandSame DEF HandInv

LEMMA HandWorld ==
    ASSUME ZigbeeTypeOK, HandInv, WorldStep
    PROVE  HandInv'
<1>1. CASE Freeze \/ Boot \/ Storm \/ Tick
  BY <1>1 DEF Freeze, Boot, Storm, Tick, HandInv
<1>2. ASSUME NEW n \in Node, Alert(n), UNCHANGED radio PROVE HandInv'
  <2>1. CASE (\E x \in {n} \X (1..bound.alerts) : Begin(x)) /\ UNCHANGED mishap
    <3>1. PICK a \in Alerts : Begin(<<n, a>>)
      BY <2>1, AlertsOK DEF ZigbeeTypeOK
    <3> QED
      BY <1>2, <2>1, <3>1, Callers, HandBegin
  <2>2. CASE UNCHANGED <<pc, mishap>>
    BY <1>2, <2>2 DEF HandInv
  <2>3. CASE Mishap
    BY <2>3 DEF Mishap, HandInv, ZigbeeTypeOK
  <2> QED
    BY <1>2, <2>1, <2>2, <2>3 DEF Alert
<1>3. ASSUME NEW n \in Node, StartZ2m(n) PROVE HandInv'
  BY <1>2, <1>3 DEF StartZ2m, HandInv
<1>4. ASSUME NEW n \in Node, MonitorFails(n) PROVE HandInv'
  BY <1>2, <1>4 DEF MonitorFails
<1>5. ASSUME NEW n \in Node, Crash(n) PROVE HandInv'
  BY <1>5 DEF Crash, Mishap, HandInv, ZigbeeTypeOK
<1>6. ASSUME NEW n \in Node, Detect(n) PROVE HandInv'
  BY <1>6, Callers, HandBegin DEF Detect, worldVars
<1> QED
  BY <1>1, <1>3, <1>4, <1>5, <1>6 DEF WorldStep

LEMMA HandScript ==
    ASSUME ZigbeeTypeOK, HandInv, NEW x \in Proc, ScriptStep(x)
    PROVE  HandInv'
<1>0. CASE Mishap
  BY <1>0 DEF Mishap, HandInv, ZigbeeTypeOK
<1>1. CASE CycleOff(x) /\ ~Mishap
  <2>1. pc'[x] = "on"
    BY <1>1 DEF CycleOff, Goto, ZigbeeTypeOK
  <2> QED
    BY <2>1 DEF HandInv
<1>2. CASE CycleOn(x) /\ ~Mishap
  <2>1. pc'[x] = "boot" /\ radio' # "off"
    BY <1>2 DEF CycleOn, Goto, ZigbeeTypeOK
  <2> QED
    BY <2>1 DEF HandInv
<1>3. CASE WaitBoot(x) /\ ~Mishap
  <2>1. UNCHANGED <<radio, mishap>> /\ radio # "booting"
    BY <1>3 DEF WaitBoot, WaitOver, BridgeUp, worldVars
  <2>2. \A y \in Proc : pc[y] = "on" => pc'[y] = "on"
    BY <1>3 DEF WaitBoot, Goto, ZigbeeTypeOK
  <2> QED
    BY <2>1, <2>2 DEF HandInv
<1>4. CASE ~Mishap /\ (Write(x) \/ CleanUp(x) \/ Ready(x) \/ Restart(x))
  <2>1. UNCHANGED <<radio, mishap>>
    BY <1>4 DEF Write, CleanUp, Ready, WaitOver, Restart, worldVars
  <2>2. \A y \in Proc : pc[y] \in {"on", "boot"} => pc'[y] = pc[y]
    BY <1>4 DEF Write, CleanUp, Ready, Restart, Goto, ZigbeeTypeOK
  <2> QED
    BY <2>1, <2>2 DEF HandInv
<1> QED
  BY <1>0, <1>1, <1>2, <1>3, <1>4 DEF ScriptStep

LEMMA HandKill ==
    ASSUME ZigbeeTypeOK, HandInv, NEW x \in Proc, Kill(x)
    PROVE  HandInv'
<1>1. CASE Mishap
  BY <1>1 DEF Mishap, HandInv, ZigbeeTypeOK
<1>2. CASE ~Mishap
  <2>1. pc[x] = "ready" /\ UNCHANGED <<radio, mishap>>
    BY <1>2 DEF Kill, worldVars
  <2>2. \A y \in Proc : pc[y] \in {"on", "boot"} => pc'[y] = pc[y]
    BY <2>1 DEF Kill, ZigbeeTypeOK
  <2> QED
    BY <2>1, <2>2 DEF HandInv
<1> QED
  BY <1>1, <1>2

(* However many resets of however many nodes work on the one port, the     *)
(* coordinator is down only while a reset is there to bring it back, as    *)
(* long as nothing goes wrong (DownInHand).                                *)
THEOREM PowerComesBack == ZigbeeSpec => []DownInHand
<1>1. ZigbeeInit => HandInv
  BY DEF ZigbeeInit, HandInv
<1>2. ZigbeeTypeOK /\ HandInv /\ [ZigbeeNext]_zigbeeVars => HandInv'
  <2> SUFFICES ASSUME ZigbeeTypeOK, HandInv, [ZigbeeNext]_zigbeeVars PROVE HandInv'
    OBVIOUS
  <2>1. CASE ZigbeeNext
    BY <2>1, NextSplits, HandWorld, HandScript, HandKill
  <2>2. CASE UNCHANGED zigbeeVars
    BY <2>2 DEF zigbeeVars, worldVars, HandInv
  <2> QED
    BY <2>1, <2>2
<1>3. ZigbeeTypeOK /\ HandInv => DownInHand
  BY DEF HandInv, DownInHand, BridgeUp, ZigbeeTypeOK
<1> QED
  BY <1>1, <1>2, <1>3, ZigbeeTypeCorrect, PTL DEF ZigbeeSpec
=============================================================================
