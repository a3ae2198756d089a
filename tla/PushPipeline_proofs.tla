------------------------ MODULE PushPipeline_proofs -------------------------
(***************************************************************************)
(* Theorems about PushPipeline for every set of devices, lines and         *)
(* pipelines, every bound and every choice of its parameters.              *)
(***************************************************************************)
EXTENDS PushPipeline, TLAPS

-----------------------------------------------------------------------------
(* Type correctness.                                                       *)

LEMMA InitType == PushInit => PushTypeOK
<1> SUFFICES ASSUME PushInit PROVE PushTypeOK
  OBVIOUS
<1>1. FleetTypeOK
  <2>1. FleetInit
    BY DEF PushInit
  <2>2. ssh \in 0..MaxSsh
    BY <2>1, FleetAssumption DEF FleetInit
  <2> QED
    BY <2>1, <2>2 DEF FleetInit, FleetTypeOK
<1>2. Blank \in Tree /\ NoSess \in [Dev -> Step] /\ {} \in Config
  BY DEF Blank, NoSess, Tree, Config, Step
<1> QED
  BY <1>1, <1>2 DEF PushInit, PushTypeOK, Stage

(* What a session step leaves behind is of the right type: Finish and      *)
(* Continue, whatever the step did to the device.                          *)
LEMMA FinishType ==
    ASSUME PushTypeOK, NEW p \in Pipe, NEW d \in Dev, NEW ok \in BOOLEAN,
           Finish(p, d, ok), running' \in Tree, startup' \in Tree
    PROVE  PushTypeOK'
BY DEF Finish, PushTypeOK, FleetTypeOK, gitVars, Tree, Config, Stage, Step

LEMMA ContinueType ==
    ASSUME PushTypeOK, NEW p \in Pipe, NEW d \in Dev, NEW step \in Step,
           Continue(p, d, step), running' \in Tree, startup' \in Tree
    PROVE  PushTypeOK'
BY DEF Continue, PushTypeOK, FleetTypeOK, gitVars, Tree, Config, Stage, Step

(* A remediated configuration is a configuration.                          *)
LEMMA RemediatedType ==
    ASSUME PushTypeOK, NEW p \in Pipe, NEW d \in Dev
    PROVE  /\ ToAdd(p, d) \in Config
           /\ ToRemove(p, d) \in Config
           /\ Remediated(p, d) \in Config
BY DEF ToAdd, ToRemove, Remediated, Entered, PushTypeOK, FleetTypeOK, Tree, Config

LEMMA NextType == PushTypeOK /\ [PushNext]_pushVars => PushTypeOK'
<1> SUFFICES ASSUME PushTypeOK, [PushNext]_pushVars PROVE PushTypeOK'
  OBVIOUS
<1> USE DEF Stage, Step
<1>1. ASSUME NEW p \in Pipe, JobsStep(p) PROVE PushTypeOK'
  <2>1. CASE Push(p)
    <3>1. PICK mid \in Tree, new \in Tree :
            /\ Commit(mid, new)
            /\ head' = [head EXCEPT ![p] = new]
            /\ prev' = [prev EXCEPT ![p] = mid]
            /\ todo' = [todo EXCEPT ![p] = {d \in Dev : new[d] # mid[d]}]
      BY <2>1 DEF Push
    <3>2. main' \in Tree /\ recorded' \in Tree
      BY <3>1 DEF Commit, Tree, Config, PushTypeOK, FleetTypeOK
    <3>3. head' \in [Pipe -> Tree] /\ prev' \in [Pipe -> Tree]
      BY <3>1 DEF PushTypeOK
    <3>4. todo' \in [Pipe -> SUBSET Dev]
      BY <3>1 DEF PushTypeOK
    <3> QED
      BY <2>1, <3>2, <3>3, <3>4 DEF Push, PushTypeOK, FleetTypeOK, deviceVars
  <2>2. CASE \/ ValidationFails(p) \/ DeployVerdict(p) \/ Abandon(p)
    BY <2>2 DEF ValidationFails, DeployVerdict, Abandon, PushTypeOK, FleetTypeOK, fleetVars
  <2>3. CASE \/ GateVerdict(p) \/ DiffVerdict(p)
           \/ GateRetry(p) \/ DiffRetry(p) \/ DeployRetry(p)
    <3>1. Changed(p) \in SUBSET Dev /\ {} \in SUBSET Dev
      BY DEF Changed
    <3>2. stage' \in [Pipe -> Stage]
      BY <2>3 DEF GateVerdict, DiffVerdict, GateRetry, DiffRetry, DeployRetry, PushTypeOK
    <3>3. \E left \in SUBSET Dev : todo' = [todo EXCEPT ![p] = left]
      BY <2>3, <3>1 DEF GateVerdict, DiffVerdict, GateRetry, DiffRetry, DeployRetry
    <3>4. todo' \in [Pipe -> SUBSET Dev]
      BY <3>3 DEF PushTypeOK
    <3> QED
      BY <2>3, <3>2, <3>4
      DEF GateVerdict, DiffVerdict, GateRetry, DiffRetry, DeployRetry, PushTypeOK,
         FleetTypeOK, fleetVars
  <2> QED
    BY <1>1, <2>1, <2>2, <2>3 DEF JobsStep
<1>2. ASSUME NEW p \in Pipe, NEW d \in Dev, DeviceStep(p, d) PROVE PushTypeOK'
  <2>1. CASE GateCheck(p, d)
    BY <2>1 DEF GateCheck, PushTypeOK, FleetTypeOK, fleetVars
  <2>2. CASE GenerateDiff(p, d)
    BY <2>2 DEF GenerateDiff, PushTypeOK, FleetTypeOK, fleetVars, Tree, Config
  <2>3. CASE DeployConnect(p, d)
    BY <2>3 DEF DeployConnect, PushTypeOK, FleetTypeOK, fleetVars, Tree, Config
  <2>4. CASE NapalmCompare(p, d)
    BY <2>4, FinishType, ContinueType DEF NapalmCompare, deviceVars, PushTypeOK, FleetTypeOK
  <2>5. CASE NapalmCommit(p, d)
    <3>1. running' \in Tree /\ startup' \in Tree
      BY <2>5, RemediatedType DEF NapalmCommit, PushTypeOK, FleetTypeOK, Tree
    <3> QED
      BY <2>5, <3>1, FinishType DEF NapalmCommit
  <2>6. CASE AsaApply(p, d)
    <3>1. running' \in Tree /\ startup' \in Tree
      BY <2>6, RemediatedType DEF AsaApply, PushTypeOK, FleetTypeOK, Tree
    <3> QED
      BY <2>6, <3>1, ContinueType DEF AsaApply
  <2>7. CASE AsaApplyRefused(p, d)
    <3>1. running' \in Tree /\ startup' \in Tree
      BY <2>7, RemediatedType
      DEF AsaApplyRefused, Entered, PushTypeOK, FleetTypeOK, Tree, Config
    <3> QED
      BY <2>7, <3>1, ContinueType DEF AsaApplyRefused
  <2>8. CASE AsaSave(p, d)
    <3>1. running' \in Tree /\ startup' \in Tree
      BY <2>8 DEF AsaSave, Save, PushTypeOK, FleetTypeOK, Tree
    <3> QED
      BY <2>8, <3>1, FinishType DEF AsaSave
  <2>9. CASE AsaRollback(p, d)
    <3>1. running[d] \cup backup[p] \in Config
      BY DEF PushTypeOK, FleetTypeOK, Tree, Config
    <3>2. running' \in Tree /\ startup' \in Tree
      BY <2>9, <3>1 DEF AsaRollback, Save, PushTypeOK, FleetTypeOK, Tree
    <3> QED
      BY <2>9, <3>2, FinishType DEF AsaRollback
  <2> QED
    BY <1>2, <2>1, <2>2, <2>3, <2>4, <2>5, <2>6, <2>7, <2>8, <2>9 DEF DeviceStep
<1>3. ASSUME NEW p \in Pipe, NEW d \in Dev, DeviceFails(p, d) PROVE PushTypeOK'
  <2>1. CASE GateError(p, d) \/ GenerateDiffFails(p, d)
    BY <2>1 DEF GateError, GenerateDiffFails, PushTypeOK, FleetTypeOK, fleetVars
  <2>2. CASE DeployNothing(p, d) \/ DeployConnectFails(p, d)
    BY <2>2, FinishType DEF DeployNothing, DeployConnectFails, deviceVars, PushTypeOK, FleetTypeOK
  <2>3. CASE NapalmException(p, d)
    <3>1. /\ running' \in {running, [running EXCEPT ![d] = Remediated(p, d)]}
          /\ startup' \in {startup, [startup EXCEPT ![d] = Remediated(p, d)]}
          /\ Finish(p, d, FALSE)
      BY <2>3 DEF NapalmException, deviceVars
    <3>2. /\ [running EXCEPT ![d] = Remediated(p, d)] \in Tree
          /\ [startup EXCEPT ![d] = Remediated(p, d)] \in Tree
      BY RemediatedType DEF PushTypeOK, FleetTypeOK, Tree
    <3>3. running' \in Tree /\ startup' \in Tree
      BY <3>1, <3>2 DEF PushTypeOK, FleetTypeOK
    <3> QED
      BY <3>1, <3>3, FinishType
  <2>4. CASE AsaRollbackRefused(p, d)
    <3>1. running' \in Tree /\ startup' \in Tree
      BY <2>4 DEF AsaRollbackRefused, PushTypeOK, FleetTypeOK, Tree, Config
    <3> QED
      BY <2>4, <3>1, FinishType DEF AsaRollbackRefused
  <2>5. CASE AsaLost(p, d)
    <3>1. running' \in Tree /\ startup' \in Tree
      BY <2>5, RemediatedType DEF AsaLost, Entered, PushTypeOK, FleetTypeOK, Tree, Config
    <3> QED
      BY <2>5, <3>1, FinishType DEF AsaLost
  <2> QED
    BY <1>3, <2>1, <2>2, <2>3, <2>4, <2>5 DEF DeviceFails
<1>4. ASSUME NEW d \in Dev, HandsOn(d) PROVE PushTypeOK'
  <2>1. CASE SshEdit(d)
    <3>1. running' \in Tree
      BY <2>1 DEF SshEdit, PushTypeOK, FleetTypeOK, Tree, Config
    <3>2. startup' \in Tree
      BY <2>1, <3>1 DEF SshEdit, PushTypeOK, FleetTypeOK, Tree
    <3>3. ssh' \in 0..MaxSsh
      BY <2>1, FleetAssumption DEF SshEdit, PushTypeOK, FleetTypeOK
    <3> QED
      BY <1>4, <2>1, <3>1, <3>2, <3>3
      DEF HandsOn, SshEdit, PushTypeOK, FleetTypeOK, gitVars, pipeVars
  <2>2. CASE Reload(d)
    BY <1>4, <2>2 DEF HandsOn, Reload, PushTypeOK, FleetTypeOK, gitVars, pipeVars, Tree
  <2> QED
    BY <1>4, <2>1, <2>2 DEF HandsOn
<1>5. CASE UNCHANGED pushVars
  BY <1>5 DEF pushVars, pipeVars, fleetVars, PushTypeOK, FleetTypeOK
<1> QED
  BY <1>1, <1>2, <1>3, <1>4, <1>5 DEF PushNext

(* In every behaviour the state has its type.                              *)
THEOREM TypeCorrect == PushSpec => []PushTypeOK
<1>1. PushInit => PushTypeOK
  BY InitType
<1>2. PushTypeOK /\ [PushNext]_pushVars => PushTypeOK'
  BY NextType
<1> QED
  BY <1>1, <1>2, PTL DEF PushSpec

-----------------------------------------------------------------------------
(* How the jobs go through their devices, whatever the site is like.       *)

(* A step of a pipeline with one of its devices.                           *)
AtDevice(p, d) == DeviceStep(p, d) \/ DeviceFails(p, d)

HeadRecorded(p, d) == head[p][d] \cup prev[p][d] \subseteq recorded[d]

(* A job has left to do only devices of the commit, a pipeline has at most *)
(* one session, with a device the deploy job is not through with, and its  *)
(* commit is on record.                                                    *)
LoopInv ==
    /\ \A p \in Pipe : Active(p) => todo[p] \subseteq Changed(p)
    /\ \A p \in Pipe, d \in Dev :
         sess[p][d] # "none" => stage[p] = "deploy" /\ d \in todo[p]
    /\ \A p \in Pipe, d, e \in Dev :
         sess[p][d] # "none" /\ sess[p][e] # "none" => d = e
    /\ \A p \in Pipe, d \in Dev : stage[p] # "idle" => HeadRecorded(p, d)

(* What a step with a device leaves alone: the other pipelines, and the    *)
(* other devices.                                                          *)
LEMMA DeviceFrame ==
    ASSUME PushTypeOK, NEW p \in Pipe, NEW d \in Dev, AtDevice(p, d)
    PROVE  /\ UNCHANGED <<main, recorded, tip, ssh, stage, head, prev>>
           /\ \A q \in Pipe \ {p} :
                /\ todo'[q] = todo[q]
                /\ flag'[q] = flag[q]
                /\ base'[q] = base[q]
                /\ sess'[q] = sess[q]
                /\ backup'[q] = backup[q]
           /\ \A e \in Dev \ {d} :
                /\ running'[e] = running[e]
                /\ base'[p][e] = base[p][e]
                /\ sess'[p][e] = sess[p][e]
           /\ todo'[p] \in {todo[p], todo[p] \ {d}}
           /\ flag[p] => flag'[p]
           /\ backup'[p] = backup[p] \/ sess[p] = NoSess \/ sess[p][d] # "none"
<1> USE DEF PushTypeOK, FleetTypeOK, Tree, fleetVars, gitVars, deviceVars, InTurn
<1>1. CASE \/ GateCheck(p, d) \/ GateError(p, d) \/ GenerateDiff(p, d)
           \/ GenerateDiffFails(p, d) \/ DeployConnect(p, d)
  BY <1>1 DEF GateCheck, GateError, GenerateDiff, GenerateDiffFails, DeployConnect
<1>2. CASE DeployNothing(p, d) \/ DeployConnectFails(p, d)
  BY <1>2 DEF DeployNothing, DeployConnectFails, Finish
<1>3. CASE \/ NapalmCompare(p, d) \/ NapalmCommit(p, d) \/ NapalmException(p, d)
           \/ AsaApply(p, d) \/ AsaApplyRefused(p, d) \/ AsaSave(p, d)
           \/ AsaRollback(p, d) \/ AsaRollbackRefused(p, d) \/ AsaLost(p, d)
  <2>1. sess[p][d] # "none"
    BY <1>3 DEF NapalmCompare, NapalmCommit, NapalmException, AsaApply, AsaApplyRefused,
       AsaSave, AsaRollback, AsaRollbackRefused, AsaLost
  <2>2. running' = running \/ \E cfg : running' = [running EXCEPT ![d] = cfg]
    BY <1>3 DEF NapalmCompare, NapalmCommit, NapalmException, AsaApply, AsaApplyRefused,
       AsaSave, AsaRollback, AsaRollbackRefused, AsaLost
  <2>3. \/ \E ok \in BOOLEAN : Finish(p, d, ok)
        \/ \E step \in Step : Continue(p, d, step)
    BY <1>3 DEF NapalmCompare, NapalmCommit, NapalmException, AsaApply, AsaApplyRefused,
       AsaSave, AsaRollback, AsaRollbackRefused, AsaLost, Step
  <2> QED
    BY <2>1, <2>2, <2>3 DEF Finish, Continue
<1> QED
  BY <1>1, <1>2, <1>3 DEF AtDevice, DeviceStep, DeviceFails

(* A pipeline only works on devices of its commit that are still to do.    *)
LEMMA AtWork ==
    ASSUME PushTypeOK, LoopInv, NEW p \in Pipe, NEW d \in Dev, AtDevice(p, d)
    PROVE  /\ stage[p] \in {"gate", "diff", "deploy"}
           /\ Active(p) /\ d \in todo[p] /\ d \in Changed(p)
<1>1. stage[p] \in {"gate", "diff", "deploy"} /\ d \in todo[p]
  BY DEF AtDevice, DeviceStep, DeviceFails, GateCheck, GateError, GenerateDiff,
     GenerateDiffFails, DeployConnect, DeployNothing, DeployConnectFails, InTurn,
     NapalmCompare, NapalmCommit, NapalmException, AsaApply, AsaApplyRefused, AsaSave,
     AsaRollback, AsaRollbackRefused, AsaLost, LoopInv
<1> QED
  BY <1>1 DEF Active, LoopInv

(* A device is changed in a session with it only.                          *)
LEMMA ChangedInSession ==
    ASSUME PushTypeOK, NEW p \in Pipe, NEW d \in Dev, AtDevice(p, d), sess[p][d] = "none"
    PROVE  running' = running
BY DEF AtDevice, DeviceStep, DeviceFails, GateCheck, GateError, GenerateDiff,
   GenerateDiffFails, DeployConnect, DeployNothing, DeployConnectFails, NapalmCompare,
   NapalmCommit, NapalmException, AsaApply, AsaApplyRefused, AsaSave, AsaRollback,
   AsaRollbackRefused, AsaLost, fleetVars, deviceVars

(* A session is opened for a device whose turn it is.                      *)
LEMMA SessionOpens ==
    ASSUME PushTypeOK, LoopInv, NEW p \in Pipe, NEW d \in Dev, AtDevice(p, d),
           sess'[p][d] # "none"
    PROVE  \/ DeployConnect(p, d)
           \/ sess[p][d] # "none" /\ backup'[p] = backup[p] /\ todo'[p] = todo[p]
<1> USE DEF PushTypeOK
<1>1. CASE \/ GateCheck(p, d) \/ GateError(p, d) \/ GenerateDiff(p, d)
           \/ GenerateDiffFails(p, d)
  BY <1>1 DEF GateCheck, GateError, GenerateDiff, GenerateDiffFails, LoopInv
<1>2. CASE \E ok \in BOOLEAN : Finish(p, d, ok)
  BY <1>2 DEF Finish
<1>3. CASE \/ NapalmCompare(p, d) \/ AsaApply(p, d) \/ AsaApplyRefused(p, d)
  BY <1>2, <1>3 DEF NapalmCompare, AsaApply, AsaApplyRefused, Continue
<1> QED
  BY <1>1, <1>2, <1>3 DEF AtDevice, DeviceStep, DeviceFails, DeployNothing,
     DeployConnectFails, NapalmCommit, NapalmException, AsaSave, AsaRollback,
     AsaRollbackRefused, AsaLost

LEMMA InitLoop == PushInit => LoopInv
BY DEF PushInit, LoopInv, Active, NoSess

LEMMA NextLoop ==
    ASSUME PushTypeOK, LoopInv, [PushNext]_pushVars
    PROVE  LoopInv'
<1>1. ASSUME NEW p \in Pipe, NEW d \in Dev, AtDevice(p, d) PROVE LoopInv'
  <2>1. \A q \in Pipe : Active(q)' = Active(q) /\ Changed(q)' = Changed(q)
    BY <1>1, DeviceFrame DEF Active, Changed
  <2>2. \A q \in Pipe : todo'[q] \subseteq todo[q]
    BY <1>1, DeviceFrame
  <2>3. ASSUME NEW q \in Pipe, NEW e \in Dev, sess'[q][e] # "none"
        PROVE  stage'[q] = "deploy" /\ e \in todo'[q]
    <3>1. CASE q = p /\ e = d
      BY <1>1, <2>3, <3>1, SessionOpens, DeviceFrame DEF LoopInv, DeployConnect, InTurn
    <3>2. CASE ~(q = p /\ e = d)
      <4>1. sess[q][e] # "none"
        BY <1>1, <2>3, <3>2, DeviceFrame
      <4>2. e \in todo'[q]
        BY <1>1, <3>2, <4>1, DeviceFrame DEF LoopInv
      <4> QED
        BY <1>1, <4>1, <4>2, DeviceFrame DEF LoopInv
    <3> QED
      BY <3>1, <3>2
  <2>4. ASSUME NEW q \in Pipe, NEW e \in Dev, NEW f \in Dev,
               sess'[q][e] # "none", sess'[q][f] # "none"
        PROVE  e = f
    <3>1. CASE DeployConnect(p, d)
      <4>1. sess[p] = NoSess
        BY <3>1 DEF DeployConnect, InTurn
      <4> QED
        BY <1>1, <2>4, <4>1, DeviceFrame DEF LoopInv, NoSess
    <3>2. CASE ~DeployConnect(p, d)
      BY <1>1, <2>4, <3>2, SessionOpens, DeviceFrame DEF LoopInv
    <3> QED
      BY <3>1, <3>2
  <2>5. \A q \in Pipe, e \in Dev : stage'[q] # "idle" => HeadRecorded(q, e)'
    BY <1>1, DeviceFrame DEF LoopInv, HeadRecorded
  <2> QED
    BY <2>1, <2>2, <2>3, <2>4, <2>5 DEF LoopInv
<1>2. ASSUME NEW p \in Pipe, JobsStep(p) PROVE LoopInv'
  <2>1. CASE Push(p)
    <3>1. PICK mid \in Tree, new \in Tree :
            /\ Commit(mid, new)
            /\ head' = [head EXCEPT ![p] = new]
            /\ prev' = [prev EXCEPT ![p] = mid]
            /\ todo' = [todo EXCEPT ![p] = {d \in Dev : new[d] # mid[d]}]
      BY <2>1 DEF Push
    <3>2. stage[p] = "idle" /\ stage' = [stage EXCEPT ![p] = "gate"] /\ sess' = sess
      BY <2>1 DEF Push
    <3>3. \A d \in Dev : recorded'[d] = recorded[d] \cup mid[d] \cup new[d]
      BY <3>1 DEF Commit
    <3>4. \A q \in Pipe, e \in Dev : stage'[q] # "idle" => HeadRecorded(q, e)'
      BY <3>1, <3>2, <3>3 DEF PushTypeOK, LoopInv, HeadRecorded
    <3> QED
      BY <3>1, <3>2, <3>4 DEF PushTypeOK, LoopInv, Active, Changed
  <2>2. CASE \/ GateVerdict(p) \/ DiffVerdict(p)
             \/ GateRetry(p) \/ DiffRetry(p) \/ DeployRetry(p)
    <3>1. /\ UNCHANGED <<head, prev, sess, recorded>>
          /\ stage[p] \notin {"deploy", "idle"} /\ todo'[p] \subseteq Changed(p)
          /\ \A q \in Pipe \ {p} : stage'[q] = stage[q] /\ todo'[q] = todo[q]
      BY <2>2 DEF GateVerdict, DiffVerdict, GateRetry, DiffRetry, DeployRetry, PushTypeOK,
         LoopInv, fleetVars
    <3> QED
      BY <3>1 DEF LoopInv, Active, Changed, HeadRecorded
  <2>3. CASE ValidationFails(p) \/ DeployVerdict(p) \/ Abandon(p)
    <3>1. /\ UNCHANGED <<head, prev, sess, todo, recorded>>
          /\ stage[p] = "deploy" => todo[p] = {}
          /\ Active(p)
          /\ \A q \in Pipe \ {p} : stage'[q] = stage[q]
      BY <2>3 DEF ValidationFails, DeployVerdict, Abandon, PushTypeOK, Active, fleetVars
    <3> QED
      BY <3>1 DEF LoopInv, Active, Changed, HeadRecorded
  <2> QED
    BY <1>2, <2>1, <2>2, <2>3 DEF JobsStep
<1>3. CASE UNCHANGED <<pipeVars, recorded>>
  BY <1>3 DEF pipeVars, LoopInv, Active, Changed, HeadRecorded
<1> QED
  BY <1>1, <1>2, <1>3
  DEF PushNext, AtDevice, HandsOn, SshEdit, Reload, gitVars, pushVars, fleetVars

LEMMA LoopCorrect == PushSpec => []LoopInv
BY InitLoop, NextLoop, TypeCorrect, PTL DEF PushSpec

-----------------------------------------------------------------------------
(* What a step with a device can do to it, in any site: the remediation    *)
(* adds lines of HEAD and negates lines that are not in it, whatever the   *)
(* device runs by now, and a rollback only adds.                           *)

(* What the step may do to d's running-config.                             *)
TowardsHead(p, d) ==
    /\ running'[d] \ running[d] \subseteq head[p][d] \cup backup[p]
    /\ (running[d] \ running'[d]) \cap head[p][d] = {}

LEMMA EnteredTowardsHead ==
    ASSUME PushTypeOK, NEW p \in Pipe, NEW d \in Dev,
           NEW add \in SUBSET ToAdd(p, d), NEW del \in SUBSET ToRemove(p, d),
           running' = [running EXCEPT ![d] = Entered(running[d], add, del)]
    PROVE  TowardsHead(p, d)
BY DEF TowardsHead, Entered, ToAdd, ToRemove, PushTypeOK, FleetTypeOK, Tree

LEMMA DeviceStepTowardsHead ==
    ASSUME PushTypeOK, NEW p \in Pipe, NEW d \in Dev, AtDevice(p, d)
    PROVE  TowardsHead(p, d)
<1>1. CASE UNCHANGED running
  BY <1>1 DEF TowardsHead
<1>2. CASE running' = [running EXCEPT ![d] = Remediated(p, d)]
  BY <1>2, EnteredTowardsHead DEF Remediated
<1>3. CASE AsaApplyRefused(p, d)
  BY <1>3, EnteredTowardsHead DEF AsaApplyRefused
<1>4. CASE AsaRollback(p, d) \/ AsaRollbackRefused(p, d)
  BY <1>4 DEF AsaRollback, AsaRollbackRefused, TowardsHead, PushTypeOK, FleetTypeOK, Tree
<1>5. CASE AsaLost(p, d)
  <2>1. CASE sess[p][d] = "apply"
    BY <1>5, <2>1, EnteredTowardsHead DEF AsaLost
  <2>2. CASE sess[p][d] # "apply"
    BY <1>5, <2>2 DEF AsaLost, TowardsHead, PushTypeOK, FleetTypeOK, Tree
  <2> QED
    BY <2>1, <2>2
<1> QED
  BY <1>1, <1>2, <1>3, <1>4, <1>5
  DEF AtDevice, DeviceStep, DeviceFails, GateCheck, GenerateDiff, DeployConnect,
      NapalmCompare, NapalmCommit, AsaApply, AsaSave, GateError, GenerateDiffFails,
      DeployNothing, DeployConnectFails, NapalmException, fleetVars, deviceVars

(* A session moves in a step with its device only.                         *)
LEMMA SessionMoves ==
    ASSUME PushTypeOK, [PushNext]_pushVars, NEW p \in Pipe, NEW d \in Dev, Deploys(p, d)
    PROVE  AtDevice(p, d)
<1>1. ASSUME NEW q \in Pipe, JobsStep(q) PROVE FALSE
  BY <1>1 DEF Deploys, JobsStep, Push, ValidationFails, GateVerdict, DiffVerdict,
              DeployVerdict, DeployRetry, GateRetry, DiffRetry, Abandon
<1>2. ASSUME NEW q \in Pipe, NEW e \in Dev, AtDevice(q, e) PROVE AtDevice(p, d)
  BY <1>2, DeviceFrame DEF Deploys
<1>3. ASSUME NEW e \in Dev, HandsOn(e) PROVE FALSE
  BY <1>3 DEF Deploys, HandsOn, pipeVars
<1>4. CASE UNCHANGED pushVars
  BY <1>4 DEF Deploys, pushVars, pipeVars
<1> QED
  BY <1>1, <1>2, <1>3, <1>4 DEF PushNext, AtDevice

-----------------------------------------------------------------------------
(* No unreported change is lost, device by device.  What carries it is     *)
(* that the gate's verdict on a device stays true after the gate ran:      *)
(* whatever is on a device a pipeline has been cleared for was in Git      *)
(* once, or repeats a line of another section.  That needs this one device *)
(* to be left alone meanwhile and the gate to work on it.  Other pipelines *)
(* may work on it too: they add only what is in Git, and their rollbacks   *)
(* bring back only what was there when the session began.                  *)

(* Nobody touches d while a pipeline works on it.                          *)
HandsOff(d) == HandsOn(d) => ~Busy(d)

(* The gate script does its work on d.                                     *)
Gated(d) == \A p \in Pipe : ~GateError(p, d)

(* The lines that count as known on d.                                     *)
Known(d) == recorded[d] \cup Repeated

(* The gate has found nothing on d, or is over.                            *)
Cleared(p, d) == stage[p] # "gate" \/ (d \notin todo[p] /\ ~flag[p])

ClearedKnown(p, d) == d \in Changed(p) /\ Cleared(p, d) => running[d] \subseteq Known(d)
BackupKnown(p, d)  == sess[p][d] # "none" => backup[p] \subseteq Known(d)

RecordedInv(d) ==
    \A p \in Pipe : Active(p) => ClearedKnown(p, d) /\ BackupKnown(p, d)

LEMMA InitRecorded == ASSUME PushInit, NEW d \in Dev PROVE RecordedInv(d)
BY DEF PushInit, RecordedInv, Active

(* A step of some pipeline with d itself.                                  *)
LEMMA AtDeviceRecorded ==
    ASSUME PushTypeOK, LoopInv, NEW d \in Dev, RecordedInv(d), Gated(d),
           NEW p \in Pipe, AtDevice(p, d)
    PROVE  RecordedInv(d)'
<1>1. Active(p) /\ d \in Changed(p) /\ HeadRecorded(p, d)
  BY AtWork DEF LoopInv, Active
<1>2. running'[d] \subseteq running[d] \cup Known(d)
  <2>1. CASE sess[p][d] = "none"
    BY <2>1, ChangedInSession
  <2>2. CASE sess[p][d] # "none"
    BY <1>1, <2>2, DeviceStepTowardsHead
    DEF TowardsHead, RecordedInv, HeadRecorded, BackupKnown, Known
  <2> QED
    BY <2>1, <2>2
<1>3. SUFFICES ASSUME NEW q \in Pipe, Active(q)
               PROVE  ClearedKnown(q, d)' /\ BackupKnown(q, d)'
  BY DeviceFrame DEF RecordedInv, Active
<1>5. ClearedKnown(q, d)'
  <2> SUFFICES ASSUME d \in Changed(q), Cleared(q, d)' PROVE running'[d] \subseteq Known(d)
    BY DeviceFrame DEF ClearedKnown, Changed, Known
  <2>1. CASE Cleared(q, d)
    BY <1>2, <1>3, <2>1 DEF RecordedInv, ClearedKnown
  <2>2. CASE ~Cleared(q, d)
    <3>1. q = p /\ stage[p] = "gate"
      BY <2>2, DeviceFrame DEF Cleared
    <3>2. GateCheck(p, d)
      BY <3>1 DEF Gated, AtDevice, DeviceStep, DeviceFails, GenerateDiff, DeployConnect,
         NapalmCompare, NapalmCommit, AsaApply, AsaApplyRefused, AsaSave, AsaRollback,
         GenerateDiffFails, DeployNothing, DeployConnectFails, NapalmException,
         AsaRollbackRefused, AsaLost, InTurn, LoopInv
    <3>3. TrueDrift(p, d) = {} /\ running' = running
      BY <3>1, <3>2 DEF GateCheck, Cleared, PushTypeOK, fleetVars
    <3> QED
      BY <1>1, <3>3 DEF TrueDrift, HeadRecorded, Known
  <2> QED
    BY <2>1, <2>2
<1>6. BackupKnown(q, d)'
  <2> SUFFICES ASSUME sess'[q][d] # "none" PROVE backup'[q] \subseteq Known(d)
    BY DeviceFrame DEF BackupKnown, Known
  <2>1. CASE q # p
    BY <1>3, <2>1, DeviceFrame DEF RecordedInv, BackupKnown
  <2>2. CASE q = p /\ DeployConnect(p, d)
    <3>1. backup'[p] = running[d] /\ stage[p] = "deploy"
      BY <2>2 DEF DeployConnect, InTurn, PushTypeOK
    <3> QED
      BY <1>1, <2>2, <3>1 DEF RecordedInv, ClearedKnown, Cleared
  <2>3. CASE q = p /\ ~DeployConnect(p, d)
    BY <1>1, <2>3, SessionOpens DEF RecordedInv, BackupKnown
  <2> QED
    BY <2>1, <2>2, <2>3
<1> QED
  BY <1>5, <1>6

(* A step of some pipeline with another device.                            *)
LEMMA BesideRecorded ==
    ASSUME PushTypeOK, LoopInv, NEW d \in Dev, RecordedInv(d),
           NEW p \in Pipe, NEW e \in Dev \ {d}, AtDevice(p, e)
    PROVE  RecordedInv(d)'
<1>1. running'[d] = running[d] /\ recorded' = recorded
  BY DeviceFrame
<1>2. SUFFICES ASSUME NEW q \in Pipe, Active(q)
               PROVE  ClearedKnown(q, d)' /\ BackupKnown(q, d)'
  BY DeviceFrame DEF RecordedInv, Active
<1>4. Cleared(q, d)' => Cleared(q, d)
  BY DeviceFrame DEF Cleared, PushTypeOK
<1>5. ClearedKnown(q, d)'
  BY <1>1, <1>2, <1>4, DeviceFrame DEF RecordedInv, ClearedKnown, Changed, Known
<1>6. sess'[q][d] # "none" => sess[q][d] # "none" /\ backup'[q] = backup[q]
  BY DeviceFrame DEF LoopInv, NoSess
<1>7. BackupKnown(q, d)'
  BY <1>1, <1>2, <1>6 DEF RecordedInv, BackupKnown, Known
<1> QED
  BY <1>5, <1>7

LEMMA JobsRecorded ==
    ASSUME PushTypeOK, LoopInv, NEW d \in Dev, RecordedInv(d), NEW p \in Pipe, JobsStep(p)
    PROVE  RecordedInv(d)'
<1>1. CASE Push(p)
  <2>1. PICK mid \in Tree, new \in Tree :
          /\ Commit(mid, new)
          /\ head' = [head EXCEPT ![p] = new]
          /\ prev' = [prev EXCEPT ![p] = mid]
          /\ todo' = [todo EXCEPT ![p] = {e \in Dev : new[e] # mid[e]}]
    BY <1>1 DEF Push
  <2>2. /\ stage[p] = "idle" /\ stage' = [stage EXCEPT ![p] = "gate"]
        /\ UNCHANGED <<running, flag, sess, backup>>
    BY <1>1 DEF Push, deviceVars
  <2>3. recorded'[d] = recorded[d] \cup mid[d] \cup new[d]
    BY <2>1 DEF Commit
  <2>4. SUFFICES ASSUME NEW q \in Pipe, Active(q)'
                 PROVE  ClearedKnown(q, d)' /\ BackupKnown(q, d)'
    BY DEF RecordedInv
  <2>5. CASE q = p
    <3>2. d \in Changed(p)' => ~Cleared(p, d)'
      BY <2>1, <2>2 DEF Changed, Cleared, PushTypeOK
    <3>3. sess'[p][d] = "none"
      BY <2>2 DEF LoopInv
    <3> QED
      BY <2>5, <3>2, <3>3 DEF ClearedKnown, BackupKnown
  <2>6. CASE q # p
    <3>1. /\ Active(q) /\ Cleared(q, d)' = Cleared(q, d)
          /\ Changed(q)' = Changed(q)
      BY <2>1, <2>2, <2>4, <2>6 DEF Active, Cleared, Changed
    <3> QED
      BY <2>2, <2>3, <3>1 DEF RecordedInv, ClearedKnown, BackupKnown, Known
  <2> QED
    BY <2>5, <2>6
<1>2. CASE GateRetry(p)
  <2>1. /\ UNCHANGED <<fleetVars, head, prev, sess, backup>>
        /\ stage[p] = "blocked" /\ stage'[p] = "gate" /\ todo'[p] = Changed(p)
        /\ \A q \in Pipe \ {p} : /\ stage'[q] = stage[q]
                                 /\ todo'[q] = todo[q]
                                 /\ flag'[q] = flag[q]
    BY <1>2 DEF GateRetry, PushTypeOK
  <2>2. \A q \in Pipe : Changed(q)' = Changed(q)
    BY <2>1 DEF Changed
  <2>3. ClearedKnown(p, d)' /\ BackupKnown(p, d)'
    BY <2>1, <2>2 DEF ClearedKnown, Cleared, BackupKnown, LoopInv
  <2>4. \A q \in Pipe \ {p} : Active(q)' = Active(q) /\ Cleared(q, d)' = Cleared(q, d)
    BY <2>1 DEF Active, Cleared
  <2> QED
    BY <2>1, <2>2, <2>3, <2>4 DEF fleetVars, RecordedInv, ClearedKnown, BackupKnown, Known
<1>3. CASE ~Push(p) /\ ~GateRetry(p)
  <2>1. /\ UNCHANGED <<fleetVars, head, prev, sess, backup>>
        /\ \A q \in Pipe : Active(q)' => Active(q)
        /\ \A q \in Pipe : Changed(q)' = Changed(q)
    BY <1>3 DEF JobsStep, ValidationFails, GateVerdict, DiffVerdict, DeployVerdict,
       DeployRetry, DiffRetry, Abandon, Active, Changed, PushTypeOK
  <2>2. \A q \in Pipe : Active(q)' /\ Cleared(q, d)' => Cleared(q, d)
    BY <1>3 DEF JobsStep, ValidationFails, GateVerdict, DiffVerdict, DeployVerdict,
       DeployRetry, DiffRetry, Abandon, Active, Cleared, PushTypeOK
  <2> QED
    BY <2>1, <2>2 DEF fleetVars, RecordedInv, ClearedKnown, BackupKnown, Known
<1> QED
  BY <1>1, <1>2, <1>3

LEMMA NextRecorded ==
    ASSUME PushTypeOK, LoopInv, NEW d \in Dev, RecordedInv(d),
           [PushNext]_pushVars, [HandsOff(d) /\ Gated(d)]_pushVars
    PROVE  RecordedInv(d)'
<1>1. CASE UNCHANGED pushVars
  BY <1>1 DEF pushVars, pipeVars, fleetVars, RecordedInv, ClearedKnown,
              BackupKnown, Active, Changed, Cleared, Known
<1>2. ASSUME NEW p \in Pipe, NEW e \in Dev, AtDevice(p, e), HandsOff(d) /\ Gated(d)
      PROVE  RecordedInv(d)'
  BY <1>2, AtDeviceRecorded, BesideRecorded
<1>3. ASSUME NEW e \in Dev, HandsOn(e), HandsOff(d) PROVE RecordedInv(d)'
  <2>1. UNCHANGED <<recorded, pipeVars>> /\ (e # d => running'[d] = running[d])
    BY <1>3 DEF HandsOn, SshEdit, Reload, gitVars, PushTypeOK, FleetTypeOK, Tree
  <2>2. CASE e # d
    BY <2>1, <2>2 DEF pipeVars, RecordedInv, ClearedKnown, BackupKnown,
                      Active, Changed, Cleared, Known
  <2>3. CASE e = d
    <3>1. ~Busy(d)
      BY <1>3, <2>3 DEF HandsOff
    <3> QED
      BY <2>1, <3>1 DEF pipeVars, RecordedInv, ClearedKnown, BackupKnown,
                        Active, Changed, Cleared, Known, Busy
  <2> QED
    BY <2>2, <2>3
<1> QED
  BY <1>1, <1>2, <1>3, JobsRecorded DEF PushNext, AtDevice

(* A session only takes lines off a device that it was cleared for.        *)
LEMMA StepLosesNothing ==
    ASSUME PushTypeOK, LoopInv, NEW d \in Dev, RecordedInv(d), [PushNext]_pushVars,
           NEW p \in Pipe, Deploys(p, d)
    PROVE  running[d] \ running'[d] \subseteq Known(d)
<1>1. AtDevice(p, d)
  BY SessionMoves
<1>2. CASE sess[p][d] # "none"
  BY <1>1, <1>2, AtWork DEF RecordedInv, ClearedKnown, Cleared, LoopInv
<1>3. CASE sess[p][d] = "none"
  BY <1>1, <1>3, ChangedInSession
<1> QED
  BY <1>2, <1>3

(* On any device that is left alone while pipelines work on it, and on     *)
(* which the gate script does not fail, the only lines a deployment can    *)
(* take off unreported are those that repeat a line of another section --  *)
(* whatever happens on the other devices, and however many pipelines work  *)
(* on this one at once.                                                    *)
THEOREM DeviceLosesNothing ==
    ASSUME NEW d \in Dev
    PROVE  PushSpec /\ [][HandsOff(d) /\ Gated(d)]_pushVars =>
             [][\A p \in Pipe : Deploys(p, d) =>
                  running[d] \ running'[d] \subseteq recorded[d] \cup Repeated]_pushVars
<1>1. PushInit => RecordedInv(d)
  BY InitRecorded
<1>2. PushTypeOK /\ LoopInv /\ RecordedInv(d) /\ [PushNext]_pushVars
        /\ [HandsOff(d) /\ Gated(d)]_pushVars => RecordedInv(d)'
  BY NextRecorded
<1>3. PushTypeOK /\ LoopInv /\ RecordedInv(d) /\ [PushNext]_pushVars =>
        \A p \in Pipe : Deploys(p, d) =>
          running[d] \ running'[d] \subseteq recorded[d] \cup Repeated
  BY StepLosesNothing DEF Known
<1> QED
  BY <1>1, <1>2, <1>3, TypeCorrect, LoopCorrect, PTL DEF PushSpec

(* Where every device is left alone and the gate works.                    *)
LEMMA QuietSite ==
    ASSUME Quiet, "gate" \notin Faults, NEW d \in Dev
    PROVE  HandsOff(d) /\ Gated(d)
BY DEF HandsOff, HandsOn, Gated, GateError

AllRecorded == \A d \in Dev : RecordedInv(d)

(* On a quiet site with a working gate no deployment wipes a line that was *)
(* never in Git, however many pipelines run at once (NoUnreportedLoss).    *)
THEOREM NothingUnreportedIsLost ==
    ASSUME Quiet, Repeated = {}, "gate" \notin Faults
    PROVE  PushSpec => NoUnreportedLoss
<1>1. PushInit => AllRecorded
  BY InitRecorded DEF AllRecorded
<1>2. PushTypeOK /\ LoopInv /\ AllRecorded /\ [PushNext]_pushVars => AllRecorded'
  BY NextRecorded, QuietSite DEF AllRecorded
<1>3. PushTypeOK /\ LoopInv /\ AllRecorded /\ [PushNext]_pushVars =>
        \A p \in Pipe, d \in Dev :
          Deploys(p, d) => running[d] \ running'[d] \subseteq recorded[d]
  BY StepLosesNothing DEF AllRecorded, Known
<1> QED
  BY <1>1, <1>2, <1>3, TypeCorrect, LoopCorrect, PTL DEF PushSpec, NoUnreportedLoss

-----------------------------------------------------------------------------
(* A green deployment has deployed, device by device.  The invariant       *)
(* follows a pipeline that is alone with the device (Alone, HandsOff): the *)
(* diff was made from what the device holds, partial failures and          *)
(* rollbacks stay between that and HEAD, so a session that runs through    *)
(* ends exactly at HEAD, and as long as no session failed every device     *)
(* handled so far is there.                                                *)

(* No two pipelines work on d at the same time.                            *)
Alone(d) ==
    \A p, q \in Pipe :
      Active(p) /\ Active(q) /\ d \in Changed(p) /\ d \in Changed(q) => p = q

(* The diff job: what it has handled still is its base.                    *)
Diffed(p, d) ==
    stage[p] = "diff" /\ ~flag[p] /\ d \in Changed(p) \ todo[p] =>
      base[p][d] = running[d]

(* The deploy job and its retries: the band of DeployStaysBetween.         *)
Banded(p, d) ==
    stage[p] \in {"deploy", "retry"} /\ d \in Changed(p) => Between(p, d, running[d])

(* The deploy job: what it has handled without a failure is at HEAD.       *)
Settled(p, d) ==
    Pipefail /\ stage[p] = "deploy" /\ ~flag[p] /\ d \in Changed(p) \ todo[p] =>
      running[d] = head[p][d]

(* A session: the device is between its backup and HEAD, is as it was      *)
(* found until something is entered, and is at HEAD when all was entered.  *)
InSession(p, d) ==
    sess[p][d] # "none" =>
      /\ backup[p] \subseteq head[p][d] \cup base[p][d]
      /\ head[p][d] \cap backup[p] \subseteq running[d]
      /\ running[d] \subseteq head[p][d] \cup backup[p]
      /\ sess[p][d] \in {"apply", "commit"} => running[d] = backup[p]
      /\ sess[p][d] = "save" => running[d] = head[p][d]

Sound(p, d) == Diffed(p, d) /\ Banded(p, d) /\ Settled(p, d) /\ InSession(p, d)

DeployInv(d) == \A p \in Pipe : Sound(p, d)

(* It only speaks of pipelines that are at work on d.                      *)
LEMMA IdleIsSound ==
    ASSUME LoopInv, NEW p \in Pipe, NEW d \in Dev, ~(Active(p) /\ d \in Changed(p))
    PROVE  Sound(p, d)
BY DEF LoopInv, Active, Sound, Diffed, Banded, Settled, InSession

LEMMA InitDeploy == ASSUME PushInit, NEW d \in Dev PROVE DeployInv(d)
BY InitLoop, IdleIsSound DEF PushInit, DeployInv, Active

(* Entering a part of the remediation stays between; all of it is HEAD.    *)
LEMMA EnteredBetween ==
    ASSUME NEW p \in Pipe, NEW d \in Dev, Between(p, d, running[d])
    PROVE  /\ \A add \in SUBSET ToAdd(p, d), del \in SUBSET ToRemove(p, d) :
                Between(p, d, Entered(running[d], add, del))
           /\ Remediated(p, d) = head[p][d]
           /\ Between(p, d, head[p][d])
BY DEF Between, Entered, Remediated, ToAdd, ToRemove

(* deploy.py ends with the device at cfg.                                  *)
LEMMA FinishSound ==
    ASSUME PushTypeOK, NEW p \in Pipe, NEW d \in Dev, NEW ok \in BOOLEAN, NEW cfg,
           Sound(p, d), stage[p] = "deploy", d \in todo[p], Finish(p, d, ok),
           running' = [running EXCEPT ![d] = cfg],
           Between(p, d, cfg), ok => cfg = head[p][d]
    PROVE  Sound(p, d)'
<1> USE DEF Finish, PushTypeOK, FleetTypeOK, Tree
<1>1. Diffed(p, d)'
  BY DEF Diffed
<1>2. Banded(p, d)'
  BY DEF Banded, Between
<1>3. Settled(p, d)'
  BY DEF Settled
<1>4. InSession(p, d)'
  BY DEF InSession
<1> QED
  BY <1>1, <1>2, <1>3, <1>4 DEF Sound

(* deploy.py goes on with the device at cfg.                               *)
LEMMA ContinueSound ==
    ASSUME PushTypeOK, NEW p \in Pipe, NEW d \in Dev, NEW step \in Step, NEW cfg,
           Sound(p, d), stage[p] = "deploy", d \in todo[p], sess[p][d] # "none",
           Continue(p, d, step), running' = [running EXCEPT ![d] = cfg],
           Between(p, d, cfg),
           head[p][d] \cap backup[p] \subseteq cfg,
           cfg \subseteq head[p][d] \cup backup[p],
           step \in {"apply", "commit"} => cfg = backup[p],
           step = "save" => cfg = head[p][d]
    PROVE  Sound(p, d)'
<1> USE DEF Continue, PushTypeOK, FleetTypeOK, Tree
<1>1. Diffed(p, d)'
  BY DEF Diffed
<1>2. Banded(p, d)'
  BY DEF Banded, Between
<1>3. Settled(p, d)'
  BY DEF Settled, Changed
<1>4. InSession(p, d)'
  BY DEF Sound, InSession
<1> QED
  BY <1>1, <1>2, <1>3, <1>4 DEF Sound

(* What a step does to the device it works on, if it is in the deploy job. *)
LEMMA DeployStepSound ==
    ASSUME PushTypeOK, LoopInv, NEW p \in Pipe, NEW d \in Dev, Sound(p, d),
           AtDevice(p, d), stage[p] = "deploy"
    PROVE  Sound(p, d)'
<1>1. Active(p) /\ d \in todo[p] /\ d \in Changed(p) /\ Between(p, d, running[d])
  BY AtWork DEF Sound, Banded
<1>2. running = [running EXCEPT ![d] = running[d]]
  BY DEF PushTypeOK, FleetTypeOK, Tree
<1> USE DEF Step
<1>3. CASE DeployNothing(p, d)
  <2>1. running[d] = head[p][d]
    BY <1>1, <1>3 DEF DeployNothing, Between
  <2> QED
    BY <1>1, <1>2, <1>3, <2>1, FinishSound DEF DeployNothing, deviceVars
<1>4. CASE DeployConnectFails(p, d)
  BY <1>1, <1>2, <1>4, FinishSound DEF DeployConnectFails, deviceVars
<1>5. CASE DeployConnect(p, d)
  <2>1. /\ sess'[p][d] = "apply" /\ backup'[p] = running[d]
        /\ UNCHANGED <<running, head, prev, base, stage, todo, flag>>
    BY <1>5 DEF DeployConnect, PushTypeOK, fleetVars
  <2>2. running[d] \subseteq head[p][d] \cup base[p][d]
    BY <1>1 DEF Between
  <2>3. InSession(p, d)'
    BY <2>1, <2>2 DEF InSession
  <2> QED
    BY <2>1, <2>3 DEF Sound, Diffed, Banded, Settled, Changed, Between
<1>6. CASE NapalmCompare(p, d)
  <2>1. CASE Remediated(p, d) = running[d]
    BY <1>1, <1>2, <1>6, <2>1, EnteredBetween, FinishSound DEF NapalmCompare, deviceVars
  <2>2. CASE Remediated(p, d) # running[d]
    BY <1>1, <1>2, <1>6, <2>2, ContinueSound DEF NapalmCompare, deviceVars, Sound, InSession
  <2> QED
    BY <2>1, <2>2
<1>7. CASE NapalmCommit(p, d)
  BY <1>1, <1>7, EnteredBetween, FinishSound DEF NapalmCommit
<1>8. CASE NapalmException(p, d)
  <2>1. /\ Finish(p, d, FALSE)
        /\ \/ running' = running
           \/ running' = [running EXCEPT ![d] = Remediated(p, d)]
    BY <1>8 DEF NapalmException, deviceVars
  <2> QED
    BY <1>1, <1>2, <2>1, EnteredBetween, FinishSound
<1>9. CASE AsaApply(p, d)
  <2>1. running' = [running EXCEPT ![d] = head[p][d]] /\ Between(p, d, head[p][d])
    BY <1>1, <1>9, EnteredBetween DEF AsaApply
  <2>2. sess[p][d] = "apply" /\ Continue(p, d, "save")
    BY <1>9 DEF AsaApply
  <2> QED
    BY <1>1, <2>1, <2>2, ContinueSound
<1>10. CASE AsaApplyRefused(p, d)
  <2>1. PICK add \in SUBSET ToAdd(p, d), del \in SUBSET ToRemove(p, d) :
          running' = [running EXCEPT ![d] = Entered(running[d], add, del)]
    BY <1>10 DEF AsaApplyRefused, PushTypeOK, FleetTypeOK, Tree
  <2>2. Between(p, d, Entered(running[d], add, del))
    BY <1>1, EnteredBetween
  <2>3. /\ sess[p][d] = "apply" /\ Continue(p, d, "rollback")
        /\ running[d] = backup[p]
    BY <1>10 DEF AsaApplyRefused, Sound, InSession
  <2>4. /\ head[p][d] \cap backup[p] \subseteq Entered(running[d], add, del)
        /\ Entered(running[d], add, del) \subseteq head[p][d] \cup backup[p]
    BY <2>3 DEF Entered, ToAdd, ToRemove
  <2> QED
    BY <1>1, <2>1, <2>2, <2>3, <2>4, ContinueSound
<1>11. CASE AsaSave(p, d)
  <2>1. running[d] = head[p][d]
    BY <1>11 DEF AsaSave, Sound, InSession
  <2> QED
    BY <1>1, <1>2, <1>11, <2>1, FinishSound DEF AsaSave
<1>12. CASE AsaRollback(p, d) \/ AsaRollbackRefused(p, d)
  <2>1. PICK back \in SUBSET backup[p] :
          running' = [running EXCEPT ![d] = running[d] \cup back]
    BY <1>12 DEF AsaRollback, AsaRollbackRefused, PushTypeOK, FleetTypeOK, Tree
  <2>2. backup[p] \subseteq head[p][d] \cup base[p][d]
    BY <1>12 DEF AsaRollback, AsaRollbackRefused, Sound, InSession
  <2>3. Between(p, d, running[d] \cup back)
    BY <1>1, <2>2 DEF Between
  <2> QED
    BY <1>1, <1>12, <2>1, <2>3, FinishSound DEF AsaRollback, AsaRollbackRefused
<1>13. CASE AsaLost(p, d)
  <2>1. PICK add \in SUBSET ToAdd(p, d), del \in SUBSET ToRemove(p, d) :
          \/ running' = [running EXCEPT ![d] = Entered(running[d], add, del)]
          \/ running' = [running EXCEPT ![d] = running[d]]
    BY <1>13 DEF AsaLost, PushTypeOK, FleetTypeOK, Tree
  <2>2. Between(p, d, Entered(running[d], add, del))
    BY <1>1, EnteredBetween
  <2> QED
    BY <1>1, <1>13, <2>1, <2>2, FinishSound DEF AsaLost
<1> QED
  BY <1>3, <1>4, <1>5, <1>6, <1>7, <1>8, <1>9, <1>10, <1>11, <1>12, <1>13
  DEF AtDevice, DeviceStep, DeviceFails, GateCheck, GateError, GenerateDiff, GenerateDiffFails

LEMMA AtDeviceDeploy ==
    ASSUME PushTypeOK, LoopInv, NEW d \in Dev, DeployInv(d), Alone(d),
           NEW p \in Pipe, AtDevice(p, d)
    PROVE  DeployInv(d)'
<1>1. Active(p) /\ d \in Changed(p)
  BY AtWork
<1>2. ASSUME NEW q \in Pipe \ {p} PROVE Sound(q, d)'
  <2>1. ~(Active(q) /\ d \in Changed(q))
    BY <1>1, <1>2 DEF Alone
  <2>2. ~(Active(q) /\ d \in Changed(q))'
    BY <2>1, DeviceFrame DEF Active, Changed
  <2>3. sess'[q][d] = "none"
    BY <1>2, <2>1, DeviceFrame DEF LoopInv, Active
  <2> QED
    BY <2>2, <2>3 DEF Active, Sound, Diffed, Banded, Settled, InSession
<1>3. Sound(p, d)'
  <2>1. CASE stage[p] = "deploy"
    BY <2>1, DeployStepSound DEF DeployInv
  <2>2. CASE stage[p] # "deploy"
    <3>1. sess[p][d] = "none" /\ ~DeployConnect(p, d)
      BY <2>2 DEF LoopInv, DeployConnect, InTurn
    <3>2. /\ stage'[p] \in {"gate", "diff"} /\ sess'[p][d] = "none"
          /\ UNCHANGED <<head, prev, running>>
      BY <2>2, <3>1, DeviceFrame, SessionOpens, AtWork, ChangedInSession
    <3>3. Diffed(p, d)'
      <4> SUFFICES ASSUME stage'[p] = "diff", ~flag'[p], d \notin todo'[p]
                   PROVE  base'[p][d] = running[d]
        BY <3>2 DEF Diffed
      <4>1. stage[p] = "diff" /\ d \in todo[p]
        BY DeviceFrame, AtWork
      <4>2. GenerateDiff(p, d)
        BY <2>2, <4>1 DEF AtDevice, DeviceStep, DeviceFails, GateCheck, GateError,
           GenerateDiffFails, DeployConnect, DeployNothing, DeployConnectFails, InTurn,
           NapalmCompare, NapalmCommit, NapalmException, AsaApply, AsaApplyRefused, AsaSave,
           AsaRollback, AsaRollbackRefused, AsaLost, LoopInv, PushTypeOK
      <4> QED
        BY <4>2 DEF GenerateDiff, PushTypeOK, Tree
    <3> QED
      BY <3>2, <3>3 DEF Sound, Banded, Settled, InSession
  <2> QED
    BY <2>1, <2>2
<1> QED
  BY <1>2, <1>3 DEF DeployInv

LEMMA BesideDeploy ==
    ASSUME PushTypeOK, LoopInv, NEW d \in Dev, DeployInv(d),
           NEW p \in Pipe, NEW e \in Dev \ {d}, AtDevice(p, e)
    PROVE  DeployInv(d)'
<1> SUFFICES ASSUME NEW q \in Pipe PROVE Sound(q, d)'
  BY DEF DeployInv
<1>1. /\ UNCHANGED <<stage, head, prev, running[d], base[q][d], sess[q][d]>>
      /\ d \in todo'[q] <=> d \in todo[q]
      /\ flag[q] => flag'[q]
      /\ sess[q][d] # "none" => backup'[q] = backup[q]
  BY DeviceFrame DEF LoopInv, NoSess
<1>2. Sound(q, d)
  BY DEF DeployInv
<1> QED
  BY <1>1, <1>2 DEF Sound, Diffed, Banded, Settled, InSession, Between, Changed

LEMMA JobsDeploy ==
    ASSUME PushTypeOK, LoopInv, NEW d \in Dev, DeployInv(d), NEW p \in Pipe, JobsStep(p)
    PROVE  DeployInv(d)'
<1>1. /\ UNCHANGED <<running, base, sess, backup>>
      /\ \A q \in Pipe \ {p} : /\ stage'[q] = stage[q]
                               /\ head'[q] = head[q]
                               /\ prev'[q] = prev[q]
                               /\ todo'[q] = todo[q]
                               /\ flag'[q] = flag[q]
  BY DEF JobsStep, Push, ValidationFails, GateVerdict, DiffVerdict, DeployVerdict,
     DeployRetry, GateRetry, DiffRetry, Abandon, PushTypeOK, fleetVars, deviceVars
<1>2. ASSUME NEW q \in Pipe \ {p} PROVE Sound(q, d)'
  BY <1>1, <1>2 DEF DeployInv, Sound, Diffed, Banded, Settled, InSession, Between, Changed
<1>3. Sound(p, d)'
  <2>1. sess'[p][d] = "none"
    BY <1>1 DEF JobsStep, Push, ValidationFails, GateVerdict, DiffVerdict, DeployVerdict,
       DeployRetry, GateRetry, DiffRetry, Abandon, LoopInv
  <2>2. CASE \/ Push(p) \/ ValidationFails(p) \/ Abandon(p)
             \/ GateVerdict(p) \/ GateRetry(p) \/ DiffRetry(p)
    <3>1. stage'[p] \notin {"deploy", "retry"}
      BY <2>2 DEF Push, ValidationFails, Abandon, GateVerdict, GateRetry, DiffRetry, PushTypeOK
    <3>2. stage'[p] = "diff" => todo'[p] = Changed(p) /\ UNCHANGED <<head, prev>>
      BY <2>2 DEF Push, ValidationFails, Abandon, GateVerdict, GateRetry, DiffRetry, PushTypeOK
    <3> QED
      BY <2>1, <3>1, <3>2 DEF Sound, Diffed, Banded, Settled, InSession, Changed
  <2>3. CASE DiffVerdict(p) \/ DeployVerdict(p) \/ DeployRetry(p)
    <3>1. /\ UNCHANGED <<head, prev>> /\ stage'[p] # "diff"
          /\ stage'[p] = "deploy" => todo'[p] = Changed(p)
          /\ stage'[p] \in {"deploy", "retry"} =>
               \/ stage[p] \in {"deploy", "retry"}
               \/ stage[p] = "diff" /\ todo[p] = {} /\ ~flag[p]
      BY <2>3 DEF DiffVerdict, DeployVerdict, DeployRetry, PushTypeOK
    <3>2. Banded(p, d)'
      BY <1>1, <3>1 DEF DeployInv, Sound, Diffed, Banded, Between, Changed
    <3> QED
      BY <2>1, <3>1, <3>2 DEF Sound, Diffed, Settled, InSession, Changed
  <2> QED
    BY <2>2, <2>3 DEF JobsStep
<1> QED
  BY <1>2, <1>3 DEF DeployInv

LEMMA NextDeploy ==
    ASSUME PushTypeOK, LoopInv, NEW d \in Dev, DeployInv(d), Alone(d),
           [PushNext]_pushVars, [HandsOff(d)]_pushVars
    PROVE  DeployInv(d)'
<1>1. CASE UNCHANGED pushVars
  BY <1>1 DEF pushVars, pipeVars, fleetVars, DeployInv, Sound, Diffed, Banded, Settled,
     InSession, Between, Changed
<1>2. ASSUME NEW p \in Pipe, NEW e \in Dev, AtDevice(p, e) PROVE DeployInv(d)'
  BY <1>2, AtDeviceDeploy, BesideDeploy
<1>3. ASSUME NEW e \in Dev, HandsOn(e), HandsOff(d) PROVE DeployInv(d)'
  <2>1. UNCHANGED pipeVars /\ (e # d => running'[d] = running[d])
    BY <1>3 DEF HandsOn, SshEdit, Reload, PushTypeOK, FleetTypeOK, Tree
  <2>2. CASE e # d
    BY <2>1, <2>2 DEF pipeVars, DeployInv, Sound, Diffed, Banded, Settled, InSession,
       Between, Changed
  <2>3. CASE e = d
    <3>1. \A q \in Pipe : ~(Active(q) /\ d \in Changed(q))
      BY <1>3, <2>3 DEF HandsOff, Busy
    <3> QED
      BY <2>1, <3>1 DEF pipeVars, LoopInv, Active, Changed, DeployInv, Sound, Diffed, Banded,
         Settled, InSession
  <2> QED
    BY <2>2, <2>3
<1> QED
  BY <1>1, <1>2, <1>3, JobsDeploy DEF PushNext, AtDevice

(* Only the verdict of the deploy job lets a pipeline pass.                *)
LEMMA PassesByVerdict ==
    ASSUME PushTypeOK, [PushNext]_pushVars, NEW p \in Pipe,
           stage[p] = "deploy", stage'[p] = "passed"
    PROVE  DeployVerdict(p)
<1>1. ASSUME NEW q \in Pipe, NEW d \in Dev, AtDevice(q, d) PROVE UNCHANGED stage
  BY <1>1, DeviceFrame
<1>2. ASSUME NEW d \in Dev, HandsOn(d) PROVE UNCHANGED stage
  BY <1>2 DEF HandsOn, pipeVars
<1>3. PICK q \in Pipe : JobsStep(q)
  BY <1>1, <1>2 DEF PushNext, pushVars, pipeVars, AtDevice
<1>4. q = p /\ stage'[q] = "passed"
  BY <1>3 DEF JobsStep, Push, ValidationFails, GateVerdict, DiffVerdict,
     DeployVerdict, DeployRetry, GateRetry, DiffRetry, Abandon, PushTypeOK
<1> QED
  BY <1>3, <1>4 DEF JobsStep, Push, ValidationFails, GateVerdict, DiffVerdict,
     DeployRetry, GateRetry, DiffRetry, Abandon

LEMMA StepPassesDeployed ==
    ASSUME PushTypeOK, NEW d \in Dev, DeployInv(d), Pipefail, [PushNext]_pushVars,
           NEW p \in Pipe, stage[p] = "deploy", stage'[p] = "passed", d \in Changed(p)
    PROVE  running'[d] = head[p][d]
<1>1. DeployVerdict(p)
  BY PassesByVerdict
<1> QED
  BY <1>1 DEF DeployVerdict, DeployInv, Sound, Settled, PushTypeOK, fleetVars

(* A session ends between what it found and HEAD.                          *)
LEMMA StepEndsBetween ==
    ASSUME PushTypeOK, LoopInv, NEW d \in Dev, DeployInv(d), [PushNext]_pushVars,
           NEW p \in Pipe, sess[p][d] # "none", sess'[p][d] = "none"
    PROVE  /\ head[p][d] \cap backup[p] \subseteq running'[d]
           /\ running'[d] \subseteq head[p][d] \cup backup[p]
           /\ AsaRollback(p, d) => backup[p] \subseteq running'[d]
<1>1. AtDevice(p, d) /\ TowardsHead(p, d)
  BY SessionMoves, DeviceStepTowardsHead DEF Deploys
<1>2. InSession(p, d)
  BY DEF DeployInv, Sound
<1>3. AsaRollback(p, d) => backup[p] \subseteq running'[d]
  BY DEF AsaRollback, PushTypeOK, FleetTypeOK, Tree
<1> QED
  BY <1>1, <1>2, <1>3 DEF TowardsHead, InSession

(* Whatever pipelines do on other devices, a device that one pipeline at a *)
(* time works on, and nobody else, is at the commit of a pipeline that     *)
(* ends its deploy job green.                                              *)
THEOREM DeviceIsDeployed ==
    ASSUME Pipefail, NEW d \in Dev
    PROVE  PushSpec /\ []Alone(d) /\ [][HandsOff(d)]_pushVars =>
             [][\A p \in Pipe :
                  stage[p] = "deploy" /\ stage'[p] = "passed" /\ d \in Changed(p) =>
                    running'[d] = head[p][d]]_pushVars
<1>1. PushInit => DeployInv(d)
  BY InitDeploy
<1>2. PushTypeOK /\ LoopInv /\ DeployInv(d) /\ Alone(d) /\ [PushNext]_pushVars
        /\ [HandsOff(d)]_pushVars => DeployInv(d)'
  BY NextDeploy
<1>3. PushTypeOK /\ DeployInv(d) /\ [PushNext]_pushVars =>
        \A p \in Pipe :
          stage[p] = "deploy" /\ stage'[p] = "passed" /\ d \in Changed(p) =>
            running'[d] = head[p][d]
  BY StepPassesDeployed
<1> QED
  BY <1>1, <1>2, <1>3, TypeCorrect, LoopCorrect, PTL DEF PushSpec

(* The same device never leaves the band between its diff's base and HEAD, *)
(* from the start of the deploy job to its last retry.                     *)
THEOREM DeviceIsBounded ==
    ASSUME NEW d \in Dev
    PROVE  PushSpec /\ []Alone(d) /\ [][HandsOff(d)]_pushVars =>
             [](\A p \in Pipe :
                  stage[p] \in {"deploy", "retry"} /\ d \in Changed(p) =>
                    Between(p, d, running[d]))
<1>1. PushInit => DeployInv(d)
  BY InitDeploy
<1>2. PushTypeOK /\ LoopInv /\ DeployInv(d) /\ Alone(d) /\ [PushNext]_pushVars
        /\ [HandsOff(d)]_pushVars => DeployInv(d)'
  BY NextDeploy
<1>3. DeployInv(d) =>
        \A p \in Pipe : stage[p] \in {"deploy", "retry"} /\ d \in Changed(p) =>
          Between(p, d, running[d])
  BY DEF DeployInv, Sound, Banded
<1> QED
  BY <1>1, <1>2, <1>3, TypeCorrect, LoopCorrect, PTL DEF PushSpec

-----------------------------------------------------------------------------
(* The whole site: pushes that wait for one another leave every device to  *)
(* one pipeline.                                                           *)

AloneInv == \A p, q \in Pipe : Active(p) /\ Active(q) => p = q

LEMMA AloneEverywhere == ASSUME AloneInv, NEW d \in Dev PROVE Alone(d)
BY DEF AloneInv, Alone

LEMMA NextAlone ==
    ASSUME Serial, PushTypeOK, AloneInv, [PushNext]_pushVars
    PROVE  AloneInv'
<1>1. CASE \E p \in Pipe : Push(p) \/ GateRetry(p)
  BY <1>1 DEF Push, GateRetry, MayStart, Active, AloneInv, PushTypeOK
<1>2. CASE ~\E p \in Pipe : Push(p) \/ GateRetry(p)
  <2>1. ASSUME NEW p \in Pipe, NEW d \in Dev, AtDevice(p, d) PROVE UNCHANGED stage
    BY <2>1, DeviceFrame
  <2>2. ASSUME NEW p \in Pipe, JobsStep(p) PROVE \A q \in Pipe : Active(q)' => Active(q)
    BY <1>2, <2>2 DEF JobsStep, ValidationFails, GateVerdict, DiffVerdict, DeployVerdict,
       DeployRetry, GateRetry, DiffRetry, Abandon, Active, PushTypeOK
  <2>3. \A q \in Pipe : Active(q)' => Active(q)
    BY <2>1, <2>2 DEF PushNext, AtDevice, HandsOn, pushVars, pipeVars, Active
  <2> QED
    BY <2>3 DEF AloneInv
<1> QED
  BY <1>1, <1>2

(* No hand-made change meets a pipeline at work on a quiet site.           *)
LEMMA HandsAreOff == ASSUME Quiet, NEW d \in Dev PROVE HandsOff(d)
BY DEF HandsOff, HandsOn

(* What a pipeline that has the site to itself knows.                      *)
GreenInv == AloneInv /\ \A d \in Dev : DeployInv(d)

LEMMA InitGreen == PushInit => GreenInv
BY InitDeploy DEF GreenInv, AloneInv, PushInit, Active

LEMMA NextGreen ==
    ASSUME Quiet, Serial, PushTypeOK, LoopInv, GreenInv, [PushNext]_pushVars
    PROVE  GreenInv'
<1>1. AloneInv'
  BY NextAlone DEF GreenInv
<1>2. ASSUME NEW d \in Dev PROVE DeployInv(d)'
  BY AloneEverywhere, HandsAreOff, NextDeploy DEF GreenInv
<1> QED
  BY <1>1, <1>2 DEF GreenInv

LEMMA GreenCorrect == ASSUME Quiet, Serial PROVE PushSpec => []GreenInv
<1>1. PushTypeOK /\ LoopInv /\ GreenInv /\ [PushNext]_pushVars => GreenInv'
  BY NextGreen
<1> QED
  BY InitGreen, <1>1, TypeCorrect, LoopCorrect, PTL DEF PushSpec

LEMMA GreenIsBetween == GreenInv => DeployStaysBetween
BY DEF GreenInv, DeployInv, Sound, Banded, DeployStaysBetween, Changed

(* Failures, rollbacks and retries never leave the range between the diff's*)
(* base and HEAD on a device that only its pipeline touches.               *)
THEOREM DeployIsBounded ==
    ASSUME Quiet, Serial
    PROVE  PushSpec => []DeployStaysBetween
BY GreenCorrect, GreenIsBetween, PTL

(* However a session with a device ends, it leaves the device between what *)
(* it found and HEAD; a rollback without errors brings back what it found. *)
THEOREM SessionIsBounded ==
    ASSUME Quiet, Serial
    PROVE  PushSpec => SessionStaysBetween
<1>1. PushTypeOK /\ LoopInv /\ GreenInv /\ [PushNext]_pushVars =>
        \A p \in Pipe, d \in Dev :
          sess[p][d] # "none" /\ sess'[p][d] = "none" =>
            /\ head[p][d] \cap backup[p] \subseteq running'[d]
            /\ running'[d] \subseteq head[p][d] \cup backup[p]
            /\ AsaRollback(p, d) => backup[p] \subseteq running'[d]
  BY StepEndsBetween DEF GreenInv
<1> QED
  BY <1>1, GreenCorrect, TypeCorrect, LoopCorrect, PTL DEF PushSpec, SessionStaysBetween

(* A pipeline reports a green deployment only with every device of its     *)
(* commit at that commit.                                                  *)
THEOREM GreenIsDeployed ==
    ASSUME Quiet, Serial, Pipefail
    PROVE  PushSpec => GreenMeansDeployed
<1>1. PushTypeOK /\ GreenInv /\ [PushNext]_pushVars =>
        \A p \in Pipe :
          stage[p] = "deploy" /\ stage'[p] = "passed" =>
            \A d \in Changed(p) : running'[d] = head[p][d]
  BY StepPassesDeployed DEF GreenInv, Changed
<1> QED
  BY <1>1, GreenCorrect, TypeCorrect, PTL DEF PushSpec, GreenMeansDeployed

-----------------------------------------------------------------------------
(* The pipeline implements Rollout: a device that holds the commit keeps   *)
(* it through every step of the pipeline's sessions, so the set of devices *)
(* that have arrived only grows until the push succeeds or is given up.    *)

(* A function that changes in one place.                                   *)
LEMMA ChangedAt ==
    ASSUME NEW S, NEW x \in S, NEW f, NEW g,
           f = [y \in S |-> f[y]], g = [y \in S |-> g[y]], \A y \in S \ {x} : g[y] = f[y]
    PROVE  g = [f EXCEPT ![x] = g[x]]
OBVIOUS

LEMMA RollMaps ==
    /\ RollVerdict = [p \in Pipe |-> RollVerdict[p]]
    /\ RollScope = [p \in Pipe |-> RollScope[p]]
    /\ RollThere = [p \in Pipe |-> RollThere[p]]
    /\ RollVerdict' = [p \in Pipe |-> RollVerdict'[p]]
    /\ RollScope' = [p \in Pipe |-> RollScope'[p]]
    /\ RollThere' = [p \in Pipe |-> RollThere'[p]]
BY DEF RollVerdict, RollScope, RollThere

(* The roll-out of q as it was.                                            *)
RollSame(q) ==
    /\ RollVerdict'[q] = RollVerdict[q]
    /\ RollScope'[q] = RollScope[q]
    /\ RollThere'[q] = RollThere[q]

(* A step that no other pipeline's roll-out notices changes p's only.      *)
LEMMA RollAt ==
    ASSUME NEW p \in Pipe, \A q \in Pipe \ {p} : RollSame(q)
    PROVE  /\ RollVerdict' = [RollVerdict EXCEPT ![p] = RollVerdict'[p]]
           /\ RollScope' = [RollScope EXCEPT ![p] = RollScope'[p]]
           /\ RollThere' = [RollThere EXCEPT ![p] = RollThere'[p]]
BY RollMaps, ChangedAt DEF RollSame

LEMMA RollNone ==
    ASSUME \A q \in Pipe : RollSame(q)
    PROVE  UNCHANGED <<RollVerdict, RollScope, RollThere>>
BY RollMaps DEF RollSame

(* Once d holds the commit, no step of the deployment takes it off again.  *)
LEMMA HoldsStays ==
    ASSUME PushTypeOK, LoopInv, NEW p \in Pipe, NEW d \in Dev, Sound(p, d),
           AtDevice(p, d), stage[p] = "deploy", Holds(p, d)
    PROVE  Holds(p, d)'
<1>1. head' = head /\ (sess'[p][d] = "rollback" => backup'[p] = backup[p])
  <2>1. CASE DeployConnect(p, d)
    BY <2>1 DEF DeployConnect, PushTypeOK
  <2>2. CASE ~DeployConnect(p, d)
    BY <2>2, SessionOpens, DeviceFrame
  <2> QED
    BY <2>1, <2>2, DeviceFrame
<1>2. running'[d] = head[p][d]
  <2>1. \/ running'[d] = running[d]
        \/ running'[d] = Remediated(p, d)
        \/ \E add \in SUBSET ToAdd(p, d), del \in SUBSET ToRemove(p, d) :
             running'[d] = Entered(running[d], add, del)
        \/ /\ sess[p][d] = "rollback"
           /\ \E back \in SUBSET backup[p] : running'[d] = running[d] \cup back
    BY DEF AtDevice, DeviceStep, DeviceFails, GateCheck, GateError, GenerateDiff,
       GenerateDiffFails, DeployConnect, DeployNothing, DeployConnectFails, NapalmCompare,
       NapalmCommit, NapalmException, AsaApply, AsaApplyRefused, AsaSave, AsaRollback,
       AsaRollbackRefused, AsaLost, fleetVars, deviceVars, PushTypeOK, FleetTypeOK, Tree
  <2> QED
    BY <2>1 DEF Holds, Remediated, Entered, ToAdd, ToRemove
<1>3. sess'[p][d] = "rollback" => backup[p] \subseteq head[p][d]
  <2> SUFFICES ASSUME sess'[p][d] = "rollback" PROVE backup[p] \subseteq head[p][d]
    OBVIOUS
  <2>1. sess[p][d] = "rollback" \/ AsaApplyRefused(p, d)
    <3>1. ~DeployConnect(p, d) /\ ~NapalmCompare(p, d) /\ ~AsaApply(p, d)
      BY DEF DeployConnect, NapalmCompare, AsaApply, Finish, Continue, PushTypeOK
    <3>2. ~\E ok \in BOOLEAN : Finish(p, d, ok)
      BY DEF Finish, PushTypeOK
    <3> QED
      BY <3>1, <3>2 DEF AtDevice, DeviceStep, DeviceFails, GateCheck, GateError,
         GenerateDiff, GenerateDiffFails, DeployNothing, DeployConnectFails, NapalmCommit,
         NapalmException, AsaSave, AsaRollback, AsaRollbackRefused, AsaLost
  <2>2. CASE AsaApplyRefused(p, d)
    BY <2>2 DEF AsaApplyRefused, Sound, InSession, Holds
  <2> QED
    BY <2>1, <2>2 DEF Holds
<1> QED
  BY <1>1, <1>2, <1>3 DEF Holds

LEMMA RollValues ==
    ASSUME NEW q \in Pipe
    PROVE  /\ stage[q] \in {"idle", "gate", "blocked", "diff", "nodiff"} =>
                RollVerdict[q] = "none" /\ RollScope[q] = {} /\ RollThere[q] = {}
           /\ stage[q] \in {"deploy", "retry"} =>
                /\ RollVerdict[q] = "running"
                /\ RollScope[q] = Changed(q)
                /\ RollThere[q] = {d \in Changed(q) : Holds(q, d)}
           /\ stage[q] = "failed" =>
                RollVerdict[q] = "failed" /\ RollScope[q] = {} /\ RollThere[q] = {}
           /\ stage[q] = "passed" =>
                RollVerdict[q] = "passed" /\ RollScope[q] = Changed(q) /\ RollThere[q] = Changed(q)
<1>1. RollScope[q] = IF stage[q] \in {"deploy", "retry", "passed"} THEN Changed(q) ELSE {}
  BY DEF RollScope
<1>2. RollThere[q] = {d \in RollScope[q] : stage[q] = "passed" \/ Holds(q, d)}
  BY DEF RollThere
<1>3. /\ stage[q] \in {"idle", "gate", "blocked", "diff", "nodiff"} => RollVerdict[q] = "none"
      /\ stage[q] \in {"deploy", "retry"} => RollVerdict[q] = "running"
      /\ stage[q] = "failed" => RollVerdict[q] = "failed"
      /\ stage[q] = "passed" => RollVerdict[q] = "passed"
  BY DEF RollVerdict
<1> QED
  BY <1>1, <1>2, <1>3

LEMMA RollValuesNext ==
    ASSUME NEW q \in Pipe
    PROVE  /\ stage'[q] \in {"idle", "gate", "blocked", "diff", "nodiff"} =>
                RollVerdict'[q] = "none" /\ RollScope'[q] = {} /\ RollThere'[q] = {}
           /\ stage'[q] \in {"deploy", "retry"} =>
                /\ RollVerdict'[q] = "running"
                /\ RollScope'[q] = Changed(q)'
                /\ RollThere'[q] = {d \in Changed(q)' : Holds(q, d)'}
           /\ stage'[q] = "failed" =>
                RollVerdict'[q] = "failed" /\ RollScope'[q] = {} /\ RollThere'[q] = {}
           /\ stage'[q] = "passed" =>
                /\ RollVerdict'[q] = "passed"
                /\ RollScope'[q] = Changed(q)'
                /\ RollThere'[q] = Changed(q)'
<1>1. RollScope'[q] = IF stage'[q] \in {"deploy", "retry", "passed"} THEN Changed(q)' ELSE {}
  BY DEF RollScope
<1>2. RollThere'[q] = {d \in RollScope'[q] : stage'[q] = "passed" \/ Holds(q, d)'}
  BY DEF RollThere
<1>3. /\ stage'[q] \in {"idle", "gate", "blocked", "diff", "nodiff"} => RollVerdict'[q] = "none"
      /\ stage'[q] \in {"deploy", "retry"} => RollVerdict'[q] = "running"
      /\ stage'[q] = "failed" => RollVerdict'[q] = "failed"
      /\ stage'[q] = "passed" => RollVerdict'[q] = "passed"
  BY DEF RollVerdict
<1> QED
  BY <1>1, <1>2, <1>3

(* A pipeline that stays in its job, with every device it deploys to where *)
(* it was, has moved nothing.                                              *)
LEMMA RollUntouched ==
    ASSUME PushTypeOK, NEW q \in Pipe,
           stage'[q] = stage[q], head'[q] = head[q], prev'[q] = prev[q],
           stage[q] \in {"deploy", "retry"} =>
             \A d \in Changed(q) : Holds(q, d)' <=> Holds(q, d)
    PROVE  RollSame(q)
<1>1. Changed(q)' = Changed(q) /\ stage[q] \in Stage
  BY DEF Changed, PushTypeOK
<1>2. CASE stage[q] \in {"deploy", "retry"}
  <2>1. {d \in Changed(q)' : Holds(q, d)'} = {d \in Changed(q) : Holds(q, d)}
    BY <1>1, <1>2
  <2> QED
    BY <1>1, <1>2, <2>1, RollValues, RollValuesNext DEF RollSame
<1>3. CASE stage[q] \notin {"deploy", "retry"}
  BY <1>1, <1>3, RollValues, RollValuesNext DEF RollSame, Stage
<1> QED
  BY <1>2, <1>3

LEMMA RollJobs ==
    ASSUME Pipefail, PushTypeOK, LoopInv, \A d \in Dev : DeployInv(d),
           NEW p \in Pipe, JobsStep(p)
    PROVE  [Roll!RolloutNext]_(Roll!rolloutVars)
<1>1. /\ UNCHANGED <<running, sess, backup>>
      /\ \A q \in Pipe \ {p} : /\ stage'[q] = stage[q]
                               /\ head'[q] = head[q]
                               /\ prev'[q] = prev[q]
  BY DEF JobsStep, Push, ValidationFails, GateVerdict, DiffVerdict, DeployVerdict,
     DeployRetry, GateRetry, DiffRetry, Abandon, PushTypeOK, fleetVars, deviceVars
<1>2. \A q \in Pipe \ {p} : RollSame(q)
  BY <1>1, RollUntouched DEF Holds
<1>3. CASE RollSame(p)
  <2>1. UNCHANGED <<RollVerdict, RollScope, RollThere>>
    BY <1>2, <1>3, RollNone
  <2> QED
    BY <2>1 DEF Roll!rolloutVars
<1>4. /\ RollVerdict' = [RollVerdict EXCEPT ![p] = RollVerdict'[p]]
      /\ RollScope' = [RollScope EXCEPT ![p] = RollScope'[p]]
      /\ RollThere' = [RollThere EXCEPT ![p] = RollThere'[p]]
  BY <1>2, RollAt
<1>5. CASE stage'[p] = "failed"
  <2>1. stage[p] \in {"gate", "nodiff", "retry"}
    BY <1>5 DEF JobsStep, Push, ValidationFails, GateVerdict, DiffVerdict, DeployVerdict,
       DeployRetry, GateRetry, DiffRetry, Abandon, PushTypeOK
  <2>2. Roll!GiveUp(p)
    BY <1>4, <1>5, <2>1, RollValues, RollValuesNext DEF Roll!GiveUp
  <2> QED
    BY <2>2 DEF Roll!RolloutNext
<1>6. CASE stage[p] = "diff" /\ stage'[p] = "deploy"
  <2>1. Changed(p)' \in SUBSET Dev /\ {d \in Changed(p)' : Holds(p, d)'} \in SUBSET Dev
    BY DEF Changed
  <2>2. Roll!Begin(p)
    BY <1>4, <1>6, <2>1, RollValues, RollValuesNext DEF Roll!Begin
  <2> QED
    BY <2>2 DEF Roll!RolloutNext
<1>7. CASE stage[p] = "deploy" /\ stage'[p] = "passed"
  <2>1. todo[p] = {} /\ ~flag[p] /\ UNCHANGED <<head, prev>>
    BY <1>7 DEF JobsStep, Push, ValidationFails, GateVerdict, DiffVerdict, DeployVerdict,
       DeployRetry, GateRetry, DiffRetry, Abandon, PushTypeOK
  <2>2. \A d \in Changed(p) : Holds(p, d)
    BY <1>7, <2>1 DEF Holds, DeployInv, Sound, Settled, LoopInv, Changed
  <2>3. Changed(p)' = Changed(p) /\ {d \in Changed(p) : Holds(p, d)} = Changed(p)
    BY <2>1, <2>2 DEF Changed
  <2>4. /\ RollVerdict[p] = "running" /\ RollVerdict'[p] = "passed"
        /\ RollScope[p] = Changed(p) /\ RollScope'[p] = Changed(p)
        /\ RollThere[p] = Changed(p) /\ RollThere'[p] = Changed(p)
    BY <1>7, <2>3, RollValues, RollValuesNext
  <2>5. RollScope' = RollScope /\ RollThere' = RollThere
    BY <1>4, <2>4, RollMaps
  <2>6. Roll!Succeed(p)
    BY <1>4, <2>4, <2>5 DEF Roll!Succeed
  <2> QED
    BY <2>6 DEF Roll!RolloutNext
<1>8. \/ /\ stage[p] \in {"idle", "gate", "blocked", "diff", "nodiff"}
         /\ stage'[p] \in {"gate", "blocked", "diff", "nodiff"}
      \/ /\ stage[p] \in {"deploy", "retry"} /\ stage'[p] \in {"deploy", "retry"}
         /\ UNCHANGED <<head, prev>>
      \/ stage'[p] = "failed"
      \/ stage[p] = "diff" /\ stage'[p] = "deploy"
      \/ stage[p] = "deploy" /\ stage'[p] = "passed"
  BY DEF JobsStep, Push, ValidationFails, GateVerdict, DiffVerdict, DeployVerdict,
     DeployRetry, GateRetry, DiffRetry, Abandon, PushTypeOK
<1>9. CASE /\ stage[p] \in {"idle", "gate", "blocked", "diff", "nodiff"}
           /\ stage'[p] \in {"gate", "blocked", "diff", "nodiff"}
  BY <1>3, <1>9, RollValues, RollValuesNext DEF RollSame
<1>10. CASE /\ stage[p] \in {"deploy", "retry"} /\ stage'[p] \in {"deploy", "retry"}
            /\ UNCHANGED <<head, prev>>
  <2>1. Changed(p)' = Changed(p) /\ \A d \in Dev : Holds(p, d)' <=> Holds(p, d)
    BY <1>1, <1>10 DEF Changed, Holds
  <2>2. {d \in Changed(p)' : Holds(p, d)'} = {d \in Changed(p) : Holds(p, d)}
    BY <2>1 DEF Changed
  <2> QED
    BY <1>3, <1>10, <2>1, <2>2, RollValues, RollValuesNext DEF RollSame
<1> QED
  BY <1>5, <1>6, <1>7, <1>8, <1>9, <1>10

LEMMA RollDevice ==
    ASSUME PushTypeOK, LoopInv, \A e \in Dev : DeployInv(e) /\ Alone(e),
           NEW p \in Pipe, NEW d \in Dev, AtDevice(p, d)
    PROVE  [Roll!RolloutNext]_(Roll!rolloutVars)
<1>1. /\ UNCHANGED <<stage, head, prev>>
      /\ Active(p) /\ d \in Changed(p) /\ Sound(p, d)
  BY DeviceFrame, AtWork DEF DeployInv
<1>2. ASSUME NEW q \in Pipe, NEW e \in Dev, e \in Changed(q), Active(q), ~(q = p /\ e = d)
      PROVE  Holds(q, e)' <=> Holds(q, e)
  <2>1. e # d
    BY <1>1, <1>2 DEF Alone
  <2>2. running'[e] = running[e] /\ sess'[q][e] = sess[q][e]
    BY <1>2, <2>1, DeviceFrame
  <2>3. sess[q][e] # "none" => backup'[q] = backup[q]
    BY <2>1, DeviceFrame DEF LoopInv, NoSess
  <2> QED
    BY <1>1, <2>2, <2>3 DEF Holds
<1>3. \A q \in Pipe \ {p} : RollSame(q)
  BY <1>1, <1>2, RollUntouched DEF Active, Changed
<1>4. CASE Holds(p, d)' <=> Holds(p, d)
  <2>1. RollSame(p)
    BY <1>1, <1>2, <1>4, RollUntouched DEF Changed
  <2>2. UNCHANGED <<RollVerdict, RollScope, RollThere>>
    BY <1>3, <2>1, RollNone
  <2> QED
    BY <2>2 DEF Roll!rolloutVars
<1>5. CASE ~Holds(p, d) /\ Holds(p, d)' /\ stage[p] = "deploy"
  <2>1. Changed(p)' = Changed(p)
    BY <1>1 DEF Changed
  <2>2. {e \in Changed(p) : Holds(p, e)'} = {e \in Changed(p) : Holds(p, e)} \cup {d}
    BY <1>1, <1>2, <1>5 DEF Changed
  <2>3. /\ RollVerdict[p] = "running" /\ RollVerdict'[p] = "running"
        /\ RollScope[p] = Changed(p) /\ RollScope'[p] = Changed(p)
        /\ RollThere[p] = {e \in Changed(p) : Holds(p, e)}
        /\ RollThere'[p] = RollThere[p] \cup {d}
    BY <1>1, <1>5, <2>1, <2>2, RollValues, RollValuesNext
  <2>4. /\ RollVerdict' = [RollVerdict EXCEPT ![p] = RollVerdict'[p]]
        /\ RollScope' = [RollScope EXCEPT ![p] = RollScope'[p]]
        /\ RollThere' = [RollThere EXCEPT ![p] = RollThere'[p]]
    BY <1>3, RollAt
  <2>5. RollVerdict' = RollVerdict /\ RollScope' = RollScope
    BY <2>3, <2>4, RollMaps
  <2>6. Roll!Arrive(p, d)
    BY <1>1, <1>5, <2>3, <2>4, <2>5 DEF Roll!Arrive
  <2> QED
    BY <2>6 DEF Roll!RolloutNext
<1>6. CASE Holds(p, d) /\ ~Holds(p, d)' /\ stage[p] = "deploy"
  BY <1>1, <1>6, HoldsStays
<1>7. CASE stage[p] # "deploy"
  <2>1. RollSame(p)
    BY <1>1, <1>7, AtWork, RollUntouched
  <2>2. UNCHANGED <<RollVerdict, RollScope, RollThere>>
    BY <1>3, <2>1, RollNone
  <2> QED
    BY <2>2 DEF Roll!rolloutVars
<1> QED
  BY <1>4, <1>5, <1>6, <1>7

LEMMA RollHands ==
    ASSUME PushTypeOK, NEW d \in Dev, HandsOn(d), HandsOff(d)
    PROVE  [Roll!RolloutNext]_(Roll!rolloutVars)
<1>1. UNCHANGED pipeVars /\ \A e \in Dev \ {d} : running'[e] = running[e]
  BY DEF HandsOn, SshEdit, Reload, PushTypeOK, FleetTypeOK, Tree
<1>2. ASSUME NEW q \in Pipe PROVE RollSame(q)
  <2>1. d \in Changed(q) => ~Active(q)
    BY DEF HandsOff, Busy
  <2> QED
    BY <1>1, <2>1, RollUntouched DEF pipeVars, Holds, Active, Changed
<1>3. UNCHANGED <<RollVerdict, RollScope, RollThere>>
  BY <1>2, RollNone
<1> QED
  BY <1>3 DEF Roll!rolloutVars

LEMMA RollStays ==
    ASSUME UNCHANGED pushVars
    PROVE  UNCHANGED Roll!rolloutVars
BY DEF pushVars, pipeVars, fleetVars, Roll!rolloutVars, RollVerdict, RollScope, RollThere,
   Holds, Changed

LEMMA RollInit == PushInit => Roll!RolloutInit
<1> SUFFICES ASSUME PushInit PROVE Roll!RolloutInit
  OBVIOUS
<1>1. \A q \in Pipe : RollVerdict[q] = "none" /\ RollScope[q] = {} /\ RollThere[q] = {}
  BY RollValues DEF PushInit
<1> QED
  BY <1>1, RollMaps DEF Roll!RolloutInit

(* Each step of the pipeline is a step of the roll-out or none.            *)
LEMMA RollStep ==
    ASSUME Quiet, Pipefail, PushTypeOK, LoopInv, GreenInv, [PushNext]_pushVars
    PROVE  [Roll!RolloutNext]_(Roll!rolloutVars)
<1>1. \A d \in Dev : DeployInv(d) /\ Alone(d) /\ HandsOff(d)
  BY AloneEverywhere, HandsAreOff DEF GreenInv
<1>2. ASSUME NEW p \in Pipe, JobsStep(p) PROVE [Roll!RolloutNext]_(Roll!rolloutVars)
  BY <1>1, <1>2, RollJobs
<1>3. ASSUME NEW p \in Pipe, NEW d \in Dev, AtDevice(p, d)
      PROVE  [Roll!RolloutNext]_(Roll!rolloutVars)
  BY <1>1, <1>3, RollDevice
<1>4. ASSUME NEW d \in Dev, HandsOn(d) PROVE [Roll!RolloutNext]_(Roll!rolloutVars)
  BY <1>1, <1>4, RollHands
<1>5. CASE UNCHANGED pushVars
  BY <1>5, RollStays
<1> QED
  BY <1>2, <1>3, <1>4, <1>5 DEF PushNext, AtDevice

(* Failures, lost sessions, rollbacks and retries are steps of a roll-out  *)
(* that never lets go of a device it has reached, and the pipeline passes  *)
(* only when it has reached all.                                           *)
THEOREM PushRollsForward ==
    ASSUME Quiet, Serial, Pipefail
    PROVE  PushSpec => RollsForward
<1>1. PushTypeOK /\ LoopInv /\ GreenInv /\ [PushNext]_pushVars =>
        [Roll!RolloutNext]_(Roll!rolloutVars)
  BY RollStep
<1> QED
  BY <1>1, RollInit, GreenCorrect, TypeCorrect, LoopCorrect, PTL
  DEF PushSpec, RollsForward, Roll!RolloutSpec
=============================================================================
