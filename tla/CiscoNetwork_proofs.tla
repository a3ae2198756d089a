------------------------ MODULE CiscoNetwork_proofs -------------------------
(***************************************************************************)
(* What was proved of the push pipeline and of the drift job each for      *)
(* itself still holds when both work on the same devices and the same      *)
(* main: neither breaks the invariants the other one relies on.            *)
(***************************************************************************)
EXTENDS CiscoNetwork, PushPipeline_proofs, DriftSync_proofs

-----------------------------------------------------------------------------
(* How a step of the whole looks to each of the two.                       *)

(* Outages and acknowledgments, or a step of the drift job.                *)
Elsewhere == JobStep \/ \E d \in Dev : Surroundings(d)

LEMMA NetworkStep ==
    ASSUME [NetworkNext]_networkVars
    PROVE  \/ [PushNext]_pushVars /\ UNCHANGED ownVars
           \/ Elsewhere /\ UNCHANGED pipeVars
<1>1. CASE PipelineActs
  BY <1>1 DEF PipelineActs, PushNext
<1>2. CASE DriftJobActs \/ EnvironmentActs
  BY <1>2 DEF DriftJobActs, EnvironmentActs, Elsewhere, PushNext
<1>3. CASE UNCHANGED networkVars
  BY <1>3 DEF networkVars, pushVars
<1> QED
  BY <1>1, <1>2, <1>3 DEF NetworkNext

(* The drift job writes Git and never a device, and its commits only add   *)
(* to what was recorded.                                                   *)
LEMMA ElsewhereKeepsDevices ==
    ASSUME SyncTypeOK, Elsewhere
    PROVE  /\ UNCHANGED <<running, startup, ssh>>
           /\ \A d \in Dev : recorded[d] \subseteq recorded'[d]
<1>1. ASSUME NEW d \in Dev, Surroundings(d) PROVE UNCHANGED fleetVars
  BY <1>1 DEF Surroundings, Outage, Recover, Acknowledge, Expire
<1>2. ASSUME JobStep PROVE UNCHANGED <<running, startup, ssh>>
  BY <1>2 DEF JobStep, JobStart, DetectVerdict, DetectCrash, SyncVerdict, SyncCrash, SyncStart,
              JobEnd, DetectDevice, SyncDevice, SyncDeviceFails, GuardrailTimeout,
              fleetVars, deviceVars
<1>3. ASSUME JobStep PROVE UNCHANGED recorded \/ Commit(tree, tree)
  BY <1>3 DEF JobStep, JobStart, DetectVerdict, DetectCrash, SyncVerdict, SyncCrash, SyncStart,
              DetectDevice, SyncDevice, SyncDeviceFails, GuardrailTimeout, fleetVars
<1> QED
  BY <1>1, <1>2, <1>3 DEF Elsewhere, fleetVars, Commit, SyncTypeOK, FleetTypeOK, Tree

(* A pipeline, or an administrator, takes the checkout off the tip of main *)
(* whenever it moves main.                                                 *)
LEMMA PipelineMovesTip ==
    ASSUME [PushNext]_pushVars
    PROVE  UNCHANGED <<main, tip>> \/ ~tip'
<1>1. ASSUME NEW p \in Pipe, JobsStep(p) PROVE UNCHANGED <<main, tip>> \/ ~tip'
  BY <1>1 DEF JobsStep, Push, ValidationFails, GateVerdict, DiffVerdict, DeployVerdict,
              DeployRetry, GateRetry, DiffRetry, Abandon, fleetVars
<1>2. ASSUME NEW p \in Pipe, NEW d \in Dev, DeviceStep(p, d) \/ DeviceFails(p, d)
      PROVE  UNCHANGED <<main, tip>>
  BY <1>2 DEF DeviceStep, DeviceFails, GateCheck, GenerateDiff, DeployConnect,
     NapalmCompare, NapalmCommit, AsaApply, AsaApplyRefused, AsaSave, AsaRollback,
     GateError, GenerateDiffFails, DeployNothing, DeployConnectFails,
     NapalmException, AsaRollbackRefused, AsaLost, Finish, Continue, fleetVars, gitVars
<1>3. ASSUME NEW d \in Dev, HandsOn(d) PROVE UNCHANGED <<main, tip>>
  BY <1>3 DEF HandsOn, SshEdit, Reload, gitVars
<1>4. CASE UNCHANGED pushVars
  BY <1>4 DEF pushVars, fleetVars
<1> QED
  BY <1>1, <1>2, <1>3, <1>4 DEF PushNext

-----------------------------------------------------------------------------
(* Type correctness of the whole.                                          *)
LEMMA NetworkInitType == NetworkInit => NetworkTypeOK
<1> SUFFICES ASSUME NetworkInit PROVE NetworkTypeOK
  OBVIOUS
<1>1. PushTypeOK
  BY InitType DEF NetworkInit
<1>2. SyncTypeOK
  BY SyncInitType DEF NetworkInit, PushInit, SyncInit
<1> QED
  BY <1>1, <1>2 DEF NetworkTypeOK

LEMMA NetworkNextType == NetworkTypeOK /\ [NetworkNext]_networkVars => NetworkTypeOK'
<1> SUFFICES ASSUME PushTypeOK, SyncTypeOK, [NetworkNext]_networkVars
             PROVE  PushTypeOK' /\ SyncTypeOK'
  BY DEF NetworkTypeOK
<1>1. CASE [PushNext]_pushVars /\ UNCHANGED ownVars
  <2>1. PushTypeOK'
    BY <1>1, NextType
  <2> QED
    BY <1>1, <2>1 DEF PushTypeOK, SyncTypeOK, ownVars, jobVars
<1>2. CASE Elsewhere /\ UNCHANGED pipeVars
  <2>1. SyncTypeOK'
    BY <1>2, JobStepType, AroundType DEF Elsewhere
  <2> QED
    BY <1>2, <2>1 DEF PushTypeOK, SyncTypeOK, pipeVars
<1> QED
  BY <1>1, <1>2, NetworkStep

(* The state of both jobs keeps its shape.                                 *)
THEOREM NetworkTypeCorrect == NetworkSpec => []NetworkTypeOK
BY NetworkInitType, NetworkNextType, PTL DEF NetworkSpec

-----------------------------------------------------------------------------
(* The drift job next to pipelines.                                        *)
LEMMA NetworkInitJob == NetworkInit => JobInv
BY SyncInitJob DEF NetworkInit, PushInit, SyncInit

LEMMA NetworkNextJob ==
    NetworkTypeOK /\ JobInv /\ [NetworkNext]_networkVars => JobInv'
<1> SUFFICES ASSUME SyncTypeOK, JobInv, [NetworkNext]_networkVars PROVE JobInv'
  BY DEF NetworkTypeOK
<1>1. CASE [PushNext]_pushVars /\ UNCHANGED ownVars
  BY <1>1, PipelineMovesTip, AroundJob DEF ownVars
<1>2. ASSUME NEW d \in Dev, Surroundings(d) PROVE JobInv'
  BY <1>2, AroundJob DEF Surroundings, Outage, Recover, Acknowledge, Expire, fleetVars
<1> QED
  BY <1>1, <1>2, NetworkStep, JobStepJob DEF Elsewhere

(* Only the job's own steps end it.                                        *)
LEMMA NetworkJobEnds ==
    ASSUME [NetworkNext]_networkVars, JobEnds
    PROVE  JobStep
BY NetworkStep DEF Elsewhere, JobEnds, ownVars, jobVars, Surroundings, Outage, Recover,
   Acknowledge, Expire

(* Next to any number of pipelines, too, a push of the drift job lands on  *)
(* the commit it cloned: a commit that reaches main while the job runs is  *)
(* not overwritten, whichever files it is about.                           *)
THEOREM NetworkPushesOnlyDrift == NetworkSpec => PublishesOnlyDrift
<1>1. NetworkTypeOK /\ JobInv /\ [NetworkNext]_networkVars =>
        (JobEnds /\ main' # main =>
           /\ main = cloned
           /\ \A d \in Dev : main'[d] # cloned[d] =>
                main'[d] = seen[d] /\ ~WhitelistRefuses(d, main'[d]))
  BY NetworkJobEnds, JobEndPublishes DEF NetworkTypeOK
<1> QED
  BY <1>1, NetworkTypeCorrect, NetworkInitJob, NetworkNextJob, PTL
  DEF NetworkSpec, PublishesOnlyDrift

(* Next to any number of pipelines a green job still has verified every    *)
(* device that is not acknowledged as unreachable.                         *)
THEOREM NetworkGreenIsVerified == NetworkSpec => GreenMeansVerified
<1>1. NetworkTypeOK /\ JobInv /\ [NetworkNext]_networkVars =>
        (JobEnds /\ exit' = 0 =>
           \A d \in Dev \ acked : d \notin failed /\ tree[d] = seen[d])
  BY NetworkJobEnds, JobEndVerifies DEF NetworkTypeOK
<1> QED
  BY <1>1, NetworkTypeCorrect, NetworkInitJob, NetworkNextJob, PTL
  DEF NetworkSpec, GreenMeansVerified

(* A step at a device does not move main, and one that moves main does not *)
(* touch a device.                                                         *)
LEMMA OneSideMoves ==
    ASSUME [PushNext]_pushVars
    PROVE  UNCHANGED main \/ UNCHANGED running
<1>1. ASSUME NEW p \in Pipe, JobsStep(p) PROVE UNCHANGED running
  BY <1>1 DEF JobsStep, Push, ValidationFails, GateVerdict, DiffVerdict, DeployVerdict,
              DeployRetry, GateRetry, DiffRetry, Abandon, fleetVars, deviceVars
<1>2. ASSUME NEW p \in Pipe, NEW d \in Dev, DeviceStep(p, d) \/ DeviceFails(p, d)
      PROVE  UNCHANGED main
  BY <1>2 DEF DeviceStep, DeviceFails, GateCheck, GenerateDiff, DeployConnect,
     NapalmCompare, NapalmCommit, AsaApply, AsaApplyRefused, AsaSave, AsaRollback,
     GateError, GenerateDiffFails, DeployNothing, DeployConnectFails,
     NapalmException, AsaRollbackRefused, AsaLost, Finish, Continue, fleetVars, gitVars
<1>3. ASSUME NEW d \in Dev, HandsOn(d) PROVE UNCHANGED main
  BY <1>3 DEF HandsOn, SshEdit, Reload, gitVars
<1>4. CASE UNCHANGED pushVars
  BY <1>4 DEF pushVars, fleetVars
<1> QED
  BY <1>1, <1>2, <1>3, <1>4 DEF PushNext

LEMMA NetworkNextStaged ==
    NetworkTypeOK /\ StagedInv /\ [NetworkNext]_networkVars => StagedInv'
<1> SUFFICES ASSUME SyncTypeOK, StagedInv, [NetworkNext]_networkVars PROVE StagedInv'
  BY DEF NetworkTypeOK
<1>1. CASE [PushNext]_pushVars /\ UNCHANGED ownVars
  BY <1>1, PipelineMovesTip, AroundStaged DEF ownVars
<1>2. ASSUME NEW d \in Dev, Surroundings(d) PROVE StagedInv'
  BY <1>2, AroundStaged DEF Surroundings, Outage, Recover, Acknowledge, Expire, fleetVars
<1> QED
  BY <1>1, <1>2, NetworkStep, JobStepStaged DEF Elsewhere

(* With the pipelines' pushes and deployments around it the drift job is   *)
(* still as good as one that edits main in place.                          *)
THEOREM NetworkMirrors == NetworkSpec => MirrorsDevices
<1>1. NetworkInit => StagedInv /\ Mir!MirrorInit
  BY SyncInitStaged, MirrorInitial DEF NetworkInit, PushInit, SyncInit
<1>2. NetworkTypeOK /\ StagedInv /\ [NetworkNext]_networkVars =>
        [Mir!MirrorNext]_(Mir!mirrorVars)
  <2> SUFFICES ASSUME SyncTypeOK, StagedInv, [NetworkNext]_networkVars
               PROVE  [Mir!MirrorNext]_(Mir!mirrorVars)
    BY DEF NetworkTypeOK
  <2>1. CASE [PushNext]_pushVars /\ UNCHANGED ownVars
    BY <2>1, OneSideMoves, MirrorAround DEF ownVars
  <2> QED
    BY <2>1, NetworkStep, MirrorJob, MirrorSurroundings DEF Elsewhere
<1> QED
  BY <1>1, <1>2, NetworkTypeCorrect, NetworkNextStaged, PTL
  DEF NetworkSpec, MirrorsDevices, Mir!MirrorSpec

-----------------------------------------------------------------------------
(* Pipelines next to the drift job.  What carries the theorems about       *)
(* pipelines over is that the drift job keeps its hands off their state    *)
(* and off the devices, and only adds to what is recorded in Git.          *)

LEMMA ElsewhereKeepsPipelines ==
    ASSUME SyncTypeOK, Elsewhere, UNCHANGED pipeVars
    PROVE  /\ LoopInv => LoopInv'
           /\ \A d \in Dev : RecordedInv(d) => RecordedInv(d)'
           /\ \A d \in Dev : DeployInv(d) => DeployInv(d)'
           /\ AloneInv => AloneInv'
           /\ UNCHANGED Roll!rolloutVars
<1>1. UNCHANGED running /\ \A d \in Dev : recorded[d] \subseteq recorded'[d]
  BY ElsewhereKeepsDevices
<1> USE DEF pipeVars, Active, Changed
<1>2. LoopInv => LoopInv'
  BY <1>1 DEF LoopInv, HeadRecorded
<1>3. ASSUME NEW d \in Dev, RecordedInv(d) PROVE RecordedInv(d)'
  BY <1>1, <1>3 DEF RecordedInv, ClearedKnown, BackupKnown, Cleared, Known
<1>4. ASSUME NEW d \in Dev, DeployInv(d) PROVE DeployInv(d)'
  BY <1>1, <1>4 DEF DeployInv, Sound, Diffed, Banded, Settled, InSession, Between
<1>5. AloneInv => AloneInv'
  BY DEF AloneInv
<1>6. UNCHANGED Roll!rolloutVars
  BY <1>1 DEF Roll!rolloutVars, RollVerdict, RollScope, RollThere, Holds
<1> QED
  BY <1>2, <1>3, <1>4, <1>5, <1>6

(* The loop of each job, and with it what every theorem below starts from. *)
NetworkLoopInv == NetworkTypeOK /\ LoopInv

LEMMA NetworkLoopCorrect == NetworkSpec => []NetworkLoopInv
<1>1. NetworkInit => LoopInv
  BY InitLoop DEF NetworkInit
<1>2. NetworkTypeOK /\ LoopInv /\ [NetworkNext]_networkVars => LoopInv'
  BY NetworkStep, NextLoop, ElsewhereKeepsPipelines DEF NetworkTypeOK
<1> QED
  BY <1>1, <1>2, NetworkTypeCorrect, PTL DEF NetworkSpec, NetworkLoopInv

(* A session moves, and a pipeline passes, in steps of a pipeline.         *)
LEMMA PipelineMoves ==
    ASSUME [NetworkNext]_networkVars, ~UNCHANGED pipeVars
    PROVE  [PushNext]_pushVars
BY NetworkStep

LEMMA NetworkNextRecorded ==
    ASSUME NetworkLoopInv, NEW d \in Dev, RecordedInv(d), [NetworkNext]_networkVars,
           [HandsOff(d) /\ Gated(d)]_networkVars
    PROVE  RecordedInv(d)'
<1>1. [HandsOff(d) /\ Gated(d)]_pushVars
  BY DEF networkVars, pushVars
<1> QED
  BY <1>1, NetworkStep, NextRecorded, ElsewhereKeepsPipelines DEF NetworkLoopInv, NetworkTypeOK

LEMMA NetworkStepLosesNothing ==
    ASSUME NetworkLoopInv, NEW d \in Dev, RecordedInv(d), [NetworkNext]_networkVars,
           NEW p \in Pipe, Deploys(p, d)
    PROVE  running[d] \ running'[d] \subseteq recorded[d] \cup Repeated
<1>1. [PushNext]_pushVars
  BY PipelineMoves DEF Deploys, pipeVars
<1> QED
  BY <1>1, StepLosesNothing DEF NetworkLoopInv, NetworkTypeOK, Known

(* What DeviceLosesNothing says of one device holds although the drift job *)
(* commits to main, from the same device, at any time.                     *)
THEOREM NetworkDeviceLosesNothing ==
    ASSUME NEW d \in Dev
    PROVE  NetworkSpec /\ [][HandsOff(d) /\ Gated(d)]_networkVars =>
             [][\A p \in Pipe : Deploys(p, d) =>
                  running[d] \ running'[d] \subseteq recorded[d] \cup Repeated]_networkVars
<1>1. NetworkInit => RecordedInv(d)
  BY InitRecorded DEF NetworkInit
<1>2. NetworkLoopInv /\ RecordedInv(d) /\ [NetworkNext]_networkVars
        /\ [HandsOff(d) /\ Gated(d)]_networkVars => RecordedInv(d)'
  BY NetworkNextRecorded
<1>3. NetworkLoopInv /\ RecordedInv(d) /\ [NetworkNext]_networkVars =>
        \A p \in Pipe : Deploys(p, d) =>
          running[d] \ running'[d] \subseteq recorded[d] \cup Repeated
  BY NetworkStepLosesNothing
<1> QED
  BY <1>1, <1>2, <1>3, NetworkLoopCorrect, PTL DEF NetworkSpec

(* On a quiet site with a working gate, no deployment wipes an unreported  *)
(* line although the drift job commits to main meanwhile.                  *)
THEOREM NetworkLosesNothing ==
    ASSUME Quiet, Repeated = {}, "gate" \notin Faults
    PROVE  NetworkSpec => NoUnreportedLoss
<1>1. NetworkInit => AllRecorded
  BY InitRecorded DEF NetworkInit, AllRecorded
<1>2. NetworkLoopInv /\ AllRecorded /\ [NetworkNext]_networkVars => AllRecorded'
  BY NetworkNextRecorded, QuietSite DEF AllRecorded
<1>3. NetworkLoopInv /\ AllRecorded /\ [NetworkNext]_networkVars =>
        \A p \in Pipe, d \in Dev :
          Deploys(p, d) => running[d] \ running'[d] \subseteq recorded[d]
  BY NetworkStepLosesNothing DEF AllRecorded
<1> QED
  BY <1>1, <1>2, <1>3, NetworkLoopCorrect, PTL DEF NetworkSpec, NoUnreportedLoss

LEMMA NetworkNextDeploy ==
    ASSUME NetworkLoopInv, NEW d \in Dev, DeployInv(d), Alone(d),
           [NetworkNext]_networkVars, [HandsOff(d)]_networkVars
    PROVE  DeployInv(d)'
<1>1. [HandsOff(d)]_pushVars
  BY DEF networkVars, pushVars
<1> QED
  BY <1>1, NetworkStep, NextDeploy, ElsewhereKeepsPipelines DEF NetworkLoopInv, NetworkTypeOK

LEMMA NetworkPassesDeployed ==
    ASSUME NetworkLoopInv, NEW d \in Dev, DeployInv(d), Pipefail, [NetworkNext]_networkVars,
           NEW p \in Pipe, stage[p] = "deploy", stage'[p] = "passed", d \in Changed(p)
    PROVE  running'[d] = head[p][d]
<1>1. [PushNext]_pushVars
  BY PipelineMoves DEF pipeVars
<1> QED
  BY <1>1, StepPassesDeployed DEF NetworkLoopInv, NetworkTypeOK

(* What DeviceIsDeployed says of one device holds next to the drift job.   *)
THEOREM NetworkDeviceIsDeployed ==
    ASSUME Pipefail, NEW d \in Dev
    PROVE  NetworkSpec /\ []Alone(d) /\ [][HandsOff(d)]_networkVars =>
             [][\A p \in Pipe :
                  stage[p] = "deploy" /\ stage'[p] = "passed" /\ d \in Changed(p) =>
                    running'[d] = head[p][d]]_networkVars
<1>1. NetworkInit => DeployInv(d)
  BY InitDeploy DEF NetworkInit
<1>2. NetworkLoopInv /\ DeployInv(d) /\ Alone(d) /\ [NetworkNext]_networkVars
        /\ [HandsOff(d)]_networkVars => DeployInv(d)'
  BY NetworkNextDeploy
<1>3. NetworkLoopInv /\ DeployInv(d) /\ [NetworkNext]_networkVars =>
        \A p \in Pipe :
          stage[p] = "deploy" /\ stage'[p] = "passed" /\ d \in Changed(p) =>
            running'[d] = head[p][d]
  BY NetworkPassesDeployed
<1> QED
  BY <1>1, <1>2, <1>3, NetworkLoopCorrect, PTL DEF NetworkSpec

-----------------------------------------------------------------------------
(* The whole site, with pushes that wait for one another.                  *)

LEMMA NetworkGreenCorrect == ASSUME Quiet, Serial PROVE NetworkSpec => []GreenInv
<1>1. NetworkInit => GreenInv
  BY InitGreen DEF NetworkInit
<1>2. NetworkLoopInv /\ GreenInv /\ [NetworkNext]_networkVars => GreenInv'
  BY NetworkStep, NextGreen, ElsewhereKeepsPipelines
  DEF NetworkLoopInv, NetworkTypeOK, GreenInv
<1> QED
  BY <1>1, <1>2, NetworkLoopCorrect, PTL DEF NetworkSpec

(* A device stays between the diff's base and HEAD through failures,       *)
(* rollbacks and retries although the drift job commits to main meanwhile. *)
THEOREM NetworkIsBounded ==
    ASSUME Quiet, Serial
    PROVE  NetworkSpec => []DeployStaysBetween
BY NetworkGreenCorrect, GreenIsBetween, PTL

(* Each session, too, leaves its device between what it found and HEAD.    *)
THEOREM NetworkSessionIsBounded ==
    ASSUME Quiet, Serial
    PROVE  NetworkSpec => SessionStaysBetween
<1>1. NetworkLoopInv /\ GreenInv /\ [NetworkNext]_networkVars =>
        \A p \in Pipe, d \in Dev :
          sess[p][d] # "none" /\ sess'[p][d] = "none" =>
            /\ head[p][d] \cap backup[p] \subseteq running'[d]
            /\ running'[d] \subseteq head[p][d] \cup backup[p]
            /\ AsaRollback(p, d) => backup[p] \subseteq running'[d]
  <2> SUFFICES ASSUME NetworkLoopInv, GreenInv, [NetworkNext]_networkVars,
                      NEW p \in Pipe, NEW d \in Dev,
                      sess[p][d] # "none", sess'[p][d] = "none"
               PROVE  /\ head[p][d] \cap backup[p] \subseteq running'[d]
                      /\ running'[d] \subseteq head[p][d] \cup backup[p]
                      /\ AsaRollback(p, d) => backup[p] \subseteq running'[d]
    OBVIOUS
  <2>1. [PushNext]_pushVars
    BY PipelineMoves DEF pipeVars
  <2> QED
    BY <2>1, StepEndsBetween DEF NetworkLoopInv, NetworkTypeOK, GreenInv
<1> QED
  BY <1>1, NetworkGreenCorrect, NetworkLoopCorrect, PTL DEF NetworkSpec, SessionStaysBetween

(* With pushes one at a time a green deployment has deployed, although the *)
(* drift job commits to main meanwhile.                                    *)
THEOREM NetworkGreenIsDeployed ==
    ASSUME Quiet, Serial, Pipefail
    PROVE  NetworkSpec => GreenMeansDeployed
<1>1. NetworkLoopInv /\ GreenInv /\ [NetworkNext]_networkVars =>
        \A p \in Pipe :
          stage[p] = "deploy" /\ stage'[p] = "passed" =>
            \A d \in Changed(p) : running'[d] = head[p][d]
  BY NetworkPassesDeployed DEF GreenInv, Changed
<1> QED
  BY <1>1, NetworkGreenCorrect, NetworkLoopCorrect, PTL DEF NetworkSpec, GreenMeansDeployed

(* The pipeline next to the drift job still implements Rollout: what the   *)
(* drift job commits meanwhile takes no device off its commit.             *)
THEOREM NetworkRollsForward ==
    ASSUME Quiet, Serial, Pipefail
    PROVE  NetworkSpec => RollsForward
<1>1. NetworkInit => Roll!RolloutInit
  BY RollInit DEF NetworkInit
<1>2. NetworkLoopInv /\ GreenInv /\ [NetworkNext]_networkVars =>
        [Roll!RolloutNext]_(Roll!rolloutVars)
  <2> SUFFICES ASSUME NetworkLoopInv, GreenInv, [NetworkNext]_networkVars
               PROVE  [Roll!RolloutNext]_(Roll!rolloutVars)
    OBVIOUS
  <2>1. CASE [PushNext]_pushVars
    BY <2>1, RollStep DEF NetworkLoopInv, NetworkTypeOK
  <2>2. CASE Elsewhere /\ UNCHANGED pipeVars
    BY <2>2, ElsewhereKeepsPipelines DEF NetworkLoopInv, NetworkTypeOK
  <2> QED
    BY <2>1, <2>2, NetworkStep
<1> QED
  BY <1>1, <1>2, NetworkGreenCorrect, NetworkLoopCorrect, PTL
  DEF NetworkSpec, RollsForward, Roll!RolloutSpec
=============================================================================
