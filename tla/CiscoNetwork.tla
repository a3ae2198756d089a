---------------------------- MODULE CiscoNetwork ----------------------------
(***************************************************************************)
(* The push pipeline and the drift job together, over the same devices and *)
(* the same main branch, with administrators and outages around them.      *)
(* Nothing in ci/cisco.yml keeps the two apart: the lock file of the       *)
(* deploy job is written by it alone and read by no job.                   *)
(*                                                                         *)
(* The commits of the drift job carry the author `GitLab CI Auto-Sync',    *)
(* which the rules of every deploying job skip: they start no pipeline.    *)
(***************************************************************************)
EXTENDS PushPipeline, DriftSync

networkVars == <<fleetVars, pipeVars, ownVars>>

NetworkTypeOK == PushTypeOK /\ SyncTypeOK

NetworkInit == PushInit /\ OwnInit

(* A step of a pipeline: a device that is down gives no answer.            *)
PipelineActs ==
    /\ \/ \E p \in Pipe : JobsStep(p)
       \/ \E p \in Pipe, d \in Dev \ down : DeviceStep(p, d)
       \/ \E p \in Pipe, d \in Dev : DeviceFails(p, d)
    /\ UNCHANGED ownVars

DriftJobActs == JobStep /\ UNCHANGED pipeVars

EnvironmentActs ==
    \/ \E d \in Dev : Surroundings(d) /\ UNCHANGED pipeVars
    \/ \E d \in Dev : HandsOn(d) /\ UNCHANGED ownVars

NetworkNext == PipelineActs \/ DriftJobActs \/ EnvironmentActs

NetworkSpec ==
    /\ NetworkInit
    /\ [][NetworkNext]_networkVars
    /\ WF_networkVars(DriftJobActs)

-----------------------------------------------------------------------------
(* The drift job follows the devices although pipelines push to the files  *)
(* it writes and deploy, roll back and retry what it reads: once nobody    *)
(* runs a deploy job again any more, main settles on what a reachable      *)
(* device holds, even if the last deployment failed, and even if a commit  *)
(* of the drift job has reverted one that was not deployed yet.  (As long  *)
(* as people go on retrying, a device may go back and forth between what   *)
(* refused commands leave, and main follows.)                              *)
NetworkConverges ==
    (\A p \in Pipe : <>[][~DeployRetry(p)]_networkVars) =>
      \A d \in Dev :
        <>[](d \notin down /\ ~RefusedOn(d)) => <>[](main[d] = running[d])
=============================================================================
