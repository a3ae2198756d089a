-------------------------- MODULE DriftSync_proofs --------------------------
(***************************************************************************)
(* Theorems about DriftSync for every set of devices and lines, every      *)
(* bound and every kind of mishap.                                         *)
(***************************************************************************)
EXTENDS DriftSync, TLAPS

-----------------------------------------------------------------------------
(* Type correctness.                                                       *)

LEMMA SyncInitType == SyncInit => SyncTypeOK
<1> SUFFICES ASSUME SyncInit PROVE SyncTypeOK
  OBVIOUS
<1>1. ssh \in 0..MaxSsh /\ mishap \in 0..MaxMishap
  BY FleetAssumption, SyncAssumption DEF SyncInit, FleetInit, OwnInit
<1>2. 0 \in Status
  BY DEF Status
<1> QED
  BY <1>1, <1>2 DEF SyncInit, FleetInit, OwnInit, FleetTypeOK, SyncTypeOK

LEMMA MishapType ==
    ASSUME mishap \in 0..MaxMishap, NEW kind, Mishap(kind)
    PROVE  mishap' \in 0..MaxMishap
BY SyncAssumption DEF Mishap

(* The end of the job, whatever it left on main.                           *)
LEMMA JobEndType ==
    ASSUME SyncTypeOK, NEW status \in Status, JobEnd(status),
           main' \in Tree, recorded' \in Tree, mishap' \in 0..MaxMishap
    PROVE  SyncTypeOK'
BY DEF JobEnd, SyncTypeOK, FleetTypeOK, deviceVars

LEMMA SyncStartType ==
    ASSUME SyncTypeOK, SyncStart, mishap' \in 0..MaxMishap
    PROVE  SyncTypeOK'
BY DEF SyncStart, SyncTypeOK, FleetTypeOK, fleetVars

(* A commit of one tree on top of main is well formed.                     *)
LEMMA CommitType ==
    ASSUME FleetTypeOK, NEW new \in Tree, Commit(new, new)
    PROVE  main' \in Tree /\ recorded' \in Tree
BY DEF Commit, FleetTypeOK, Tree, Config

LEMMA JobStepType == SyncTypeOK /\ JobStep => SyncTypeOK'
<1> SUFFICES ASSUME SyncTypeOK, JobStep PROVE SyncTypeOK'
  OBVIOUS
<1>1. CASE JobStart
  BY <1>1 DEF JobStart, SyncTypeOK, FleetTypeOK, deviceVars
<1>2. CASE DetectVerdict
  <2>1. mishap' \in 0..MaxMishap
    BY <1>2 DEF DetectVerdict, SyncTypeOK
  <2>2. CASE drift
    BY <1>2, <2>1, <2>2, SyncStartType DEF DetectVerdict
  <2>3. CASE ~drift
    <3>1. JobEnd(IF Unacked # {} THEN 3 ELSE 0) /\ UNCHANGED <<main, recorded>>
      BY <1>2, <2>3 DEF DetectVerdict
    <3> QED
      BY <2>1, <3>1, JobEndType DEF SyncTypeOK, FleetTypeOK, Status
  <2> QED
    BY <2>2, <2>3
<1>3. CASE DetectCrash
  <2>1. mishap' \in 0..MaxMishap
    BY <1>3, MishapType DEF DetectCrash, SyncTypeOK
  <2>2. CASE SyncStart
    BY <2>1, <2>2, SyncStartType
  <2>3. CASE UNCHANGED <<main, recorded>> /\ JobEnd(4)
    BY <2>1, <2>3, JobEndType DEF SyncTypeOK, FleetTypeOK, Status
  <2> QED
    BY <1>3, <2>2, <2>3 DEF DetectCrash
<1>4. CASE SyncVerdict \/ SyncCrash
  <2>1. mishap' \in 0..MaxMishap
    BY <1>4, MishapType DEF SyncVerdict, SyncCrash, SyncTypeOK
  <2>2. SyncStatus \in Status
    BY DEF SyncStatus, Status
  <2>3. PICK status \in Status : JobEnd(status)
    BY <1>4, <2>2 DEF SyncVerdict, SyncCrash, Status
  <2>4. UNCHANGED <<main, recorded>> \/ Commit(tree, tree)
    BY <1>4 DEF SyncVerdict, SyncCrash
  <2>5. main' \in Tree /\ recorded' \in Tree
    BY <2>4, CommitType DEF SyncTypeOK, FleetTypeOK
  <2> QED
    BY <2>1, <2>3, <2>5, JobEndType
<1>5. ASSUME NEW d \in Dev, DetectDevice(d) PROVE SyncTypeOK'
  BY <1>5 DEF DetectDevice, SyncTypeOK, FleetTypeOK, fleetVars, Tree, Config
<1>6. ASSUME NEW d \in Dev, SyncDevice(d) PROVE SyncTypeOK'
  BY <1>6 DEF SyncDevice, SyncTypeOK, FleetTypeOK, fleetVars, Tree, Config
<1>7. ASSUME NEW d \in Dev, SyncDeviceFails(d) PROVE SyncTypeOK'
  <2>1. mishap' \in 0..MaxMishap
    BY <1>7, MishapType DEF SyncDeviceFails, SyncTypeOK
  <2> QED
    BY <1>7, <2>1 DEF SyncDeviceFails, SyncTypeOK, FleetTypeOK, fleetVars, Tree, Config
<1>8. ASSUME NEW d \in Dev, GuardrailTimeout(d) PROVE SyncTypeOK'
  <2>1. mishap' \in 0..MaxMishap
    BY <1>8, MishapType DEF GuardrailTimeout, SyncTypeOK
  <2> QED
    BY <1>8, <2>1 DEF GuardrailTimeout, SyncTypeOK, FleetTypeOK, fleetVars, Tree, Config
<1> QED
  BY <1>1, <1>2, <1>3, <1>4, <1>5, <1>6, <1>7, <1>8 DEF JobStep

(* What happens around the job leaves what it collected alone.             *)
LEMMA AroundType ==
    ASSUME SyncTypeOK, NEW d \in Dev,
           \/ OthersPush(d)
           \/ Surroundings(d)
           \/ (SshEdit(d) \/ Reload(d)) /\ UNCHANGED ownVars
    PROVE  SyncTypeOK'
<1> USE DEF SyncTypeOK, FleetTypeOK
<1>1. CASE OthersPush(d)
  <2>1. mishap' \in 0..MaxMishap
    BY <1>1, MishapType DEF OthersPush
  <2>2. PICK cfg \in Config : LET new == [main EXCEPT ![d] = cfg] IN Commit(new, new)
    BY <1>1 DEF OthersPush
  <2>3. [main EXCEPT ![d] = cfg] \in Tree
    BY DEF Tree
  <2>4. main' \in Tree /\ recorded' \in Tree
    BY <2>2, <2>3, CommitType
  <2> QED
    BY <1>1, <2>1, <2>4 DEF OthersPush, jobVars, deviceVars
<1>2. CASE Surroundings(d)
  <2>1. mishap' \in 0..MaxMishap
    BY <1>2, MishapType DEF Surroundings, Outage, Recover, Acknowledge, Expire
  <2> QED
    BY <1>2, <2>1 DEF Surroundings, Outage, Recover, Acknowledge, Expire, jobVars, fleetVars
<1>3. CASE SshEdit(d) /\ UNCHANGED ownVars
  <2>1. ssh' \in 0..MaxSsh
    BY <1>3, FleetAssumption DEF SshEdit
  <2>2. running' \in Tree /\ startup' \in Tree
    BY <1>3 DEF SshEdit, Tree, Config
  <2> QED
    BY <1>3, <2>1, <2>2 DEF SshEdit, gitVars, ownVars, jobVars
<1>4. CASE Reload(d) /\ UNCHANGED ownVars
  BY <1>4 DEF Reload, gitVars, ownVars, jobVars, Tree, Config
<1> QED
  BY <1>1, <1>2, <1>3, <1>4

(* The drift job's state keeps its shape (SyncTypeOK).                     *)
THEOREM SyncTypeCorrect == SyncSpec => []SyncTypeOK
<1>1. SyncTypeOK /\ [SyncNext]_syncVars => SyncTypeOK'
  <2> SUFFICES ASSUME SyncTypeOK, [SyncNext]_syncVars PROVE SyncTypeOK'
    OBVIOUS
  <2>1. CASE UNCHANGED syncVars
    BY <2>1 DEF syncVars, fleetVars, ownVars, jobVars, SyncTypeOK, FleetTypeOK
  <2> QED
    BY <2>1, JobStepType, AroundType DEF SyncNext
<1> QED
  BY <1>1, SyncInitType, PTL DEF SyncSpec

-----------------------------------------------------------------------------
(* The job publishes only drift, and green means verified.  Neither is     *)
(* inductive: what the last step of the job relies on was established      *)
(* device by device, by two scripts, while main and the devices moved on.  *)

(* As long as git would take a push, main is the commit that was cloned,   *)
(* and the checkout differs from it only where a device that was handled   *)
(* gave it a text the guardrail accepts.                                   *)
PublishInv ==
    st # "idle" /\ tip =>
      /\ main = cloned
      /\ \A d \in Dev : tree[d] # main[d] =>
           /\ st = "sync"
           /\ d \notin left
           /\ tree[d] = seen[d]
           /\ ~WhitelistRefuses(d, tree[d])

(* What a script has handled without noting a failure, a block or drift is *)
(* in the checkout as it was read.                                         *)
VerifyInv ==
    \A d \in Dev \ left :
      /\ st = "detect" /\ ~drift => d \in failed \/ tree[d] = seen[d]
      /\ st = "sync" => d \in failed \cup blocked \/ tree[d] = seen[d]

JobInv == PublishInv /\ VerifyInv

LEMMA SyncInitJob == SyncInit => JobInv
BY DEF SyncInit, OwnInit, JobInv, PublishInv, VerifyInv

LEMMA JobEndJob ==
    ASSUME NEW status, JobEnd(status)
    PROVE  JobInv'
BY DEF JobEnd, JobInv, PublishInv, VerifyInv

(* The second script begins with the checkout the first one was given.     *)
LEMMA SyncStartJob ==
    ASSUME JobInv, st = "detect", SyncStart
    PROVE  JobInv'
<1>1. PublishInv'
  BY DEF SyncStart, fleetVars, JobInv, PublishInv
<1>2. VerifyInv'
  BY DEF SyncStart, VerifyInv
<1> QED
  BY <1>1, <1>2 DEF JobInv

LEMMA JobStepJob == SyncTypeOK /\ JobInv /\ JobStep => JobInv'
<1> SUFFICES ASSUME SyncTypeOK, JobInv, JobStep PROVE JobInv'
  OBVIOUS
<1>1. CASE JobStart
  <2>1. PublishInv'
    BY <1>1 DEF JobStart, PublishInv
  <2>2. VerifyInv'
    BY <1>1 DEF JobStart, VerifyInv
  <2> QED
    BY <2>1, <2>2 DEF JobInv
<1>2. CASE DetectVerdict \/ DetectCrash
  BY <1>2, SyncStartJob, JobEndJob DEF DetectVerdict, DetectCrash
<1>3. CASE SyncVerdict \/ SyncCrash
  BY <1>3, JobEndJob DEF SyncVerdict, SyncCrash
<1>4. ASSUME NEW d \in Dev, DetectDevice(d) PROVE JobInv'
  <2>1. PublishInv'
    BY <1>4 DEF DetectDevice, fleetVars, JobInv, PublishInv
  <2>2. VerifyInv'
    <3> SUFFICES ASSUME NEW e \in Dev \ left', ~drift' PROVE e \in failed' \/ tree[e] = seen'[e]
      BY <1>4 DEF DetectDevice, VerifyInv
    <3>1. CASE e = d
      BY <1>4, <3>1 DEF DetectDevice, Differs, SyncTypeOK, Tree
    <3>2. CASE e # d
      <4>1. e \in Dev \ left /\ ~drift /\ seen'[e] = seen[e] /\ failed \subseteq failed'
        BY <1>4, <3>2 DEF DetectDevice, SyncTypeOK, Tree
      <4> QED
        BY <1>4, <4>1 DEF DetectDevice, JobInv, VerifyInv
    <3> QED
      BY <3>1, <3>2
  <2> QED
    BY <2>1, <2>2 DEF JobInv
<1>5. ASSUME NEW d \in Dev, SyncDevice(d) \/ SyncDeviceFails(d) \/ GuardrailTimeout(d)
      PROVE  JobInv'
  <2>1. /\ st = "sync" /\ d \in left /\ left' = left \ {d}
        /\ UNCHANGED <<st, tip, main, cloned>>
        /\ failed \subseteq failed' /\ blocked \subseteq blocked'
    BY <1>5 DEF SyncDevice, SyncDeviceFails, GuardrailTimeout, fleetVars
  <2>2. \A e \in Dev \ {d} : tree'[e] = tree[e] /\ seen'[e] = seen[e]
    BY <1>5 DEF SyncDevice, SyncDeviceFails, GuardrailTimeout, SyncTypeOK, Tree
  <2>3. tree'[d] # tree[d] => tree'[d] = seen'[d] /\ ~WhitelistRefuses(d, tree'[d])
    BY <1>5 DEF SyncDevice, SyncDeviceFails, GuardrailTimeout, RefusedOn, SyncTypeOK, Tree
  <2>4. d \in failed' \cup blocked' \/ tree'[d] = seen'[d]
    BY <1>5 DEF SyncDevice, SyncDeviceFails, GuardrailTimeout, Differs, SyncTypeOK, Tree
  <2>5. PublishInv'
    <3> SUFFICES ASSUME st' # "idle", tip', NEW e \in Dev, tree'[e] # main'[e]
                 PROVE  /\ st' = "sync"
                        /\ e \notin left'
                        /\ tree'[e] = seen'[e]
                        /\ ~WhitelistRefuses(e, tree'[e])
      BY <2>1 DEF JobInv, PublishInv, WhitelistRefuses
    <3>1. CASE e = d
      <4>1. tree[d] = main[d]
        BY <2>1 DEF JobInv, PublishInv
      <4> QED
        BY <2>1, <2>3, <3>1, <4>1
    <3>2. CASE e # d
      BY <2>1, <2>2, <3>2 DEF JobInv, PublishInv
    <3> QED
      BY <3>1, <3>2
  <2>6. VerifyInv'
    <3> SUFFICES ASSUME NEW e \in Dev \ left'
                 PROVE  e \in failed' \cup blocked' \/ tree'[e] = seen'[e]
      BY <2>1 DEF VerifyInv
    <3>1. CASE e = d
      BY <2>4, <3>1
    <3>2. CASE e # d
      BY <2>1, <2>2, <3>2 DEF JobInv, VerifyInv
    <3> QED
      BY <3>1, <3>2
  <2> QED
    BY <2>5, <2>6 DEF JobInv
<1> QED
  BY <1>1, <1>2, <1>3, <1>4, <1>5 DEF JobStep

(* Whoever else moves main takes the checkout off its tip.                 *)
LEMMA AroundJob ==
    ASSUME JobInv, UNCHANGED jobVars,
           UNCHANGED <<main, tip>> \/ ~tip'
    PROVE  JobInv'
<1>1. PublishInv'
  BY DEF jobVars, JobInv, PublishInv, WhitelistRefuses
<1>2. VerifyInv'
  BY DEF jobVars, JobInv, VerifyInv
<1> QED
  BY <1>1, <1>2 DEF JobInv

LEMMA NextJob == SyncTypeOK /\ JobInv /\ [SyncNext]_syncVars => JobInv'
<1> SUFFICES ASSUME SyncTypeOK, JobInv, [SyncNext]_syncVars PROVE JobInv'
  OBVIOUS
<1>1. CASE UNCHANGED syncVars
  BY <1>1, AroundJob DEF syncVars, fleetVars, ownVars
<1>2. ASSUME NEW d \in Dev, OthersPush(d) PROVE JobInv'
  BY <1>2, AroundJob DEF OthersPush
<1>3. ASSUME NEW d \in Dev, Surroundings(d) PROVE JobInv'
  BY <1>3, AroundJob DEF Surroundings, Outage, Recover, Acknowledge, Expire, fleetVars
<1>4. ASSUME NEW d \in Dev, SshEdit(d) \/ Reload(d), UNCHANGED ownVars PROVE JobInv'
  BY <1>4, AroundJob DEF SshEdit, Reload, gitVars, ownVars
<1> QED
  BY <1>1, <1>2, <1>3, <1>4, JobStepJob DEF SyncNext

(* What the last step of a job may do, given what led up to it.            *)
LEMMA JobEndPublishes ==
    ASSUME SyncTypeOK, JobInv, JobStep, JobEnds, main' # main
    PROVE  /\ main = cloned
           /\ \A d \in Dev : main'[d] # cloned[d] =>
                main'[d] = seen[d] /\ ~WhitelistRefuses(d, main'[d])
<1>1. st = "sync" /\ tip /\ main' = tree
  BY DEF JobStep, JobEnds, JobStart, DetectVerdict, DetectCrash, SyncVerdict, SyncCrash,
         SyncStart, DetectDevice, SyncDevice, SyncDeviceFails, GuardrailTimeout, fleetVars,
         PushAccepted, Commit
<1> QED
  BY <1>1 DEF JobInv, PublishInv

LEMMA JobEndVerifies ==
    ASSUME SyncTypeOK, JobInv, JobStep, JobEnds, exit' = 0, NEW d \in Dev \ acked
    PROVE  d \notin failed /\ tree[d] = seen[d]
<1>1. st # "idle" /\ st' = "idle"
  BY DEF JobEnds
<1>2. CASE DetectVerdict
  <2>1. ~drift /\ JobEnd(IF Unacked # {} THEN 3 ELSE 0)
    BY <1>1, <1>2 DEF DetectVerdict, SyncStart
  <2>2. st = "detect" /\ left = {} /\ Unacked = {}
    BY <1>2, <2>1 DEF DetectVerdict, JobEnd
  <2> QED
    BY <2>1, <2>2 DEF Unacked, JobInv, VerifyInv
<1>3. CASE SyncVerdict
  <2>1. st = "sync" /\ left = {} /\ JobEnd(SyncStatus)
    BY <1>3 DEF SyncVerdict, JobEnd
  <2>2. SyncStatus = 0
    BY <2>1 DEF JobEnd
  <2>3. blocked = {} /\ Unacked = {}
    BY <2>2 DEF SyncStatus
  <2> QED
    BY <2>1, <2>3 DEF Unacked, JobInv, VerifyInv
<1> QED
  BY <1>1, <1>2, <1>3
  DEF JobStep, JobStart, DetectCrash, SyncCrash, SyncStart, DetectDevice, SyncDevice,
      SyncDeviceFails, GuardrailTimeout, JobEnd

(* Only the job's own steps end it.                                        *)
LEMMA OnlyJobEnds ==
    ASSUME [SyncNext]_syncVars, JobEnds
    PROVE  JobStep
BY DEF SyncNext, JobEnds, syncVars, ownVars, jobVars, OthersPush, Surroundings, Outage, Recover,
       Acknowledge, Expire

(* A push of the drift job lands on the commit the job cloned, whoever     *)
(* pushed meanwhile, and changes a file only to the text its device gave   *)
(* and the guardrail accepts.                                              *)
THEOREM PushesOnlyDrift == SyncSpec => PublishesOnlyDrift
<1>1. SyncTypeOK /\ JobInv /\ [SyncNext]_syncVars =>
        (JobEnds /\ main' # main =>
           /\ main = cloned
           /\ \A d \in Dev : main'[d] # cloned[d] =>
                main'[d] = seen[d] /\ ~WhitelistRefuses(d, main'[d]))
  BY OnlyJobEnds, JobEndPublishes
<1> QED
  BY <1>1, SyncTypeCorrect, SyncInitJob, NextJob, PTL DEF SyncSpec, PublishesOnlyDrift

(* A job that ends with status 0 leaves main with what every device said   *)
(* that is not acknowledged as unreachable.                                *)
THEOREM GreenIsVerified == SyncSpec => GreenMeansVerified
<1>1. SyncTypeOK /\ JobInv /\ [SyncNext]_syncVars =>
        (JobEnds /\ exit' = 0 =>
           \A d \in Dev \ acked : d \notin failed /\ tree[d] = seen[d])
  BY OnlyJobEnds, JobEndVerifies
<1> QED
  BY <1>1, SyncTypeCorrect, SyncInitJob, NextJob, PTL DEF SyncSpec, GreenMeansVerified

-----------------------------------------------------------------------------
(* The job implements Mirror, which has no checkout.                       *)

(* What is in the checkout and not in main was staged, as long as main is  *)
(* what the job checked out; and nothing is staged before the second       *)
(* script runs.                                                            *)
StagedInv ==
    /\ st # "sync" => synced = {}
    /\ st # "idle" /\ tip => \A d \in Dev \ synced : tree[d] = main[d]

LEMMA SyncInitStaged == SyncInit => StagedInv
BY DEF SyncInit, OwnInit, StagedInv

LEMMA SyncStartStaged ==
    ASSUME StagedInv, st = "detect", SyncStart
    PROVE  StagedInv'
BY DEF SyncStart, fleetVars, StagedInv

LEMMA JobStepStaged == SyncTypeOK /\ StagedInv /\ JobStep => StagedInv'
<1> SUFFICES ASSUME SyncTypeOK, StagedInv, JobStep PROVE StagedInv'
  OBVIOUS
<1>1. CASE JobStart
  BY <1>1 DEF JobStart, StagedInv
<1>2. ASSUME NEW status, JobEnd(status) PROVE StagedInv'
  BY <1>2 DEF JobEnd, StagedInv
<1>3. CASE DetectVerdict \/ DetectCrash
  BY <1>2, <1>3, SyncStartStaged DEF DetectVerdict, DetectCrash
<1>4. CASE SyncVerdict \/ SyncCrash
  BY <1>2, <1>4 DEF SyncVerdict, SyncCrash
<1>5. ASSUME NEW d \in Dev, DetectDevice(d) PROVE StagedInv'
  BY <1>5 DEF DetectDevice, fleetVars, StagedInv
<1>6. ASSUME NEW d \in Dev, SyncDevice(d) PROVE StagedInv'
  <2>1. st = "sync" /\ st' = "sync" /\ UNCHANGED <<main, tip>> /\ synced \subseteq synced'
    BY <1>6 DEF SyncDevice, fleetVars
  <2>2. ASSUME NEW e \in Dev \ synced' PROVE tree'[e] = tree[e]
    BY <1>6, <2>2 DEF SyncDevice, SyncTypeOK, Tree
  <2> QED
    BY <2>1, <2>2 DEF StagedInv
<1>7. ASSUME NEW d \in Dev, SyncDeviceFails(d) \/ GuardrailTimeout(d) PROVE StagedInv'
  BY <1>7 DEF SyncDeviceFails, GuardrailTimeout, fleetVars, StagedInv
<1> QED
  BY <1>1, <1>3, <1>4, <1>5, <1>6, <1>7 DEF JobStep

LEMMA AroundStaged ==
    ASSUME StagedInv, UNCHANGED jobVars, UNCHANGED <<main, tip>> \/ ~tip'
    PROVE  StagedInv'
BY DEF jobVars, StagedInv

LEMMA NextStaged == SyncTypeOK /\ StagedInv /\ [SyncNext]_syncVars => StagedInv'
<1> SUFFICES ASSUME SyncTypeOK, StagedInv, [SyncNext]_syncVars PROVE StagedInv'
  OBVIOUS
<1>1. CASE UNCHANGED syncVars
  BY <1>1, AroundStaged DEF syncVars, fleetVars, ownVars
<1>2. ASSUME NEW d \in Dev, OthersPush(d) PROVE StagedInv'
  BY <1>2, AroundStaged DEF OthersPush
<1>3. ASSUME NEW d \in Dev, Surroundings(d) PROVE StagedInv'
  BY <1>3, AroundStaged DEF Surroundings, Outage, Recover, Acknowledge, Expire, fleetVars
<1>4. ASSUME NEW d \in Dev, SshEdit(d) \/ Reload(d), UNCHANGED ownVars PROVE StagedInv'
  BY <1>4, AroundStaged DEF SshEdit, Reload, gitVars, ownVars
<1> QED
  BY <1>1, <1>2, <1>3, <1>4, JobStepStaged DEF SyncNext

(* The values the mapping gives to Mirror's variables.                     *)
LEMMA NothingStaged ==
    /\ synced = {} => MirStaged = Mir!Nothing
    /\ synced' = {} => MirStaged' = Mir!Nothing
BY DEF MirStaged, Mir!Nothing

LEMMA MirrorInitial == SyncInit => Mir!MirrorInit
BY NothingStaged DEF SyncInit, OwnInit, Mir!MirrorInit, MirRun

(* A step that moves main but nothing the job has is somebody else's; one  *)
(* that does not even move main is a change of the systems, or none.       *)
LEMMA MirrorAround ==
    ASSUME UNCHANGED jobVars, UNCHANGED main \/ UNCHANGED running
    PROVE  [Mir!MirrorNext]_(Mir!mirrorVars)
<1>1. UNCHANGED <<MirRun, MirStaged>>
  BY DEF jobVars, MirRun, MirStaged
<1>2. CASE UNCHANGED main
  <2>1. Mir!Change
    BY <1>1, <1>2 DEF Mir!Change
  <2> QED
    BY <2>1 DEF Mir!MirrorNext
<1>3. CASE UNCHANGED running
  <2>1. Mir!Others
    BY <1>1, <1>3 DEF Mir!Others
  <2> QED
    BY <2>1 DEF Mir!MirrorNext
<1> QED
  BY <1>2, <1>3

LEMMA MirrorGivesUp ==
    ASSUME st # "idle", NEW status, JobEnd(status), UNCHANGED main
    PROVE  [Mir!MirrorNext]_(Mir!mirrorVars)
<1>1. UNCHANGED running /\ st' = "idle" /\ synced' = {}
  BY DEF JobEnd, deviceVars
<1>2. Mir!GiveUp
  BY <1>1, NothingStaged DEF Mir!GiveUp, MirRun
<1> QED
  BY <1>2 DEF Mir!MirrorNext

(* The commit was made in the checkout, from the tip of main: it changes   *)
(* in main what was staged and nothing else.                               *)
LEMMA MirrorPublishes ==
    ASSUME SyncTypeOK, StagedInv, st = "sync", PushAccepted, Commit(tree, tree),
           NEW status, JobEnd(status)
    PROVE  [Mir!MirrorNext]_(Mir!mirrorVars)
<1>1. UNCHANGED running /\ st' = "idle" /\ synced' = {}
  BY DEF JobEnd, deviceVars
<1>2. main' = [d \in Dev |-> tree[d]] /\ synced \subseteq Dev
  BY DEF Commit, SyncTypeOK, Tree
<1>3. \A d \in Dev \ synced : tree[d] = main[d]
  BY DEF StagedInv, PushAccepted
<1>4. DOMAIN MirStaged = synced /\ \A d \in synced : MirStaged[d] = tree[d]
  BY DEF MirStaged
<1>5. main' = [d \in Dev |-> IF d \in DOMAIN MirStaged THEN MirStaged[d] ELSE main[d]]
  BY <1>2, <1>3, <1>4
<1>6. Mir!Publish
  BY <1>1, <1>5, NothingStaged DEF Mir!Publish, MirRun
<1> QED
  BY <1>6 DEF Mir!MirrorNext

(* The second script's step for one device takes over what the device has, *)
(* unless it is what main has or the guardrail refuses it.                 *)
LEMMA MirrorDevice ==
    ASSUME SyncTypeOK, NEW d \in Dev, SyncDevice(d)
    PROVE  [Mir!MirrorNext]_(Mir!mirrorVars)
<1>1. UNCHANGED <<main, running, MirRun>> /\ st = "sync"
  BY DEF SyncDevice, fleetVars, MirRun
<1>2. CASE UNCHANGED <<tree, synced>>
  BY <1>1, <1>2 DEF Mir!mirrorVars, MirStaged
<1>3. CASE /\ ~RefusedOn(d)
           /\ tree' = [tree EXCEPT ![d] = running[d]]
           /\ synced' = synced \cup {d}
  <2>1. MirStaged' = [g \in DOMAIN MirStaged \cup {d} |->
                        IF g = d THEN running[d] ELSE MirStaged[g]]
    BY <1>3 DEF MirStaged, SyncTypeOK, Tree
  <2>2. <<d, running[d]>> \notin MirRefused
    BY <1>3 DEF MirRefused, RefusedOn
  <2>3. Mir!Take(d)
    BY <1>1, <2>1, <2>2 DEF Mir!Take, Mir!Stage, MirRun
  <2> QED
    BY <2>3 DEF Mir!MirrorNext
<1> QED
  BY <1>2, <1>3 DEF SyncDevice

LEMMA MirrorJob ==
    ASSUME SyncTypeOK, StagedInv, JobStep
    PROVE  [Mir!MirrorNext]_(Mir!mirrorVars)
<1>1. CASE JobStart
  <2>1. UNCHANGED <<main, running, MirStaged>> /\ st = "idle" /\ st' = "detect"
    BY <1>1 DEF JobStart, deviceVars, MirStaged, StagedInv
  <2>2. Mir!Begin
    BY <2>1 DEF Mir!Begin, MirRun
  <2> QED
    BY <2>2 DEF Mir!MirrorNext
<1>2. ASSUME st = "detect", SyncStart PROVE [Mir!MirrorNext]_(Mir!mirrorVars)
  BY <1>2 DEF SyncStart, fleetVars, Mir!mirrorVars, MirRun, MirStaged
<1>3. CASE DetectVerdict \/ DetectCrash
  BY <1>2, <1>3, MirrorGivesUp DEF DetectVerdict, DetectCrash
<1>4. CASE SyncVerdict \/ SyncCrash
  BY <1>4, MirrorGivesUp, MirrorPublishes DEF SyncVerdict, SyncCrash
<1>5. ASSUME NEW d \in Dev, DetectDevice(d) \/ SyncDeviceFails(d) \/ GuardrailTimeout(d)
      PROVE  [Mir!MirrorNext]_(Mir!mirrorVars)
  BY <1>5 DEF DetectDevice, SyncDeviceFails, GuardrailTimeout, fleetVars, Mir!mirrorVars,
     MirRun, MirStaged
<1>6. ASSUME NEW d \in Dev, SyncDevice(d) PROVE [Mir!MirrorNext]_(Mir!mirrorVars)
  BY <1>6, MirrorDevice
<1> QED
  BY <1>1, <1>3, <1>4, <1>5, <1>6 DEF JobStep

LEMMA MirrorSurroundings ==
    ASSUME NEW d \in Dev, Surroundings(d)
    PROVE  [Mir!MirrorNext]_(Mir!mirrorVars)
BY MirrorAround DEF Surroundings, Outage, Recover, Acknowledge, Expire, fleetVars

LEMMA MirrorStep ==
    ASSUME SyncTypeOK, StagedInv, [SyncNext]_syncVars
    PROVE  [Mir!MirrorNext]_(Mir!mirrorVars)
<1>1. CASE UNCHANGED syncVars
  BY <1>1, MirrorAround DEF syncVars, fleetVars, ownVars
<1>2. ASSUME NEW d \in Dev, OthersPush(d) PROVE [Mir!MirrorNext]_(Mir!mirrorVars)
  BY <1>2, MirrorAround DEF OthersPush, deviceVars
<1>3. ASSUME NEW d \in Dev, SshEdit(d) \/ Reload(d), UNCHANGED ownVars
      PROVE  [Mir!MirrorNext]_(Mir!mirrorVars)
  BY <1>3, MirrorAround DEF SshEdit, Reload, gitVars, ownVars
<1> QED
  BY <1>1, <1>2, <1>3, MirrorJob, MirrorSurroundings DEF SyncNext

(* However old its checkout, and whatever fails, what the job does to main *)
(* is to edit some files in place, to texts their devices had meanwhile.   *)
THEOREM SyncMirrors == SyncSpec => MirrorsDevices
<1>1. SyncTypeOK /\ StagedInv /\ [SyncNext]_syncVars => [Mir!MirrorNext]_(Mir!mirrorVars)
  BY MirrorStep
<1> QED
  BY <1>1, MirrorInitial, SyncTypeCorrect, SyncInitStaged, NextStaged, PTL
  DEF SyncSpec, MirrorsDevices, Mir!MirrorSpec
=============================================================================
