---------------------------- MODULE PushPipeline ----------------------------
(***************************************************************************)
(* The push pipeline of ci/cisco.yml: a push to main starts a pipeline     *)
(* whose jobs run pre_deploy_drift_gate.py, v2/generate_diff.py and        *)
(* v2/deploy.py for every device the LAST commit of the push changed.      *)
(* Pipelines of several pushes run concurrently; between any two steps of  *)
(* one of them an administrator may change a device by hand.               *)
(*                                                                         *)
(* Each job is a loop over $CHANGED.  todo[p] is what the current job of   *)
(* pipeline p has left to do, flag[p] its DRIFT_DETECTED, DIFF_FAILED or   *)
(* DEPLOYMENT_FAILED variable.                                             *)
(***************************************************************************)
EXTENDS NetworkFleet

CONSTANTS
    Pipe,       \* pipelines: one for each push of a behaviour
    Netmiko,    \* devices deployed by deploy_asa (Firewall, Access-Point)
    Repeated,   \* lines whose text, less its indentation, also stands in another
                \* section of every version (`shutdown', say)
    Faults,     \* which jobs meet failures: a subset of {"gate", "deploy"}
    Quiet,      \* nobody touches a device while a pipeline works on it
    Serial,     \* a push waits until no other pipeline is active
    Pipefail    \* the runner's shell makes `deploy.py | tee' answer deploy.py's
                \* status and not tee's

ASSUME PipelineAssumption ==
    /\ Netmiko \subseteq Dev
    /\ Repeated \subseteq Line
    /\ Faults \subseteq {"gate", "deploy"}
    /\ Quiet \in BOOLEAN
    /\ Serial \in BOOLEAN
    /\ Pipefail \in BOOLEAN

VARIABLES
    stage,      \* the job each pipeline is in, or how it ended
    head,       \* the commit the pipeline runs on (HEAD)
    prev,       \* its parent (HEAD^)
    todo,       \* devices the current job has not handled yet
    flag,       \* the current job's failure variable
    base,       \* the live configuration each diff artifact was made from
    sess,       \* deploy.py's session with a device: its next step
    backup      \* the running-config deploy.py read before it applied

pipeVars == <<stage, head, prev, todo, flag, base, sess, backup>>
pushVars == <<fleetVars, pipeVars>>

Stage == {"idle", "gate", "blocked", "diff", "nodiff", "deploy", "retry", "passed", "failed"}
Step  == {"none", "apply", "commit", "save", "rollback"}

(* The shape of a pipeline's state: its jobs only ever handle devices of   *)
(* the commit, its sessions only take deploy.py's steps.                   *)
PushTypeOK ==
    /\ FleetTypeOK
    /\ stage \in [Pipe -> Stage]
    /\ head \in [Pipe -> Tree]
    /\ prev \in [Pipe -> Tree]
    /\ todo \in [Pipe -> SUBSET Dev]
    /\ flag \in [Pipe -> BOOLEAN]
    /\ base \in [Pipe -> Tree]
    /\ sess \in [Pipe -> [Dev -> Step]]
    /\ backup \in [Pipe -> Config]

Blank  == [d \in Dev |-> {}]
NoSess == [d \in Dev |-> "none"]

PushInit ==
    /\ FleetInit
    /\ stage = [p \in Pipe |-> "idle"]
    /\ head = [p \in Pipe |-> Blank]
    /\ prev = [p \in Pipe |-> Blank]
    /\ todo = [p \in Pipe |-> {}]
    /\ flag = [p \in Pipe |-> FALSE]
    /\ base = [p \in Pipe |-> Blank]
    /\ sess = [p \in Pipe |-> NoSess]
    /\ backup = [p \in Pipe |-> {}]

(***************************************************************************)
(* What the jobs compute.                                                  *)
(*                                                                         *)
(* A definition in front of another that bears its name and a plausible    *)
(* bug is a mutated form: it belongs to no behaviour, and shows that a     *)
(* property of a run would catch the bug.                                  *)
(***************************************************************************)

ChangedUnfiltered(p) == {d \in Dev : head[p][d] # prev[p][d]} \cup {"README.md"}

(* $CHANGED: git diff-tree of HEAD against its parent only.                *)
Changed(p) == {d \in Dev : head[p][d] # prev[p][d]}

TrueDriftSwapped(p, d) == ((head[p][d] \ running[d]) \ prev[p][d]) \ Repeated

(* Lines on the device that neither HEAD nor HEAD^ holds.  A line only in  *)
(* HEAD^ is a pending deletion and is let through.  The gate compares sets *)
(* of stripped lines, so a line of one section passes for its twin in      *)
(* another; generate_diff.py compares section by section.                  *)
TrueDrift(p, d) == ((running[d] \ head[p][d]) \ prev[p][d]) \ Repeated

(* The remediation of the diff artifact: what to add, what to negate.      *)
ToAdd(p, d) == head[p][d] \ base[p][d]
ToRemove(p, d) == base[p][d] \ head[p][d]

(* A configuration after the commands `add' and `no del' were entered.     *)
Entered(cfg, add, del) == (cfg \ del) \cup add
Remediated(p, d) == Entered(running[d], ToAdd(p, d), ToRemove(p, d))

(* A pipeline that the gate has not stopped and that may still change a    *)
(* device, if need be when its failed diff or deploy job is retried.       *)
Active(p) == stage[p] \in {"gate", "diff", "nodiff", "deploy", "retry"}
Busy(d)   == \E p \in Pipe : Active(p) /\ d \in Changed(p)

MayStart == Serial => \A q \in Pipe : ~Active(q)

-----------------------------------------------------------------------------
(* A push of one or more commits to main; `mid' is the tree below its last *)
(* commit, which for a push of one commit is main itself.  The pipeline    *)
(* exists if the push as a whole changes a device file; if its last commit *)
(* changes none, or is a merge, for which git diff-tree lists no file, the *)
(* jobs have nothing to do (new = mid).                                    *)
Push(p) ==
    /\ stage[p] = "idle"
    /\ MayStart
    /\ \E mid, new \in Tree :
         /\ new # main
         /\ Commit(mid, new)
         /\ head' = [head EXCEPT ![p] = new]
         /\ prev' = [prev EXCEPT ![p] = mid]
         /\ todo' = [todo EXCEPT ![p] = {d \in Dev : new[d] # mid[d]}]
    /\ tip' = FALSE
    /\ stage' = [stage EXCEPT ![p] = "gate"]
    /\ UNCHANGED <<deviceVars, ssh, flag, base, sess, backup>>

(* validate_cisco_configs rejects the commit: no later job starts.         *)
ValidationFails(p) ==
    /\ stage[p] = "gate"
    /\ stage' = [stage EXCEPT ![p] = "failed"]
    /\ UNCHANGED <<fleetVars, head, prev, todo, flag, base, sess, backup>>

(***************************************************************************)
(* pre_deploy_drift_gate                                                   *)
(***************************************************************************)

(* The script answers 0 (no true drift) or 2 (drift, merge request made).  *)
GateCheck(p, d) ==
    /\ stage[p] = "gate"
    /\ d \in todo[p]
    /\ todo' = [todo EXCEPT ![p] = @ \ {d}]
    /\ flag' = [flag EXCEPT ![p] = @ \/ TrueDrift(p, d) # {}]
    /\ UNCHANGED <<fleetVars, stage, head, prev, base, sess, backup>>

(* The script answers 1: the device did not answer, or there is drift but  *)
(* the merge request could not be made.  The job `proceeds with caution'.  *)
GateError(p, d) ==
    /\ "gate" \in Faults
    /\ stage[p] = "gate"
    /\ d \in todo[p]
    /\ todo' = [todo EXCEPT ![p] = @ \ {d}]
    /\ UNCHANGED <<fleetVars, stage, head, prev, flag, base, sess, backup>>

GateVerdict(p) ==
    /\ stage[p] = "gate"
    /\ todo[p] = {}
    /\ stage' = [stage EXCEPT ![p] = IF flag[p] THEN "blocked" ELSE "diff"]
    /\ todo' = [todo EXCEPT ![p] = IF flag[p] THEN {} ELSE Changed(p)]
    /\ UNCHANGED <<fleetVars, head, prev, flag, base, sess, backup>>

(* Someone has dealt with the drift, or thinks so, and runs the gate again.*)
GateRetry(p) ==
    /\ stage[p] = "blocked"
    /\ MayStart
    /\ stage' = [stage EXCEPT ![p] = "gate"]
    /\ todo' = [todo EXCEPT ![p] = Changed(p)]
    /\ flag' = [flag EXCEPT ![p] = FALSE]
    /\ UNCHANGED <<fleetVars, head, prev, base, sess, backup>>

(***************************************************************************)
(* generate_deployment_diffs                                               *)
(***************************************************************************)
GenerateDiff(p, d) ==
    /\ stage[p] = "diff"
    /\ d \in todo[p]
    /\ todo' = [todo EXCEPT ![p] = @ \ {d}]
    /\ base' = [base EXCEPT ![p][d] = running[d]]
    /\ UNCHANGED <<fleetVars, stage, head, prev, flag, sess, backup>>

GenerateDiffFails(p, d) ==
    /\ "deploy" \in Faults
    /\ stage[p] = "diff"
    /\ d \in todo[p]
    /\ todo' = [todo EXCEPT ![p] = @ \ {d}]
    /\ flag' = [flag EXCEPT ![p] = TRUE]
    /\ UNCHANGED <<fleetVars, stage, head, prev, base, sess, backup>>

DiffVerdict(p) ==
    /\ stage[p] = "diff"
    /\ todo[p] = {}
    /\ stage' = [stage EXCEPT ![p] = IF flag[p] THEN "nodiff" ELSE "deploy"]
    /\ todo' = [todo EXCEPT ![p] = IF flag[p] THEN {} ELSE Changed(p)]
    /\ UNCHANGED <<fleetVars, head, prev, flag, base, sess, backup>>

(* The failed job is run again; the gate is not.                           *)
DiffRetry(p) ==
    /\ stage[p] = "nodiff"
    /\ stage' = [stage EXCEPT ![p] = "diff"]
    /\ todo' = [todo EXCEPT ![p] = Changed(p)]
    /\ flag' = [flag EXCEPT ![p] = FALSE]
    /\ UNCHANGED <<fleetVars, head, prev, base, sess, backup>>

(***************************************************************************)
(* deploy_cisco_configs: one deploy.py process per device, in turn.        *)
(***************************************************************************)

FinishStatusLost(p, d, ok) ==
    /\ todo' = [todo EXCEPT ![p] = @ \ {d}]
    /\ sess' = [sess EXCEPT ![p][d] = "none"]
    /\ backup' = [backup EXCEPT ![p] = {}]
    /\ UNCHANGED <<gitVars, ssh, stage, head, prev, flag, base>>

(* deploy.py for d ends with status 0 (ok) or 1, read through `| tee'.     *)
Finish(p, d, ok) ==
    /\ todo' = [todo EXCEPT ![p] = @ \ {d}]
    /\ flag' = [flag EXCEPT ![p] = @ \/ (~ok /\ Pipefail)]
    /\ sess' = [sess EXCEPT ![p][d] = "none"]
    /\ backup' = [backup EXCEPT ![p] = {}]
    /\ UNCHANGED <<gitVars, ssh, stage, head, prev, base>>

(* deploy.py for d goes on to its next step.                               *)
Continue(p, d, step) ==
    /\ sess' = [sess EXCEPT ![p][d] = step]
    /\ UNCHANGED <<gitVars, ssh, stage, head, prev, todo, flag, base, backup>>

(* The loop has come to d: no session of this pipeline is open.            *)
InTurn(p, d) == stage[p] = "deploy" /\ d \in todo[p] /\ sess[p] = NoSess

(* Empty remediation: SUCCESS without connecting to the device.            *)
DeployNothing(p, d) ==
    /\ InTurn(p, d)
    /\ base[p][d] = head[p][d]
    /\ Finish(p, d, TRUE)
    /\ UNCHANGED deviceVars

DeployConnectSavedBackup(p, d) ==
    /\ InTurn(p, d)
    /\ base[p][d] # head[p][d]
    /\ sess' = [sess EXCEPT ![p][d] = "apply"]
    /\ backup' = [backup EXCEPT ![p] = startup[d]]
    /\ UNCHANGED <<fleetVars, stage, head, prev, todo, flag, base>>

DeployConnect(p, d) ==
    /\ InTurn(p, d)
    /\ base[p][d] # head[p][d]
    /\ sess' = [sess EXCEPT ![p][d] = "apply"]
    /\ backup' = [backup EXCEPT ![p] = running[d]]
    /\ UNCHANGED <<fleetVars, stage, head, prev, todo, flag, base>>

DeployConnectFails(p, d) ==
    /\ "deploy" \in Faults
    /\ InTurn(p, d)
    /\ base[p][d] # head[p][d]
    /\ Finish(p, d, FALSE)
    /\ UNCHANGED deviceVars

(* deploy_napalm loads the candidate and compares it with the              *)
(* running-config; equal means success, nothing committed, nothing saved.  *)
NapalmCompare(p, d) ==
    /\ d \notin Netmiko
    /\ sess[p][d] = "apply"
    /\ IF Remediated(p, d) = running[d]
         THEN Finish(p, d, TRUE)
         ELSE Continue(p, d, "commit")
    /\ UNCHANGED deviceVars

(* commit_config merges the candidate and saves the result.                *)
NapalmCommit(p, d) ==
    /\ sess[p][d] = "commit"
    /\ running' = [running EXCEPT ![d] = Remediated(p, d)]
    /\ startup' = [startup EXCEPT ![d] = Remediated(p, d)]
    /\ Finish(p, d, TRUE)

(* An exception: before anything was merged (or the driver undid it), after*)
(* the merge but before the save, or while verifying a finished commit.    *)
(* deploy.py answers 1 and leaves the device as it is.                     *)
NapalmException(p, d) ==
    /\ "deploy" \in Faults
    /\ d \notin Netmiko
    /\ sess[p][d] \in {"apply", "commit"}
    /\ \/ UNCHANGED deviceVars
       \/ /\ sess[p][d] = "commit"
          /\ running' = [running EXCEPT ![d] = Remediated(p, d)]
          /\ \/ UNCHANGED startup
             \/ startup' = [startup EXCEPT ![d] = Remediated(p, d)]
    /\ Finish(p, d, FALSE)

(* deploy_asa: every command was accepted.                                 *)
AsaApply(p, d) ==
    /\ d \in Netmiko
    /\ sess[p][d] = "apply"
    /\ running' = [running EXCEPT ![d] = Remediated(p, d)]
    /\ UNCHANGED startup
    /\ Continue(p, d, "save")

(* An answer looks like an error (ASA_ERROR_PATTERNS): some of the commands*)
(* took effect, perhaps all.                                               *)
AsaApplyRefused(p, d) ==
    /\ "deploy" \in Faults
    /\ d \in Netmiko
    /\ sess[p][d] = "apply"
    /\ \E add \in SUBSET ToAdd(p, d), del \in SUBSET ToRemove(p, d) :
         running' = [running EXCEPT ![d] = Entered(@, add, del)]
    /\ UNCHANGED startup
    /\ Continue(p, d, "rollback")

(* write memory: nobody reads its answer.                                  *)
Save(d, cfg) ==
    \/ startup' = [startup EXCEPT ![d] = cfg]
    \/ "deploy" \in Faults /\ UNCHANGED startup

(* write memory, then the post-deployment read.                            *)
AsaSave(p, d) ==
    /\ sess[p][d] = "save"
    /\ Save(d, running[d])
    /\ \E ok \in BOOLEAN : (ok \/ "deploy" \in Faults) /\ Finish(p, d, ok)
    /\ UNCHANGED running

AsaRollbackFromDiff(p, d) ==
    /\ sess[p][d] = "rollback"
    /\ running' = [running EXCEPT ![d] = @ \cup base[p][d]]
    /\ Save(d, running[d] \cup base[p][d])
    /\ Finish(p, d, FALSE)

(* _rollback_asa enters the lines of the backup again and saves.           *)
AsaRollback(p, d) ==
    /\ sess[p][d] = "rollback"
    /\ running' = [running EXCEPT ![d] = @ \cup backup[p]]
    /\ Save(d, running[d] \cup backup[p])
    /\ Finish(p, d, FALSE)

(* The rollback itself is refused in part: not saved.                      *)
AsaRollbackRefused(p, d) ==
    /\ sess[p][d] = "rollback"
    /\ \E back \in SUBSET backup[p] :
         running' = [running EXCEPT ![d] = @ \cup back]
    /\ Finish(p, d, FALSE)
    /\ UNCHANGED startup

(* The session is lost: while applying, some commands took effect.  The    *)
(* exception ends deploy.py, nothing is rolled back, nothing is saved.     *)
AsaLost(p, d) ==
    /\ "deploy" \in Faults
    /\ d \in Netmiko
    /\ sess[p][d] \in {"apply", "save"}
    /\ \E add \in SUBSET ToAdd(p, d), del \in SUBSET ToRemove(p, d) :
         running' = [running EXCEPT ![d] =
                       IF sess[p][d] = "apply" THEN Entered(@, add, del) ELSE @]
    /\ Finish(p, d, FALSE)
    /\ UNCHANGED startup

DeployVerdict(p) ==
    /\ stage[p] = "deploy"
    /\ todo[p] = {}
    /\ stage' = [stage EXCEPT ![p] = IF flag[p] THEN "retry" ELSE "passed"]
    /\ UNCHANGED <<fleetVars, head, prev, todo, flag, base, sess, backup>>

(* A failed deploy job is retried, with the same diff artifacts.           *)
DeployRetry(p) ==
    /\ stage[p] = "retry"
    /\ stage' = [stage EXCEPT ![p] = "deploy"]
    /\ todo' = [todo EXCEPT ![p] = Changed(p)]
    /\ flag' = [flag EXCEPT ![p] = FALSE]
    /\ UNCHANGED <<fleetVars, head, prev, base, sess, backup>>

(* Whoever watches the pipeline gives it up.                               *)
Abandon(p) ==
    /\ stage[p] \in {"nodiff", "retry"}
    /\ stage' = [stage EXCEPT ![p] = "failed"]
    /\ UNCHANGED <<fleetVars, head, prev, todo, flag, base, sess, backup>>

-----------------------------------------------------------------------------
(* Steps of the pipeline's jobs that touch no device.                      *)
JobsStep(p) ==
    \/ Push(p)
    \/ ValidationFails(p)
    \/ GateVerdict(p)
    \/ GateRetry(p)
    \/ DiffVerdict(p)
    \/ DiffRetry(p)
    \/ DeployVerdict(p)
    \/ DeployRetry(p)
    \/ Abandon(p)

(* Steps in which a device answers.                                        *)
DeviceStep(p, d) ==
    \/ GateCheck(p, d)
    \/ GenerateDiff(p, d)
    \/ DeployConnect(p, d)
    \/ NapalmCompare(p, d)
    \/ NapalmCommit(p, d)
    \/ AsaApply(p, d)
    \/ AsaApplyRefused(p, d)
    \/ AsaSave(p, d)
    \/ AsaRollback(p, d)

(* Steps that need no device, or end what was going on with one.           *)
DeviceFails(p, d) ==
    \/ GateError(p, d)
    \/ GenerateDiffFails(p, d)
    \/ DeployNothing(p, d)
    \/ DeployConnectFails(p, d)
    \/ NapalmException(p, d)
    \/ AsaRollbackRefused(p, d)
    \/ AsaLost(p, d)

(* Hand-made changes and reloads, which a quiet site keeps away from the   *)
(* devices a pipeline is working on.                                       *)
HandsOn(d) ==
    /\ Quiet => ~Busy(d)
    /\ SshEdit(d) \/ Reload(d)
    /\ UNCHANGED pipeVars

PushNext ==
    \/ \E p \in Pipe : JobsStep(p)
    \/ \E p \in Pipe, d \in Dev : DeviceStep(p, d) \/ DeviceFails(p, d)
    \/ \E d \in Dev : HandsOn(d)

PushSpec == PushInit /\ [][PushNext]_pushVars

-----------------------------------------------------------------------------
(***************************************************************************)
(* Properties.                                                             *)
(***************************************************************************)

(* A deploy session of p with d takes a step.                              *)
Deploys(p, d) == sess[p][d] # sess'[p][d]

(* No deploy step takes a line off a device that no commit of main ever    *)
(* held: what was typed over SSH and never reported is not wiped by        *)
(* generate_diff.py's negations.  This is what pre_deploy_drift_gate is    *)
(* for; it holds when nobody touches a device its pipeline works on, the   *)
(* gate script itself does not fail and no line repeats in two sections.   *)
NoUnreportedLoss ==
    [][\A p \in Pipe, d \in Dev :
         Deploys(p, d) => running[d] \ running'[d] \subseteq recorded[d]]_pushVars

(* A deploy job that ends green has put every device of its commit into    *)
(* exactly the state of that commit, whatever failed and was rolled back   *)
(* or retried on the way, provided nobody else touched the device.         *)
GreenMeansDeployed ==
    [][\A p \in Pipe :
         stage[p] = "deploy" /\ stage'[p] = "passed" =>
           \A d \in Changed(p) : running'[d] = head[p][d]]_pushVars

(* cfg holds every line both the live configuration the diff was made from *)
(* and HEAD hold, and no line neither holds.                               *)
Between(p, d, cfg) ==
    /\ head[p][d] \cap base[p][d] \subseteq cfg
    /\ cfg \subseteq head[p][d] \cup base[p][d]

(* From the start of the deploy job to its last retry, partial failures,   *)
(* rollbacks and retries keep every device between the configuration the   *)
(* diff was made from and HEAD.                                            *)
DeployStaysBetween ==
    \A p \in Pipe : stage[p] \in {"deploy", "retry"} =>
      \A d \in Changed(p) : Between(p, d, running[d])

(* A session leaves its device between what it found there and HEAD,       *)
(* however it ends, and a rollback without errors brings back all of what  *)
(* was found.  (It takes off none of the additions that were accepted.)    *)
SessionStaysBetween ==
    [][\A p \in Pipe, d \in Dev :
         sess[p][d] # "none" /\ sess'[p][d] = "none" =>
           /\ head[p][d] \cap backup[p] \subseteq running'[d]
           /\ running'[d] \subseteq head[p][d] \cup backup[p]
           /\ AsaRollback(p, d) => backup[p] \subseteq running'[d]]_pushVars

(* d holds the commit of p and no step of the session with it takes it     *)
(* off again: a rollback would bring back nothing else.                    *)
Holds(p, d) ==
    /\ running[d] = head[p][d]
    /\ sess[p][d] = "rollback" => backup[p] \subseteq head[p][d]

RollVerdict == [p \in Pipe |->
    CASE stage[p] \in {"idle", "gate", "blocked", "diff", "nodiff"} -> "none"
      [] stage[p] \in {"deploy", "retry"} -> "running"
      [] stage[p] = "failed" -> "failed"
      [] OTHER -> "passed"]

RollScope == [p \in Pipe |->
    IF stage[p] \in {"deploy", "retry", "passed"} THEN Changed(p) ELSE {}]

RollThere == [p \in Pipe |->
    {d \in RollScope[p] : stage[p] = "passed" \/ Holds(p, d)}]

Roll == INSTANCE Rollout WITH Release <- Pipe, Target <- Dev,
          verdict <- RollVerdict, scope <- RollScope, there <- RollThere

(* The pipeline implements Rollout: partial failures, lost sessions,       *)
(* rollbacks and retries with old diffs never take a device off the commit *)
(* once it is there, and the pipeline passes when all are there.           *)
RollsForward == Roll!RolloutSpec
=============================================================================
