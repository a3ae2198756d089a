----------------------------- MODULE DriftSync ------------------------------
(***************************************************************************)
(* The scheduled job auto_detect_and_sync_drift of ci/cisco.yml, in which  *)
(* the devices are the source of truth: detect_drift.py compares every     *)
(* device with the checkout, auto_sync_drift.py copies drifted devices     *)
(* into Git and pushes to main, known_unreachable.py decides whether a     *)
(* device that does not answer makes the job fail.                         *)
(*                                                                         *)
(* The job is one process.  Devices fail and recover, administrators edit  *)
(* them and others push to main between any two of its steps.              *)
(***************************************************************************)
EXTENDS NetworkFleet, FiniteSets

CONSTANTS
    Mishaps,    \* what happens: outages, acknowledgments, crashes and failed
                \* git commands, pushes by others
    MaxMishap   \* bound: how many of these in one behaviour

ASSUME SyncAssumption ==
    /\ Mishaps \subseteq {"outage", "acknowledge", "crash", "push"}
    /\ MaxMishap \in Nat

VARIABLES
    down,       \* devices that do not answer
    acked,      \* devices with an unexpired line in known-unreachable.txt
    mishap,     \* mishaps still to come
    st,         \* the job: idle, in detect_drift.py or in auto_sync_drift.py
    left,       \* devices the script has not come to yet
    cloned,     \* the commit the job checked out (HEAD)
    tree,       \* the checkout with what was staged in it
    drift,      \* DriftDetector.drift_found
    failed,     \* unreachable / failed_devices of the script
    blocked,    \* blocked_devices
    synced,     \* synced_devices
    exit,       \* exit status of the last job that ended
    seen        \* what the job last read from each device that answered

jobVars  == <<st, left, cloned, tree, drift, failed, blocked, synced, exit, seen>>
ownVars  == <<down, acked, mishap, jobVars>>
syncVars == <<fleetVars, ownVars>>

(* Exit statuses of the job; 1 and 2 are in allow_failure.                 *)
Status == 0..4

(* The shape of the drift job's state: it only ever handles devices, and   *)
(* ends with one of its exit statuses.                                     *)
SyncTypeOK ==
    /\ FleetTypeOK
    /\ down \subseteq Dev
    /\ acked \subseteq Dev
    /\ mishap \in 0..MaxMishap
    /\ st \in {"idle", "detect", "sync"}
    /\ left \subseteq Dev
    /\ cloned \in Tree
    /\ tree \in Tree
    /\ drift \in BOOLEAN
    /\ failed \subseteq Dev
    /\ blocked \subseteq Dev
    /\ synced \subseteq Dev
    /\ exit \in Status
    /\ seen \in Tree

OwnInit ==
    /\ down = {}
    /\ acked = {}
    /\ mishap = MaxMishap
    /\ st = "idle"
    /\ left = {}
    /\ cloned = main
    /\ tree = main
    /\ drift = FALSE
    /\ failed = {}
    /\ blocked = {}
    /\ synced = {}
    /\ exit = 0
    /\ seen = main

SyncInit == FleetInit /\ OwnInit

Mishap(kind) == kind \in Mishaps /\ mishap > 0 /\ mishap' = mishap - 1

(* A definition in front of another that bears its name and a plausible    *)
(* bug is a mutated form: it belongs to no behaviour of the job, and shows *)
(* that a property of a run would catch the bug.                           *)

(* check_whitelist_membership's answer to what is written for d.           *)
RefusedOn(d) == WhitelistRefuses(d, running[d])

DiffersAddedOnly(d) == running[d] \ tree[d] # {}

(* normalize_config of both sides differs.                                 *)
Differs(d) == running[d] # tree[d]

-----------------------------------------------------------------------------
JobStartGitkeep ==
    /\ st = "idle"
    /\ st' = "detect"
    /\ left' = Dev \cup {".gitkeep"}
    /\ cloned' = main
    /\ tree' = main
    /\ seen' = main
    /\ tip' = TRUE
    /\ UNCHANGED <<main, recorded, deviceVars, ssh, down, acked, mishap,
                   drift, failed, blocked, synced, exit>>

(* The schedule starts the job on origin/main.                             *)
JobStart ==
    /\ st = "idle"
    /\ st' = "detect"
    /\ left' = Dev
    /\ cloned' = main
    /\ tree' = main
    /\ seen' = main
    /\ tip' = TRUE
    /\ UNCHANGED <<main, recorded, deviceVars, ssh, down, acked, mishap,
                   drift, failed, blocked, synced, exit>>

(* The job ends.  What its scripts collected and its checkout go with it.   *)
JobEnd(status) ==
    /\ st' = "idle"
    /\ exit' = status
    /\ drift' = FALSE
    /\ failed' = {}
    /\ blocked' = {}
    /\ synced' = {}
    /\ cloned' = main'
    /\ tree' = main'
    /\ seen' = main'
    /\ tip' = FALSE
    /\ UNCHANGED <<left, deviceVars, ssh, down, acked>>

DetectDeviceDownIsInSync(d) ==
    /\ st = "detect"
    /\ d \in left
    /\ left' = left \ {d}
    /\ IF d \in down
         THEN UNCHANGED <<drift, seen>>
         ELSE /\ drift' = (drift \/ Differs(d))
              /\ seen' = [seen EXCEPT ![d] = running[d]]
    /\ UNCHANGED <<fleetVars, down, acked, mishap, st, cloned, tree, failed, blocked, synced, exit>>

(* check_device.                                                           *)
DetectDevice(d) ==
    /\ st = "detect"
    /\ d \in left
    /\ left' = left \ {d}
    /\ IF d \in down
         THEN failed' = failed \cup {d} /\ UNCHANGED <<drift, seen>>
         ELSE /\ drift' = (drift \/ Differs(d))
              /\ seen' = [seen EXCEPT ![d] = running[d]]
              /\ UNCHANGED failed
    /\ UNCHANGED <<fleetVars, down, acked, mishap, st, cloned, tree, blocked, synced, exit>>

(* auto_sync_drift.py starts, a process of its own.                        *)
SyncStart ==
    /\ st' = "sync"
    /\ left' = Dev
    /\ failed' = {}
    /\ UNCHANGED <<fleetVars, down, acked, cloned, tree, drift, blocked, synced, exit, seen>>

(* report(): failures no unexpired acknowledgment covers.                  *)
Unacked == failed \ acked

(* The end of check_all_devices: drift comes before unreachable devices.   *)
DetectVerdict ==
    /\ st = "detect"
    /\ left = {}
    /\ IF drift
         THEN SyncStart
         ELSE UNCHANGED <<main, recorded>> /\ JobEnd(IF Unacked # {} THEN 3 ELSE 0)
    /\ UNCHANGED mishap

(* detect_drift.py dies: of an exception (a malformed acknowledgment line, *)
(* say), which is status 1 like drift, or of a signal.                     *)
DetectCrash ==
    /\ Mishap("crash")
    /\ st = "detect"
    /\ \/ SyncStart
       \/ UNCHANGED <<main, recorded>> /\ JobEnd(4)

SyncDeviceFromDetection(d) ==
    /\ st = "sync"
    /\ d \in left
    /\ d \notin down
    /\ left' = left \ {d}
    /\ IF seen[d] = tree[d]
         THEN UNCHANGED <<tree, blocked, synced>>
         ELSE IF WhitelistRefuses(d, seen[d])
           THEN blocked' = blocked \cup {d} /\ UNCHANGED <<tree, synced>>
           ELSE /\ tree' = [tree EXCEPT ![d] = seen[d]]
                /\ synced' = synced \cup {d}
                /\ UNCHANGED blocked
    /\ UNCHANGED <<fleetVars, down, acked, mishap, st, cloned, drift, failed, exit, seen>>

(* sync_device_to_gitlab for a device that answers.                        *)
SyncDevice(d) ==
    /\ st = "sync"
    /\ d \in left
    /\ d \notin down
    /\ left' = left \ {d}
    /\ seen' = [seen EXCEPT ![d] = running[d]]
    /\ IF ~Differs(d)
         THEN UNCHANGED <<tree, blocked, synced>>
         ELSE IF RefusedOn(d)
           THEN blocked' = blocked \cup {d} /\ UNCHANGED <<tree, synced>>
           ELSE /\ tree' = [tree EXCEPT ![d] = running[d]]
                /\ synced' = synced \cup {d}
                /\ UNCHANGED blocked
    /\ UNCHANGED <<fleetVars, down, acked, mishap, st, cloned, drift, failed, exit>>

(* The guardrail gives no answer within its 30 seconds: d is blocked.      *)
GuardrailTimeout(d) ==
    /\ Mishap("crash")
    /\ st = "sync"
    /\ d \in (left \cap Firewall) \ down
    /\ Differs(d)
    /\ left' = left \ {d}
    /\ seen' = [seen EXCEPT ![d] = running[d]]
    /\ blocked' = blocked \cup {d}
    /\ UNCHANGED <<fleetVars, down, acked, st, cloned, tree, drift, failed, synced, exit>>

(* It does not answer, or git cannot stage the file.                       *)
SyncDeviceFails(d) ==
    /\ st = "sync"
    /\ d \in left
    /\ left' = left \ {d}
    /\ failed' = failed \cup {d}
    /\ \/ d \in down /\ UNCHANGED <<mishap, seen>>
       \/ /\ Mishap("crash")
          /\ d \notin down /\ Differs(d)
          /\ seen' = [seen EXCEPT ![d] = running[d]]
    /\ UNCHANGED <<fleetVars, down, acked, st, cloned, tree, drift, blocked, synced, exit>>

SyncStatusUnblocked == IF Unacked # {} THEN 3 ELSE 0

(* The status after the commit: blocked devices come before failed ones.   *)
SyncStatus ==
    CASE blocked # {} -> 2
      [] blocked = {} /\ Unacked # {} -> 3
      [] OTHER -> 0

PushForced == TRUE

(* git accepts a push only from the tip of main.                           *)
PushAccepted == tip

StagedAndNoneBlocked == synced # {} /\ blocked = {}

(* There is something to commit; blocked devices do not hold it back.      *)
Staged == synced # {}

(* The end of sync_all_devices: commit and push what was staged.  A git    *)
(* error is status 1 whatever else the script has to report.               *)
SyncVerdict ==
    /\ st = "sync"
    /\ left = {}
    /\ UNCHANGED mishap
    /\ IF ~Staged
         THEN UNCHANGED <<main, recorded>> /\ JobEnd(SyncStatus)
         ELSE IF PushAccepted
           THEN Commit(tree, tree) /\ JobEnd(SyncStatus)
           ELSE UNCHANGED <<main, recorded>> /\ JobEnd(1)

(* git or the script fails for another reason: status 1.  It may do so     *)
(* after the push reached main: its answer is lost, or load_acks meets a   *)
(* malformed line.                                                         *)
SyncCrash ==
    /\ Mishap("crash")
    /\ st = "sync"
    /\ \/ UNCHANGED <<main, recorded>>
       \/ left = {} /\ Staged /\ PushAccepted /\ Commit(tree, tree)
    /\ JobEnd(1)

JobStep ==
    \/ JobStart
    \/ DetectVerdict
    \/ DetectCrash
    \/ SyncVerdict
    \/ SyncCrash
    \/ \E d \in Dev : \/ DetectDevice(d) \/ SyncDevice(d)
                       \/ SyncDeviceFails(d) \/ GuardrailTimeout(d)

-----------------------------------------------------------------------------
(***************************************************************************)
(* What happens around the job.                                            *)
(***************************************************************************)
Outage(d) ==
    /\ Mishap("outage")
    /\ d \notin down
    /\ down' = down \cup {d}
    /\ UNCHANGED <<fleetVars, acked, jobVars>>

Recover(d) ==
    /\ d \in down
    /\ down' = down \ {d}
    /\ UNCHANGED <<fleetVars, acked, mishap, jobVars>>

(* Someone adds d to known-unreachable.txt.  A job that is running does    *)
(* not see it, so it may as well happen between two jobs.                  *)
Acknowledge(d) ==
    /\ Mishap("acknowledge")
    /\ st = "idle"
    /\ d \notin acked
    /\ acked' = acked \cup {d}
    /\ UNCHANGED <<fleetVars, down, jobVars>>

(* The expiry date passes.                                                 *)
Expire(d) ==
    /\ d \in acked
    /\ acked' = acked \ {d}
    /\ UNCHANGED <<fleetVars, down, mishap, jobVars>>

Surroundings(d) ==
    \/ Outage(d)
    \/ Recover(d)
    \/ Acknowledge(d)
    \/ Expire(d)

(* Someone else's commit to one device's file reaches main.                *)
OthersPush(d) ==
    /\ Mishap("push")
    /\ \E cfg \in Config \ {main[d]} :
         LET new == [main EXCEPT ![d] = cfg] IN Commit(new, new)
    /\ tip' = FALSE
    /\ UNCHANGED <<deviceVars, ssh, down, acked, jobVars>>

SyncNext ==
    \/ JobStep
    \/ \E d \in Dev : OthersPush(d) \/ Surroundings(d)
    \/ \E d \in Dev : (SshEdit(d) \/ Reload(d)) /\ UNCHANGED ownVars

(* The schedule keeps starting the job, and a job that runs goes on.       *)
SyncSpec == SyncInit /\ [][SyncNext]_syncVars /\ WF_syncVars(JobStep)

-----------------------------------------------------------------------------
(***************************************************************************)
(* Properties.                                                             *)
(***************************************************************************)

(* Device as source of truth: once a device stays reachable and its        *)
(* configuration is one the guardrail accepts, main ends up holding it for *)
(* good, whatever happens to the other devices and to single pushes.       *)
Converges ==
    \A d \in Dev :
      <>[](d \notin down /\ ~RefusedOn(d)) => <>[](main[d] = running[d])

(* A forgotten acknowledgment re-raises itself: when a device stays        *)
(* unreachable and unacknowledged the job ends up red for good, unless the *)
(* guardrail keeps refusing some device.                                   *)
ForgottenAckReRaises ==
    \A d \in Dev :
      <>[](d \in down \ acked) /\ <>[](\A e \in Dev : ~RefusedOn(e))
        => <>[](exit = 3)

JobEnds == st # "idle" /\ st' = "idle"

MirRun == IF st = "idle" THEN "idle" ELSE "on"

MirStaged == [d \in synced |-> tree[d]]

MirRefused == {x \in Dev \X Config : WhitelistRefuses(x[1], x[2])}

Mir == INSTANCE Mirror WITH File <- Dev, Gone <- {}, Refused <- MirRefused,
         Group <- {}, Cap <- 0, repo <- main, source <- running, run <- MirRun,
         staged <- MirStaged

(* A green job has verified every device: what it last read of a device is *)
(* what the commit it leaves on main (or found there) holds, except for    *)
(* devices acknowledged as unreachable.                                    *)
GreenMeansVerified ==
    [][JobEnds /\ exit' = 0 =>
         \A d \in Dev \ acked : d \notin failed /\ tree[d] = seen[d]]_syncVars

(* The job pushes only what it is for, on top of what it checked out: when *)
(* main moves, it still is the commit the job cloned, so that nobody's     *)
(* commit is overwritten, whichever files that commit and this one are     *)
(* about; and a file that changes gets the text its device gave last, one  *)
(* the guardrail accepts.                                                  *)
PublishesOnlyDrift ==
    [][JobEnds /\ main' # main =>
         /\ main = cloned
         /\ \A d \in Dev : main'[d] # cloned[d] =>
              main'[d] = seen[d] /\ ~WhitelistRefuses(d, main'[d])]_syncVars

(* The job implements Mirror: with a checkout that grows old and a push    *)
(* that is all or nothing, it edits files of main in place as main is at   *)
(* the moment, each to a text its device had while the second script ran.  *)
MirrorsDevices == Mir!MirrorSpec

(* An unreachable device that nobody acknowledged makes the job fail with  *)
(* a status allow_failure does not forgive.                                *)
UnreachableIsRed == [][JobEnds /\ Unacked # {} => exit' \in {3, 4}]_syncVars
=============================================================================
