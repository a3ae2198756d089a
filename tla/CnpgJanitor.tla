---------------------------- MODULE CnpgJanitor -----------------------------
(***************************************************************************)
(* kubernetes/_core/cnpg-janitor: an hourly job that deletes the Backup    *)
(* objects that keep the schedule of a CloudNativePG cluster waiting for   *)
(* good, and fails when a schedule or a cluster shows no recent backup.    *)
(*                                                                         *)
(* The operator works on the same objects between any two requests of the  *)
(* job.  The job compares the resourceVersion of an object with the listed *)
(* one and with nothing else, so versions are represented by the set of    *)
(* listed objects that have not been written to since.                     *)
(*                                                                         *)
(* Time passes in hours of which only the order of the thresholds counts.  *)
(*                                                                         *)
(* CapNothing, DeleteUnconditionally and ProblemOnDemandCounts are forms   *)
(* with a defect and no part of CnpgNext: exchanged for the definitions    *)
(* they stand in front of, they show that the properties notice.           *)
(***************************************************************************)
EXTENDS Naturals

CONSTANTS
    Cluster,        \* clusters, each with one ScheduledBackup
    Suspended,      \* clusters whose schedule is suspended
    Name,           \* names of a cluster's Backup objects
    MinAge,         \* MIN_AGE_SECONDS
    StuckRunning,   \* STUCK_RUNNING_SECONDS
    MaxAge,         \* MAX_AGE_HOURS
    Period,         \* of the schedules
    MaxMishap       \* bound: failed requests, dying jobs, and schedules and
                    \* clusters that are made anew or deleted, in one behaviour

ASSUME JanitorAssumption ==
    /\ Suspended \subseteq Cluster
    /\ MinAge \in Nat
    /\ StuckRunning \in Nat
    /\ MaxAge \in Nat
    /\ Period \in Nat \ {0}
    /\ MaxMishap \in Nat
    /\ MinAge <= StuckRunning
    /\ Period <= MaxAge

Backup == Cluster \X Name

Latched  == {"walArchivingFailing"}
InFlight == {"pending", "running"}   \* and started, finalizing
Missing  == {"absent", "released"}   \* no object; released: this job deleted it
Phase    == Missing \cup {"", "done"} \cup Latched \cup InFlight

VARIABLES
    phase,      \* status.phase of each Backup object
    age,        \* hours since it was created
    child,      \* Backups a schedule made and waits for
    born,       \* hours since each schedule was created
    fired,      \* hours since its lastScheduleTime
    present,    \* clusters that exist
    succeeded,  \* hours since lastSuccessfulBackup of each cluster
    mishap,     \* mishaps still to come
    st,         \* where the job is in main()
    late,       \* hours completed since the job read the clock
    plan,       \* backups select_stuck returned, still to be handled
    chosen,     \* the backup that was read again and is about to be deleted
    intact,     \* listed backups still of interest and not written to since
    judged,     \* schedules old enough to be judged
    unfired,    \* those of them that have not fired in time
    exit        \* status of the last run; of a run under way, so far

objectVars == <<phase, age, child, intact>>
siteVars   == <<born, fired, present, succeeded>>
runVars    == <<st, late, plan, chosen, judged, unfired, exit>>
cnpgVars   == <<objectVars, siteVars, runVars, mishap>>

Undone(b) == phase[b] \notin Missing \cup {"done"}

CapNothing(n, limit) == n

(* Ages beyond every threshold are alike.                                  *)
Cap(n, limit) == IF n > limit THEN limit ELSE n
OldBackup     == StuckRunning + 1
LongAgo       == MaxAge + 2
Grown         == MaxAge + 1

(* The shape of the state: the job handles one Backup at a time.           *)
CnpgTypeOK ==
    /\ phase \in [Backup -> Phase]
    /\ age \in [Backup -> 0..OldBackup]
    /\ child \subseteq Backup
    /\ intact \subseteq Backup
    /\ born \in [Cluster -> 0..Grown]
    /\ fired \in [Cluster -> 0..LongAgo]
    /\ present \subseteq Cluster
    /\ succeeded \in [Cluster -> 0..LongAgo]
    /\ mishap \in 0..MaxMishap
    /\ st \in {"idle", "release", "clusters"}
    /\ late \in 0..1
    /\ plan \subseteq Backup
    /\ chosen \subseteq Backup /\ \A x, y \in chosen : x = y
    /\ judged \subseteq Cluster \ Suspended
    /\ unfired \subseteq judged
    /\ exit \in {0, 1}

CnpgInit ==
    /\ phase = [b \in Backup |-> "absent"]
    /\ age = [b \in Backup |-> 0]
    /\ child = {}
    /\ intact = {}
    /\ born = [c \in Cluster |-> 0]
    /\ fired = [c \in Cluster |-> LongAgo]        \* never
    /\ present = Cluster
    /\ succeeded = [c \in Cluster |-> LongAgo]    \* never
    /\ mishap = MaxMishap
    /\ st = "idle"
    /\ late = 0
    /\ plan = {}
    /\ chosen = {}
    /\ judged = {}
    /\ unfired = {}
    /\ exit = 0

-----------------------------------------------------------------------------
(***************************************************************************)
(* The operator, the schedules and people.                                 *)
(***************************************************************************)

(* Every write to an object gives it a new resourceVersion.                *)
Written(b) == intact' = intact \ {b}

Move(b, p) == phase' = [phase EXCEPT ![b] = p] /\ UNCHANGED <<age, child>>

(* A Backup that is done or gone has no age and is waited for by nobody.   *)
Settle(b, p) ==
    /\ phase' = [phase EXCEPT ![b] = p]
    /\ age' = [age EXCEPT ![b] = 0]
    /\ child' = child \ {b}

(* A schedule that is due makes a Backup once all it made are done.        *)
Fire(b) ==
    /\ b[1] \notin Suspended
    /\ fired[b[1]] >= Period
    /\ \A x \in child : x[1] = b[1] => ~Undone(x)
    /\ ~Undone(b)
    /\ phase' = [phase EXCEPT ![b] = ""]
    /\ child' = child \cup {b}
    /\ fired' = [fired EXCEPT ![b[1]] = 0]
    /\ Written(b)
    /\ UNCHANGED <<age, born, present, succeeded, runVars, mishap>>

OnDemand(b) ==
    /\ ~Undone(b)
    /\ Move(b, "")
    /\ Written(b)
    /\ UNCHANGED <<siteVars, runVars, mishap>>

(* The operator moves a Backup on, into the latch or to a failed end.      *)
Advance(b) ==
    /\ \/ phase[b] = "" /\ Move(b, "pending")
       \/ phase[b] = "pending" /\ Move(b, "running")
       \/ phase[b] \in InFlight /\ \E p \in Latched : Move(b, p)
       \/ phase[b] \in InFlight /\ Settle(b, "done")
    /\ Written(b)
    /\ UNCHANGED <<siteVars, runVars, mishap>>

Succeed(b) ==
    /\ phase[b] = "running"
    /\ b[1] \in present
    /\ Settle(b, "done")
    /\ Written(b)
    /\ succeeded' = [succeeded EXCEPT ![b[1]] = 0]
    /\ UNCHANGED <<born, fired, present, runVars, mishap>>

(* select_stuck: what holds the backup slot for good.                      *)
Stuck(b) ==
    \/ phase[b] \in Latched /\ age[b] > MinAge
    \/ phase[b] \in InFlight /\ age[b] > StuckRunning

(* What a Backup does to the schedule behind it.                           *)
SlotOf(b) ==
    IF phase[b] = "absent" THEN "gone"
    ELSE IF phase[b] = "released" THEN "released"
    ELSE IF phase[b] = "done" THEN "done"
    ELSE IF Stuck(b) THEN "stuck"
    ELSE "busy"

(* Retention removes what is done; the older job of one namespace, or an   *)
(* administrator, removes a latched Backup.                                *)
Vanish(b) ==
    /\ SlotOf(b) = "done" \/ (SlotOf(b) = "stuck" /\ phase[b] \in Latched)
    /\ Settle(b, "absent")
    /\ Written(b)
    /\ UNCHANGED <<siteVars, runVars, mishap>>

(* An hour passes.  The job's deadline is ten minutes.                     *)
Hour ==
    /\ late = 0
    /\ late' = IF st = "idle" THEN 0 ELSE 1
    /\ age' = [b \in Backup |-> IF Undone(b) THEN Cap(age[b] + 1, OldBackup) ELSE age[b]]
    /\ born' = [c \in Cluster |-> Cap(born[c] + 1, Grown)]
    /\ fired' = [c \in Cluster |-> Cap(fired[c] + 1, LongAgo)]
    /\ succeeded' = [c \in Cluster |-> Cap(succeeded[c] + 1, LongAgo)]
    /\ UNCHANGED <<phase, child, intact, present, mishap,
                   st, plan, chosen, judged, unfired, exit>>

Mishap == mishap > 0 /\ mishap' = mishap - 1

(* A schedule is deleted and made anew: it has never fired.  Its Backups   *)
(* remain, and it waits for them.                                          *)
Renew(c) ==
    /\ Mishap
    /\ born' = [born EXCEPT ![c] = 0]
    /\ fired' = [fired EXCEPT ![c] = LongAgo]
    /\ UNCHANGED <<objectVars, present, succeeded, runVars>>

(* A cluster is deleted, or one of its name is made, which has no backup.  *)
Appear(c) ==
    /\ Mishap
    /\ present' = IF c \in present THEN present \ {c} ELSE present \cup {c}
    /\ succeeded' = [succeeded EXCEPT ![c] = LongAgo]
    /\ UNCHANGED <<objectVars, born, fired, runVars>>

-----------------------------------------------------------------------------
(***************************************************************************)
(* The job.                                                                *)
(***************************************************************************)

(* The job starts: it reads the clock and lists the Backups.               *)
List ==
    /\ st = "idle"
    /\ st' = "release"
    /\ exit' = 0
    /\ plan' = {b \in Backup : Stuck(b)}
    /\ intact' = plan'
    /\ UNCHANGED <<phase, age, child, siteVars, late, chosen, judged, unfired, mishap>>

(* The next Backup of the list is read again.  Only an unchanged one is    *)
(* gone on with; an error answer, which has no phase, counts as a change.  *)
Reread(b) ==
    /\ st = "release"
    /\ chosen = {}
    /\ b \in plan
    /\ plan' = plan \ {b}
    /\ \/ chosen' = {b} \cap intact /\ UNCHANGED <<intact, mishap>>
       \/ chosen' = {} /\ Written(b) /\ Mishap
    /\ UNCHANGED <<phase, age, child, siteVars, st, late, judged, unfired, exit>>

DeleteUnconditionally(b) ==
    /\ chosen = {b}
    /\ chosen' = {}
    /\ Settle(b, "released")
    /\ Written(b)
    /\ UNCHANGED <<siteVars, st, late, plan, judged, unfired, exit, mishap>>

(* DELETE with the listed version as precondition: 200, 404 or 409.        *)
Delete(b) ==
    /\ chosen = {b}
    /\ chosen' = {}
    /\ IF b \in intact
         THEN Settle(b, "released") /\ UNCHANGED exit
         ELSE /\ exit' = IF phase[b] \in Missing THEN 1 ELSE exit
              /\ UNCHANGED <<phase, age, child>>
    /\ Written(b)
    /\ UNCHANGED <<siteVars, st, late, plan, judged, unfired, mishap>>

(* The server reports an error, whether the deletion happened or not.      *)
DeleteFails(b) ==
    /\ Mishap
    /\ chosen = {b}
    /\ chosen' = {}
    /\ exit' = 1
    /\ \/ b \in intact /\ Settle(b, "released")
       \/ UNCHANGED <<phase, age, child>>
    /\ Written(b)
    /\ UNCHANGED <<siteVars, st, late, plan, judged, unfired>>

(* The ScheduledBackups are listed and judged by the clock of the start,   *)
(* those excepted that are too new to judge.                               *)
ReadSchedules ==
    /\ st = "release"
    /\ plan = {}
    /\ chosen = {}
    /\ st' = "clusters"
    /\ judged' = {c \in Cluster \ Suspended : born[c] >= MaxAge + late}
    /\ unfired' = {c \in judged' : fired[c] > MaxAge + late}
    /\ UNCHANGED <<objectVars, siteVars, late, plan, chosen, exit, mishap>>

ProblemOnDemandCounts(c) ==
    c \in judged /\ (c \notin present \/ succeeded[c] > MaxAge + late)

(* What check_freshness finds wrong: the schedule, or the cluster.         *)
Problem(c) ==
    \/ c \in unfired
    \/ c \in judged \ present
    \/ c \in judged /\ succeeded[c] > MaxAge + late

JobEnd(status) ==
    /\ st' = "idle"
    /\ exit' = status
    /\ late' = 0
    /\ plan' = {}
    /\ chosen' = {}
    /\ intact' = {}
    /\ judged' = {}
    /\ unfired' = {}
    /\ UNCHANGED siteVars

(* The Clusters are listed and the verdict is given.                       *)
Verdict ==
    /\ st = "clusters"
    /\ JobEnd(IF exit = 1 \/ \E c \in Cluster : Problem(c) THEN 1 ELSE 0)
    /\ UNCHANGED <<phase, age, child, mishap>>

(* A listing fails, a connection breaks, possibly after a deletion it was  *)
(* to report, or the deadline strikes: the job fails.                      *)
Die ==
    /\ Mishap
    /\ st # "idle"
    /\ \/ \E b \in chosen \cap intact : Settle(b, "released")
       \/ UNCHANGED <<phase, age, child>>
    /\ JobEnd(1)

JobStep ==
    \/ List
    \/ \E b \in Backup : Reread(b) \/ Delete(b) \/ DeleteFails(b)
    \/ ReadSchedules
    \/ Verdict
    \/ Die

CnpgNext ==
    \/ JobStep
    \/ Hour
    \/ \E c \in Cluster : Renew(c) \/ Appear(c)
    \/ \E b \in Backup : Fire(b) \/ OnDemand(b) \/ Advance(b) \/ Succeed(b) \/ Vanish(b)

(* The CronJob runs every hour, whatever became of the run before.         *)
CnpgSpec == CnpgInit /\ [][CnpgNext]_cnpgVars /\ WF_cnpgVars(JobStep) /\ WF_cnpgVars(Hour)

-----------------------------------------------------------------------------
(***************************************************************************)
(* Properties.                                                             *)
(***************************************************************************)
SlotMap == [b \in Backup |-> SlotOf(b)]

Slots == INSTANCE BackupSlots WITH slot <- SlotMap

(* However the operator and other janitors interleave with a run, the      *)
(* listing, the second reading and the deletion amount to one step that    *)
(* releases a Backup stuck at that very moment, and never one that is done *)
(* or under way; and none stays stuck.                                     *)
ReleasesOnlyStuck == Slots!SlotsSpec

(* A run that ends well proves that backups still happen: each schedule    *)
(* has fired and its cluster exists and has succeeded within MAX_AGE_HOURS *)
(* of `now', although schedules and clusters were read apart, unless the   *)
(* schedule is no older itself.                                            *)
GreenMeansFresh ==
    [][st # "idle" /\ st' = "idle" /\ exit' = 0 =>
         \A c \in Cluster \ Suspended :
           \/ born[c] < MaxAge + late
           \/ /\ c \in present
              /\ fired[c] <= MaxAge + late
              /\ succeeded[c] <= MaxAge + late]_cnpgVars

(* A schedule that is dead, or a cluster that is gone or has no successful *)
(* backup, turns the job red for good, however many backups are made on    *)
(* demand, and although a schedule that is made anew is let off at first.  *)
DeadScheduleIsRed ==
    \A c \in Cluster \ Suspended :
      <>[](fired[c] = LongAgo) \/ <>[](succeeded[c] = LongAgo) \/ <>[](c \notin present)
      => <>[](st = "idle" => exit = 1)
=============================================================================
