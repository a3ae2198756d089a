------------------------- MODULE SeaweedReconciler --------------------------
(***************************************************************************)
(* seaweedfs_reconciler.py, the hourly job that reclaims garbage from the  *)
(* object store: it pauses the master's own vacuum walk, vacuums the       *)
(* volumes with the most garbage by explicit id, judges the vacuum by what *)
(* volume.list shows afterwards, and resumes the walk.  Then it keeps the  *)
(* quotas of the buckets as Git has them (BucketQuotas).                   *)
(*                                                                         *)
(* The walk holds the vacuum lock for as long as it runs, and a request    *)
(* made meanwhile is refused without a word.  The walk only notices that   *)
(* it was disabled between two volumes.                                    *)
(*                                                                         *)
(* Every volume has one copy on each server, with the same garbage, which  *)
(* is counted in units of the eligibility threshold.                       *)
(***************************************************************************)
EXTENDS BucketQuotas

CONSTANTS
    Vol,        \* volumes
    Server,     \* volume servers
    Sealed,     \* volumes marked read-only: the walk skips them
    Stuck,      \* volumes whose compaction never succeeds
    MaxGarbage, \* bound: garbage of a volume
    HeadSize,   \* volumes vacuumed first, to see whether requests are served
    Shortages,  \* the sets of volumes the disks may be too full for
    Budgets     \* bounds: what one behaviour may hold, in each combination

ASSUME SeaAssumption ==
    /\ IsFiniteSet(Vol) /\ IsFiniteSet(Server)
    /\ Sealed \subseteq Vol
    /\ Stuck \subseteq Vol
    /\ MaxGarbage \in Nat
    /\ HeadSize \in Nat
    /\ Shortages \subseteq SUBSET Vol
    /\ Budgets \subseteq [mishap : Nat,               \* errors, outages, signals
                         change : Nat,               \* what happens to buckets
                         garbage : 0..MaxGarbage,    \* of a volume, at first
                         buckets : SUBSET Bucket]    \* buckets, at first

VARIABLES
    walkOn,     \* the master may start its vacuum walk
    walk,       \* "off", "between" two volumes, or the volume it compacts
    garbage,    \* deleted data of each copy of a volume
    up,         \* servers the master sees
    tight,      \* volumes that do not fit in the free space of their servers
    mishap,     \* mishaps still to come
    change,     \* changes of buckets still to come
    pc,         \* the job's next step; "idle" between two runs
    before,     \* garbage of each volume in the list the plan was made from
    chosen,     \* volumes to vacuum in this run
    head,       \* chosen[:3]
    left,       \* chosen volumes not sent yet
    sent,       \* volumes whose request met no error
    refused,    \* the last request for head found the vacuum lock taken
    failed,     \* failures is not empty
    dying,      \* SIGTERM raised SystemExit: only `finally' is left to do
    exit,       \* how the last run ended
    compacted,  \* volumes compacted since the plan was made (history)
    blind       \* a server was missing from a list this run read (history)

storeVars == <<walkOn, walk, garbage, up, tight>>
runVars   == <<before, chosen, head, left, sent, refused, blind>>
budgets   == <<mishap, change>>
seaVars   == <<storeVars, budgets, pc, runVars, failed, dying, exit, compacted, quotaVars>>

InTry == {"plan", "prime", "probe", "send", "verify", "resend", "judge"}
After == {"housekeeping", "buckets", "rules", "unrule", "drift"}
Steps == {"idle", "disable", "enable"} \cup InTry \cup After

(* The shape of the state; every volume the job sends is one it chose.     *)
SeaTypeOK ==
    /\ walkOn \in BOOLEAN
    /\ walk \in {"off", "between"} \cup Vol
    /\ garbage \in [Vol -> 0..MaxGarbage]
    /\ up \subseteq Server
    /\ tight \subseteq Vol
    /\ mishap \in Nat /\ change \in Nat
    /\ pc \in Steps
    /\ before \in [Vol -> Nat]
    /\ chosen \subseteq Vol
    /\ head \subseteq chosen
    /\ left \subseteq chosen
    /\ sent \subseteq chosen
    /\ refused \in BOOLEAN
    /\ failed \in BOOLEAN
    /\ dying \in BOOLEAN
    /\ exit \in {"ok", "failed", "killed"}
    /\ compacted \subseteq Vol
    /\ blind \in BOOLEAN
    /\ QuotaTypeOK

NoVolume == [v \in Vol |-> 0]

SeaInit ==
    /\ walkOn = TRUE
    /\ walk = "off"
    /\ \E bound \in Budgets :
         /\ mishap = bound.mishap
         /\ change = bound.change
         /\ garbage \in [Vol -> 0..bound.garbage]
         /\ QuotaInit(bound.buckets)
    /\ up = Server
    /\ tight \in Shortages
    /\ pc = "idle"
    /\ before = NoVolume
    /\ chosen = {} /\ head = {} /\ left = {} /\ sent = {}
    /\ refused = FALSE /\ blind = FALSE
    /\ failed = FALSE
    /\ dying = FALSE
    /\ exit = "ok"
    /\ compacted = {}

(* The mutated forms below, named after their definition and a plausible   *)
(* bug in it, belong to no behaviour of the job: each shows that a         *)
(* property of a run would catch the bug.                                  *)

Mishap == mishap > 0 /\ mishap' = mishap - 1 /\ UNCHANGED change

(* The garbage of v in volume.list: summed over the copies the master sees.*)
Listed(v) == garbage[v] * Cardinality(up)

(* volume.list yields something to parse.                                  *)
Readable == up # {}

(* plan_vacuum: volumes with all copies and enough garbage.                *)
Eligible == {v \in Vol : up = Server /\ garbage[v] > 0}

HalvedNotGrown(v) == before[v] > 0 /\ Listed(v) <= before[v]

(* vacuum_effect: the listed garbage of v dropped to at most half.         *)
Halved(v) == before[v] > 0 /\ 2 * Listed(v) <= before[v]

HeadOfOne(vols) ==
    {H \in SUBSET vols :
       /\ Cardinality(H) = IF vols = {} THEN 0 ELSE 1
       /\ \A v \in H, w \in vols \ H : garbage[v] >= garbage[w]}

(* The possible chosen[:3]: most garbage first.                            *)
Heads(vols) ==
    {H \in SUBSET vols :
       /\ \/ Cardinality(H) = HeadSize
          \/ Cardinality(H) < HeadSize /\ H = vols
       /\ \A v \in H, w \in vols \ H : garbage[v] >= garbage[w]}

(* The volumes in `vols' are compacted, all copies of them.                *)
Compact(vols) ==
    /\ garbage' = [v \in Vol |-> IF v \in vols THEN 0 ELSE garbage[v]]
    /\ compacted' = compacted \cup vols

(***************************************************************************)
(* volume.vacuum -volumeId=ids, as the job sends it: `done' is compacted,  *)
(* `error' is what output_errors makes of the transcript after one retry.  *)
(* The room of a volume was checked when the plan was made.                *)
(***************************************************************************)
Request(ids, error) ==
    LET served == IF walk = "off" THEN (ids \cap Eligible) \ Stuck ELSE {}
    IN /\ \/ Compact(served \ tight) /\ error = (served \cap tight # {})
             /\ UNCHANGED budgets
          \/ /\ error /\ Mishap
             /\ \E done \in SUBSET (served \ tight) : Compact(done)
       /\ failed' = (failed \/ error)

-----------------------------------------------------------------------------
(***************************************************************************)
(* The job.  CronJob: hourly, concurrencyPolicy Forbid, backoffLimit 0.    *)
(***************************************************************************)
Run == UNCHANGED <<dying, exit, quotaVars>>

JobStart ==
    /\ pc = "idle"
    /\ pc' = "disable"
    /\ UNCHANGED <<storeVars, budgets, runVars, failed, compacted>> /\ Run

(* What is of no use any more once the vacuum is judged.                   *)
Forget ==
    /\ before' = NoVolume
    /\ head' = {} /\ left' = {} /\ sent' = {}
    /\ refused' = FALSE

(* The job's process is gone.                                              *)
JobEnd(how) ==
    /\ Forget
    /\ pc' = "idle"
    /\ exit' = how
    /\ chosen' = {} /\ compacted' = {} /\ blind' = FALSE
    /\ failed' = FALSE
    /\ dying' = FALSE
    /\ QuotaEnd /\ UNCHANGED bucketVars

(* volume.vacuum.disable; an error is recorded and the run goes on.        *)
Disable ==
    /\ pc = "disable"
    /\ pc' = "plan"
    /\ \/ walkOn' = FALSE /\ UNCHANGED <<budgets, failed>>
       \/ walkOn' \in {FALSE, walkOn} /\ Mishap /\ failed' = TRUE
    /\ UNCHANGED <<walk, garbage, up, tight, runVars, compacted>> /\ Run

(* volume.list cannot be parsed, or a server gives no status: `except'.    *)
ReadFails ==
    /\ pc \in {"plan", "probe", "verify", "judge"}
    /\ IF Readable THEN Mishap ELSE UNCHANGED budgets
    /\ pc' = "enable"
    /\ failed' = TRUE
    /\ UNCHANGED <<storeVars, runVars, compacted>> /\ Run

(* Every list read in a run is one a server may be missing from.           *)
Look == blind' = (blind \/ up # Server)

RestUnchosen(H) == Vol \ H

(* What send() is called with once the head is through.                    *)
Rest(H) == (Eligible \ tight) \ H

Plan ==
    /\ pc = "plan" /\ Readable
    /\ Look
    /\ before' = [v \in Vol |-> Listed(v)]
    /\ chosen' = Eligible \ tight
    /\ \E H \in Heads(Eligible \ tight) : head' = H /\ left' = Rest(H)
    /\ compacted' = {}
    /\ pc' = IF Eligible \subseteq tight THEN "enable" ELSE "prime"
    /\ failed' = (failed \/ (Eligible # {} /\ Eligible \subseteq tight))
    /\ UNCHANGED <<storeVars, budgets, sent, refused>> /\ Run

(* The prime loop sends the head, looks at the list and, if no volume of   *)
(* the head has halved, does it again.                                     *)
Prime ==
    /\ pc = "prime"
    /\ pc' = "probe"
    /\ \E error \in BOOLEAN : Request(head, error)
    /\ refused' = (walk # "off")
    /\ UNCHANGED <<walkOn, walk, up, tight, before, chosen, head, left, sent, blind>>
    /\ Run

Primed == \E v \in head : Halved(v)

Probe ==
    /\ pc = "probe" /\ Readable
    /\ Look
    /\ pc' = IF Primed THEN "send" ELSE "prime"
    /\ sent' = IF Primed THEN head ELSE sent
    /\ UNCHANGED <<storeVars, budgets, before, chosen, head, left, refused, failed, compacted>>
    /\ Run

(* The prime deadline.  It is meant to outlast the one volume a disabled   *)
(* walk is compacting: giving up on that is a mishap.                      *)
PrimeTimeout ==
    /\ pc = "probe" /\ Readable
    /\ ~Primed
    /\ IF refused /\ ~walkOn THEN Mishap ELSE UNCHANGED budgets
    /\ Look
    /\ pc' = "enable"
    /\ failed' = TRUE
    /\ UNCHANGED <<storeVars, before, chosen, head, left, sent, refused, compacted>>
    /\ Run

(* One batch of the rest, here of one volume; an error ends the loop.      *)
Send ==
    /\ pc = "send"
    /\ \E v \in left, error \in BOOLEAN :
         /\ Request({v}, error)
         /\ left' = left \ {v}
         /\ sent' = IF error THEN sent ELSE sent \cup {v}
         /\ pc' = IF error THEN "verify" ELSE "send"
    /\ UNCHANGED <<walkOn, walk, up, tight, before, chosen, head, refused, blind>>
    /\ Run

(* Nothing is left, or the time budget is used up.                         *)
SendEnds ==
    /\ pc = "send"
    /\ pc' = "verify"
    /\ UNCHANGED <<storeVars, budgets, runVars, failed, compacted>> /\ Run

Missing == {v \in sent : ~Halved(v)}

(* Compare with the list the plan was made from; one retry for what did    *)
(* not compact.                                                            *)
Verify ==
    /\ pc = "verify" /\ Readable
    /\ Look
    /\ pc' = IF Missing = {} THEN "enable" ELSE "resend"
    /\ left' = Missing
    /\ UNCHANGED <<storeVars, budgets, before, chosen, head, sent, refused, failed, compacted>>
    /\ Run

(* The budget may be used up by now: then nothing is sent.                 *)
Resend ==
    /\ pc = "resend"
    /\ pc' = "judge"
    /\ \/ \E error \in BOOLEAN : Request(left, error)
       \/ UNCHANGED <<garbage, compacted, budgets, failed>>
    /\ UNCHANGED <<walkOn, walk, up, tight, runVars>> /\ Run

(* No volume at all compacted: failure.                                    *)
Judge ==
    /\ pc = "judge" /\ Readable
    /\ Look
    /\ pc' = "enable"
    /\ failed' = (failed \/ Missing = sent)
    /\ UNCHANGED <<storeVars, budgets, before, chosen, head, left, sent, refused, compacted>>
    /\ Run

(* The end of `finally': a dying run ends here.                            *)
AfterFinally ==
    IF dying
      THEN JobEnd("killed")
      ELSE /\ pc' = "housekeeping"
           /\ Forget
           /\ UNCHANGED <<chosen, blind, failed, compacted>> /\ Run

EnableIfClean ==
    /\ pc = "enable"
    /\ walkOn' = IF failed THEN walkOn ELSE TRUE
    /\ AfterFinally
    /\ UNCHANGED <<walk, garbage, up, tight, budgets>>

(* volume.vacuum.enable in the `finally' clause.                           *)
Enable ==
    /\ pc = "enable"
    /\ walkOn' = TRUE
    /\ AfterFinally
    /\ UNCHANGED <<walk, garbage, up, tight, budgets>>

(* It meets an error, after or before it took effect.                      *)
EnableFails ==
    /\ pc = "enable"
    /\ Mishap
    /\ walkOn' \in {walkOn, TRUE}
    /\ IF dying
         THEN JobEnd("killed")
         ELSE /\ pc' = "housekeeping" /\ failed' = TRUE
              /\ Forget
              /\ UNCHANGED <<chosen, blind, compacted>> /\ Run
    /\ UNCHANGED <<walk, garbage, up, tight>>

(* deleteEmpty and clean.uploads: a failure keeps nothing from running.    *)
Housekeeping ==
    /\ pc = "housekeeping"
    /\ pc' = "buckets"
    /\ \/ UNCHANGED <<budgets, failed>>
       \/ Mishap /\ failed' = TRUE
    /\ UNCHANGED <<storeVars, runVars, compacted>> /\ Run

OnlyQuotas == UNCHANGED <<storeVars, runVars, dying, exit, compacted>>

(* Nobody looks for errors in the output of s3.bucket.list: an error text  *)
(* is a list without buckets.  Only a shell that cannot be started at all  *)
(* is a failure, and the end of the quota step.                            *)
Buckets ==
    /\ pc = "buckets"
    /\ \/ /\ ListBuckets(exists)
          /\ pc' = "rules"
          /\ UNCHANGED <<budgets, failed>>
       \/ /\ Mishap
          /\ \E S \in SUBSET exists \ {exists} : ListBuckets(S)
          /\ pc' = "rules"
          /\ UNCHANGED failed
       \/ /\ Mishap
          /\ pc' = "drift"
          /\ failed' = TRUE
          /\ UNCHANGED quotaVars
    /\ OnlyQuotas

(* Rules that cannot be parsed are a failure, an error text has no rules.  *)
Rules ==
    /\ pc = "rules"
    /\ pc' = "unrule"
    /\ \/ ReadRules(ruled) /\ UNCHANGED <<budgets, failed>>
       \/ ReadRules({}) /\ Mishap /\ failed' \in {failed, TRUE}
    /\ OnlyQuotas

Unrule ==
    /\ pc = "unrule"
    /\ \E b \in orphans :
         \/ DeleteRule(b, FALSE) /\ UNCHANGED <<budgets, failed>>
         \/ DeleteRule(b, TRUE) /\ Mishap /\ failed' = TRUE
    /\ UNCHANGED pc
    /\ OnlyQuotas

QuotasUnread ==
    /\ pc = "unrule" /\ orphans = {}
    /\ pc' = "drift"
    /\ \/ Apply(Planned) /\ UNCHANGED budgets
       \/ Mishap /\ \E done \in SUBSET Planned : Apply(done)
    /\ UNCHANGED failed
    /\ OnlyQuotas

(* The commands for all buckets in one shell, which reports the ones that  *)
(* are gone by now.                                                        *)
Quotas ==
    /\ pc = "unrule" /\ orphans = {}
    /\ pc' = "drift"
    /\ \/ /\ Apply(Planned)
          /\ failed' = (failed \/ ~(Named \subseteq exists))
          /\ UNCHANGED budgets
       \/ /\ Mishap
          /\ Named # {}
          /\ \E done \in SUBSET Planned : Apply(done)
          /\ failed' = TRUE
    /\ OnlyQuotas

(* drift_step, whose failure is the last there may be.                     *)
Drift ==
    /\ pc = "drift"
    /\ \/ UNCHANGED budgets /\ JobEnd(IF failed THEN "failed" ELSE "ok")
       \/ Mishap /\ JobEnd("failed")
    /\ UNCHANGED storeVars

(***************************************************************************)
(* SIGTERM, from activeDeadlineSeconds or an eviction: sys.exit(1) in the  *)
(* handler.  Inside `try' it leads to `finally'; before the try statement, *)
(* in the middle of `finally' and after it the process ends at once, and   *)
(* the command it was waiting for may have been carried out or not.        *)
(***************************************************************************)
SigTerm ==
    /\ Mishap
    /\ \/ /\ pc \in InTry
          /\ pc' = "enable"
          /\ dying' = TRUE
          /\ UNCHANGED <<walkOn, runVars, failed, exit, compacted, quotaVars>>
       \/ /\ pc \in {"disable", "enable"} \cup After
          /\ JobEnd("killed")
          /\ walkOn' \in CASE pc = "disable" -> {walkOn, FALSE}
                           [] pc = "enable"  -> {walkOn, TRUE}
                           [] OTHER          -> {walkOn}
    /\ UNCHANGED <<walk, garbage, up, tight>>

(* SIGKILL, when the grace period is over or memory ran out.               *)
SigKill ==
    /\ pc # "idle"
    /\ Mishap
    /\ JobEnd("killed")
    /\ UNCHANGED storeVars

JobStep ==
    \/ JobStart
    \/ Disable
    \/ ReadFails
    \/ Plan
    \/ Prime
    \/ Probe
    \/ PrimeTimeout
    \/ Send
    \/ SendEnds
    \/ Verify
    \/ Resend
    \/ Judge
    \/ Enable
    \/ EnableFails
    \/ Housekeeping
    \/ Buckets
    \/ Rules
    \/ Unrule
    \/ Quotas
    \/ Drift

-----------------------------------------------------------------------------
(***************************************************************************)
(* The object store around it, as far as the job depends on it.            *)
(***************************************************************************)
RunIsElsewhere == UNCHANGED <<pc, runVars, failed, dying, exit>>

StoreOnly == RunIsElsewhere /\ UNCHANGED quotaVars

WalkBegins ==
    /\ walkOn /\ walk = "off"
    /\ walk' = "between"
    /\ UNCHANGED <<walkOn, garbage, up, tight, budgets, compacted>> /\ StoreOnly

WalkPicks ==
    /\ walkOn /\ walk = "between"
    /\ walk' \in Vol
    /\ UNCHANGED <<walkOn, garbage, up, tight, budgets, compacted>> /\ StoreOnly

WalkCompacts ==
    /\ walk \in Vol
    /\ walk' = "between"
    /\ Compact(({walk} \cap Eligible) \ (Sealed \cup Stuck \cup tight))
    /\ UNCHANGED <<walkOn, up, tight, budgets>> /\ StoreOnly

(* The pass is over, or the walk notices that it was disabled.             *)
WalkEnds ==
    /\ walk = "between"
    /\ walk' = "off"
    /\ UNCHANGED <<walkOn, garbage, up, tight, budgets, compacted>> /\ StoreOnly

WalkStep == WalkBegins \/ WalkPicks \/ WalkCompacts \/ WalkEnds

(* Clients delete objects.                                                 *)
Deletes(v) ==
    /\ Mishap
    /\ garbage[v] < MaxGarbage
    /\ garbage' = [garbage EXCEPT ![v] = @ + 1]
    /\ UNCHANGED <<walkOn, walk, up, tight, compacted>> /\ StoreOnly

Outage(s) ==
    /\ Mishap
    /\ s \in up
    /\ up' = up \ {s}
    /\ UNCHANGED <<walkOn, walk, garbage, tight, compacted>> /\ StoreOnly

Recover(s) ==
    /\ s \notin up
    /\ up' = up \cup {s}
    /\ UNCHANGED <<walkOn, walk, garbage, tight, budgets, compacted>> /\ StoreOnly

DiskFills ==
    /\ Mishap
    /\ tight' \in {short \in Shortages : tight \subseteq short /\ short # tight}
    /\ UNCHANGED <<walkOn, walk, garbage, up, compacted>> /\ StoreOnly

DiskGrows ==
    /\ tight' \in {short \in Shortages : short \subseteq tight /\ short # tight}
    /\ UNCHANGED <<walkOn, walk, garbage, up, budgets, compacted>> /\ StoreOnly

(* Someone disables the walk by hand and forgets about it.                 *)
DisabledByHand ==
    /\ Mishap
    /\ walkOn
    /\ walkOn' = FALSE
    /\ UNCHANGED <<walk, garbage, up, tight, compacted>> /\ StoreOnly

(* Buckets come and go, are given quotas by hand, become read-only.        *)
BucketChanges ==
    /\ change > 0 /\ change' = change - 1
    /\ \E b \in Bucket : Appear(b) \/ SetByHand(b) \/ Enforce(b)
    /\ UNCHANGED <<storeVars, mishap, compacted>> /\ RunIsElsewhere

Surroundings ==
    \/ \E v \in Vol : Deletes(v)
    \/ \E s \in Server : Outage(s) \/ Recover(s)
    \/ DiskFills
    \/ DiskGrows
    \/ DisabledByHand
    \/ BucketChanges

SeaNext == JobStep \/ SigTerm \/ SigKill \/ WalkStep \/ Surroundings

(* The CronJob keeps starting the job, which goes on; so does the walk.    *)
(* The prime loop has a deadline, so it does not go round for ever.        *)
SeaSpec ==
    /\ SeaInit
    /\ [][SeaNext]_seaVars
    /\ WF_seaVars(JobStep)
    /\ SF_seaVars(PrimeTimeout)
    /\ WF_seaVars(WalkStep)

-----------------------------------------------------------------------------
(***************************************************************************)
(* Properties.                                                             *)
(***************************************************************************)
JobEnds == pc # "idle" /\ pc' = "idle"

(* The success the page is keyed on: a run that chose volumes and ended OK *)
(* has seen at least one of them really compacted, however its requests    *)
(* were refused in silence, as long as no server was missing from the      *)
(* lists it compared.                                                      *)
GreenMeansReclaimed ==
    [][JobEnds /\ exit' = "ok" /\ chosen # {} /\ ~blind
         => compacted \cap chosen # {}]_seaVars

(* The master's walk never stays off: neither failed runs nor signals nor  *)
(* a manual disable leave it so for good.                                  *)
WalkResumes == []<>walkOn

(* Garbage the walk skips and volumes that cannot be compacted do not hold *)
(* up the rest: with the servers up and room on them every other volume is *)
(* reclaimed in the end.                                                   *)
BacklogDrains ==
    \A v \in Vol \ Stuck :
      <>[](up = Server /\ tight = {}) => <>[](garbage[v] = 0)

(* Whatever else fails, and wherever a run is cut short, in the end every  *)
(* bucket has Git's quota, and none has a rule left from before it was     *)
(* deleted.                                                                *)
QuotasFollowGit ==
    \A b \in Bucket :
      /\ <>[](b \in exists) => <>[](quota[b] = Want[b])
      /\ <>[](b \notin exists) => <>[](b \notin ruled)

(* A run that ends OK has brought every bucket that nobody changed since   *)
(* into order, unless an output lacked something, which the job takes for  *)
(* buckets and rules that do not exist.                                    *)
GreenMeansQuotas ==
    [][JobEnds /\ exit' = "ok" /\ ~misread =>
         \A b \in Bucket \ touched :
           IF b \in exists THEN quota[b] = Want[b] ELSE b \notin ruled]_seaVars

(* A rule that is deleted is that of no bucket, unless the bucket came or  *)
(* changed after the listing or an output lacked something: the commands   *)
(* are minutes apart and none of them asks again.                          *)
UnrulesOnlyUnknown ==
    [][\A b \in ruled : Unrule /\ b \notin ruled' =>
         b \notin exists \/ b \in touched \/ misread]_seaVars

(* `Only readOnly rules for MISSING buckets' are deleted.                  *)
OnlyOrphanRules ==
    [][\A b \in ruled : Unrule /\ b \notin ruled' => b \notin exists]_seaVars
=============================================================================
