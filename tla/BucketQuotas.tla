---------------------------- MODULE BucketQuotas ----------------------------
(***************************************************************************)
(* The quotas of the buckets, which seaweedfs_reconciler.py (quota_step)   *)
(* keeps as Git has them.  SeaweedFS enforces a quota by a rule that makes *)
(* the bucket's path read-only, and it keeps the rule of a bucket that was *)
(* deleted, so that a new bucket of that name would start read-only: the   *)
(* job deletes the rules of buckets it does not find.                      *)
(*                                                                         *)
(* The job's steps stand here without their place in the run, which        *)
(* SeaweedReconciler adds.  A quota that is switched off is none.          *)
(***************************************************************************)
EXTENDS Naturals, FiniteSets

CONSTANTS
    Bucket,     \* names of buckets
    MaxQuota,   \* bound: quotas are 1..MaxQuota
    Want        \* QUOTAS_MB: the quota of each bucket in Git, or 0

ASSUME QuotaAssumption ==
    /\ MaxQuota \in Nat
    /\ Want \in [Bucket -> 0..MaxQuota]

VARIABLES
    exists,     \* buckets
    quota,      \* the quota of each, or 0
    ruled,      \* bucket names with a read-only rule
    seen,       \* buckets the job's listing had
    listed,     \* their quotas in it
    orphans,    \* rules the job is going to delete
    misread,    \* a listing of this run lacked something (history)
    touched     \* buckets others changed since it was made (history)

bucketVars == <<exists, quota, ruled>>
quotaRun   == <<seen, listed, orphans, misread, touched>>
quotaVars  == <<bucketVars, quotaRun>>

NoQuota == [b \in Bucket |-> 0]

(* Only a bucket that exists has a quota.                                  *)
QuotaTypeOK ==
    /\ exists \subseteq Bucket
    /\ quota \in [Bucket -> 0..MaxQuota]
    /\ \A b \in Bucket \ exists : quota[b] = 0
    /\ ruled \subseteq Bucket
    /\ seen \subseteq Bucket
    /\ listed \in [Bucket -> 0..MaxQuota]
    /\ orphans \subseteq Bucket \ seen
    /\ misread \in BOOLEAN
    /\ touched \subseteq Bucket

QuotaInit(S) ==
    /\ exists = S
    /\ quota = [b \in Bucket |-> IF b \in S THEN Want[b] ELSE 0]
    /\ ruled = {}
    /\ seen = {}
    /\ listed = NoQuota
    /\ orphans = {}
    /\ misread = FALSE
    /\ touched = {}

-----------------------------------------------------------------------------
(***************************************************************************)
(* People, and SeaweedFS.                                                  *)
(***************************************************************************)
Touch(b) == touched' = touched \cup {b} /\ UNCHANGED <<seen, listed, orphans, misread>>

(* Deleting a bucket leaves its rule behind.                               *)
Appear(b) ==
    /\ exists' = IF b \in exists THEN exists \ {b} ELSE exists \cup {b}
    /\ quota' = [quota EXCEPT ![b] = 0]
    /\ UNCHANGED ruled
    /\ Touch(b)

SetByHand(b) ==
    /\ b \in exists
    /\ \E q \in 0..MaxQuota : quota' = [quota EXCEPT ![b] = q]
    /\ UNCHANGED <<exists, ruled>>
    /\ Touch(b)

(* Enforcement makes a bucket read-only, or writable again.                *)
Enforce(b) ==
    /\ b \in exists
    /\ quota[b] # 0
    /\ ruled' = IF b \in ruled THEN ruled \ {b} ELSE ruled \cup {b}
    /\ UNCHANGED <<exists, quota>>
    /\ Touch(b)

-----------------------------------------------------------------------------
(***************************************************************************)
(* The job.                                                                *)
(***************************************************************************)
QuotaEnd ==
    /\ seen' = {}
    /\ listed' = NoQuota
    /\ orphans' = {}
    /\ misread' = FALSE
    /\ touched' = {}

(* s3.bucket.list: what is missing from the output does not exist, for the *)
(* job.                                                                    *)
ListBuckets(S) ==
    /\ seen' = S
    /\ listed' = [b \in Bucket |-> IF b \in S THEN quota[b] ELSE 0]
    /\ misread' = (S # exists)
    /\ touched' = {}
    /\ UNCHANGED <<bucketVars, orphans>>

ReadRulesOfAll(R) ==
    /\ orphans' = R
    /\ misread' = (misread \/ R # ruled)
    /\ UNCHANGED <<bucketVars, seen, listed, touched>>

(* fs.configure, with the read-only rules R in its output.                 *)
ReadRules(R) ==
    /\ orphans' = R \ seen
    /\ misread' = (misread \/ R # ruled)
    /\ UNCHANGED <<bucketVars, seen, listed, touched>>

(* fs.configure -delete of one of them, unless it fails.                   *)
DeleteRule(b, fails) ==
    /\ b \in orphans
    /\ orphans' = orphans \ {b}
    /\ ruled' = IF fails THEN ruled ELSE ruled \ {b}
    /\ UNCHANGED <<exists, quota, seen, listed, misread, touched>>

PlannedIfNone == {b \in seen : listed[b] = 0 /\ Want[b] # 0}

(* plan_quotas: the buckets to set to what Git says, or to rid of a quota. *)
Planned == {b \in seen : listed[b] # Want[b]}

(* The buckets its commands name: wanted quotas are enabled in any case.   *)
Named == Planned \cup {b \in seen : Want[b] # 0}

(* The commands of which those for `done' take effect.                     *)
Apply(done) ==
    /\ quota' = [b \in Bucket |-> IF b \in done \cap exists THEN Want[b] ELSE quota[b]]
    /\ UNCHANGED <<exists, ruled, quotaRun>>
=============================================================================
