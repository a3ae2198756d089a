---------------------- MODULE SeaweedReconciler_proofs ----------------------
(***************************************************************************)
(* Theorems about SeaweedReconciler for any volumes, servers, buckets and  *)
(* quotas, and for any number of mishaps and of changes to buckets.        *)
(***************************************************************************)
EXTENDS SeaweedReconciler, FiniteSetTheorems, TLAPS

LEMMA Counts ==
    /\ Cardinality(Server) \in Nat
    /\ SeaTypeOK => Cardinality(up) \in Nat
    /\ SeaTypeOK /\ SeaTypeOK' => Cardinality(up') \in Nat
<1>1. \A S \in SUBSET Server : Cardinality(S) \in Nat
  BY SeaAssumption, FS_Subset, FS_CardinalityType
<1> QED
  BY <1>1 DEF SeaTypeOK

LEMMA MishapType ==
    ASSUME SeaTypeOK, Mishap
    PROVE  mishap' \in Nat /\ change' \in Nat
BY DEF Mishap, SeaTypeOK

-----------------------------------------------------------------------------
(* Type correctness.                                                       *)

(* A run that has sent nothing has no sent volumes, and rules to delete    *)
(* are known only while they are deleted.                                  *)
Fresh ==
    /\ pc \in {"idle", "disable", "plan"} => sent = {}
    /\ pc # "unrule" => orphans = {}

LEMMA NoneType == NoQuota \in [Bucket -> 0..MaxQuota] /\ NoVolume \in [Vol -> Nat]
BY QuotaAssumption DEF NoQuota, NoVolume

LEMMA InitType == SeaInit => SeaTypeOK /\ Fresh
<1> SUFFICES ASSUME SeaInit PROVE SeaTypeOK /\ Fresh
  OBVIOUS
<1>1. PICK bound \in Budgets :
        /\ mishap = bound.mishap
        /\ change = bound.change
        /\ garbage \in [Vol -> 0..bound.garbage]
        /\ QuotaInit(bound.buckets)
  BY DEF SeaInit
<1>2. bound.mishap \in Nat /\ bound.change \in Nat /\ bound.garbage \in 0..MaxGarbage
      /\ bound.buckets \in SUBSET Bucket
  BY SeaAssumption
<1>3. garbage \in [Vol -> 0..MaxGarbage]
  BY <1>1, <1>2, SeaAssumption
<1>4. QuotaTypeOK /\ orphans = {}
  <2>1. quota \in [Bucket -> 0..MaxQuota] /\ \A b \in Bucket \ exists : quota[b] = 0
    BY <1>1, QuotaAssumption DEF QuotaInit
  <2>2. exists \subseteq Bucket /\ ruled = {} /\ seen = {} /\ listed = NoQuota
        /\ orphans = {} /\ misread = FALSE /\ touched = {}
    BY <1>1, <1>2 DEF QuotaInit
  <2> QED
    BY <2>1, <2>2, NoneType DEF QuotaTypeOK
<1> QED
  <2>1. tight \subseteq Vol
    BY SeaAssumption DEF SeaInit
  <2> QED
    BY <1>1, <1>2, <1>3, <1>4, <2>1, NoneType DEF SeaInit, SeaTypeOK, Steps, Fresh

LEMMA BucketsType ==
    ASSUME QuotaTypeOK, NEW b \in Bucket, Appear(b) \/ SetByHand(b) \/ Enforce(b)
    PROVE  QuotaTypeOK'
<1> USE QuotaAssumption DEF Touch
<1>1. CASE Appear(b)
  BY <1>1 DEF Appear, QuotaTypeOK
<1>2. CASE SetByHand(b)
  BY <1>2 DEF SetByHand, QuotaTypeOK
<1>3. CASE Enforce(b)
  BY <1>3 DEF Enforce, QuotaTypeOK
<1> QED
  BY <1>1, <1>2, <1>3

LEMMA ListType ==
    ASSUME QuotaTypeOK, orphans = {}, NEW S \in SUBSET Bucket, ListBuckets(S)
    PROVE  QuotaTypeOK'
BY QuotaAssumption DEF ListBuckets, QuotaTypeOK, bucketVars

LEMMA ReadType ==
    ASSUME QuotaTypeOK, NEW R \in SUBSET Bucket, ReadRules(R)
    PROVE  QuotaTypeOK'
BY DEF ReadRules, QuotaTypeOK, bucketVars

LEMMA DeleteType ==
    ASSUME QuotaTypeOK, NEW b \in orphans, NEW fails \in BOOLEAN, DeleteRule(b, fails)
    PROVE  QuotaTypeOK'
BY DEF DeleteRule, QuotaTypeOK

LEMMA ApplyType ==
    ASSUME QuotaTypeOK, NEW done \in SUBSET Planned, Apply(done)
    PROVE  QuotaTypeOK'
BY QuotaAssumption DEF Apply, QuotaTypeOK, quotaRun, Planned

LEMMA QuotasStayType ==
    ASSUME QuotaTypeOK, UNCHANGED quotaVars
    PROVE  QuotaTypeOK'
BY DEF QuotaTypeOK, quotaVars, quotaRun, bucketVars

LEMMA QuotaEndType ==
    ASSUME QuotaTypeOK, QuotaEnd, UNCHANGED bucketVars
    PROVE  QuotaTypeOK'
<1>1. UNCHANGED <<exists, quota, ruled>>
  BY DEF bucketVars
<1>2. orphans' = {} /\ seen' = {} /\ listed' \in [Bucket -> 0..MaxQuota]
  BY NoneType DEF QuotaEnd
<1> QED
  BY <1>1, <1>2 DEF QuotaTypeOK, QuotaEnd

(* A process that is gone leaves its variables as they were at first.      *)
LEMMA JobEndType ==
    ASSUME SeaTypeOK, NEW how \in {"ok", "failed", "killed"}, JobEnd(how),
           walkOn' \in BOOLEAN, mishap' \in Nat, change' \in Nat,
           UNCHANGED <<walk, garbage, up, tight>>
    PROVE  SeaTypeOK' /\ Fresh'
<1>1. QuotaTypeOK'
  BY QuotaEndType DEF JobEnd, SeaTypeOK
<1>2. before' \in [Vol -> Nat]
  BY NoneType DEF JobEnd, Forget
<1> QED
  BY <1>1, <1>2 DEF JobEnd, Forget, SeaTypeOK, Steps, Fresh, QuotaEnd

LEMMA RequestType ==
    ASSUME SeaTypeOK, NEW ids \in SUBSET Vol, NEW error \in BOOLEAN, Request(ids, error)
    PROVE  /\ garbage' \in [Vol -> 0..MaxGarbage]
           /\ compacted' \in SUBSET Vol
           /\ mishap' \in Nat /\ change' \in Nat
           /\ failed' \in BOOLEAN
<1> USE SeaAssumption
<1>1. ASSUME NEW vols \in SUBSET Vol, Compact(vols)
      PROVE  garbage' \in [Vol -> 0..MaxGarbage] /\ compacted' \in SUBSET Vol
  BY <1>1 DEF Compact, SeaTypeOK
<1> DEFINE served == IF walk = "off" THEN (ids \cap Eligible) \ Stuck ELSE {}
<1>2. served \subseteq Vol
  BY DEF Eligible
<1>3. \/ Compact(served \ tight) /\ UNCHANGED budgets
      \/ Mishap /\ \E done \in SUBSET (served \ tight) : Compact(done)
  BY DEF Request
<1>4. failed' \in BOOLEAN
  BY DEF Request, SeaTypeOK
<1>5. CASE Compact(served \ tight) /\ UNCHANGED budgets
  BY <1>1, <1>2, <1>4, <1>5 DEF budgets, SeaTypeOK
<1>6. CASE Mishap /\ \E done \in SUBSET (served \ tight) : Compact(done)
  BY <1>1, <1>2, <1>4, <1>6, MishapType
<1> QED
  BY <1>3, <1>5, <1>6

LEMMA PlanType ==
    ASSUME SeaTypeOK, Fresh, Plan
    PROVE  SeaTypeOK' /\ Fresh'
<1>1. before' \in [Vol -> Nat]
  <2>1. \A v \in Vol : Listed(v) \in Nat
    BY Counts, SeaAssumption DEF Listed, SeaTypeOK
  <2> QED
    BY <2>1 DEF Plan
<1>2. chosen' \subseteq Vol /\ head' \subseteq chosen' /\ left' \subseteq chosen'
  BY DEF Plan, Heads, Rest, Eligible
<1>3. sent' = {} /\ pc' \in {"prime", "enable"} /\ orphans' = {}
  BY DEF Plan, Fresh, Run, quotaVars, quotaRun
<1>4. QuotaTypeOK'
  BY QuotasStayType DEF Plan, Run, SeaTypeOK
<1>5. blind' \in BOOLEAN /\ failed' \in BOOLEAN /\ compacted' = {}
  BY DEF Plan, Look, SeaTypeOK
<1> QED
  BY <1>1, <1>2, <1>3, <1>4, <1>5
     DEF Plan, Run, SeaTypeOK, Fresh, Steps, InTry, storeVars, budgets

(* The steps of the vacuum, from its start to `finally'.                   *)
LEMMA VacuumType ==
    ASSUME SeaTypeOK, Fresh,
           \/ JobStart \/ Disable \/ ReadFails \/ Prime \/ Probe \/ PrimeTimeout
           \/ Send \/ SendEnds \/ Verify \/ Resend \/ Judge
    PROVE  SeaTypeOK' /\ Fresh'
<1> USE MishapType, SeaAssumption
    DEF Run, SeaTypeOK, Fresh, Steps, InTry, storeVars, budgets, runVars
<1>0. ASSUME UNCHANGED quotaVars
      PROVE  QuotaTypeOK' /\ orphans' = orphans
  BY <1>0, QuotasStayType DEF quotaVars, quotaRun
<1>1. CASE JobStart
  BY <1>0, <1>1 DEF JobStart
<1>2. CASE Disable
  BY <1>0, <1>2 DEF Disable
<1>3. CASE ReadFails
  BY <1>0, <1>3 DEF ReadFails
<1>4. CASE Prime
  <2>1. PICK error \in BOOLEAN : Request(head, error)
    BY <1>4 DEF Prime
  <2> QED
    BY <1>0, <1>4, <2>1, RequestType DEF Prime
<1>5. CASE Probe
  BY <1>0, <1>5 DEF Probe, Look
<1>6. CASE PrimeTimeout
  BY <1>0, <1>6 DEF PrimeTimeout, Look
<1>7. CASE Send
  <2>1. PICK v \in left, error \in BOOLEAN :
          /\ Request({v}, error)
          /\ left' = left \ {v}
          /\ sent' = IF error THEN sent ELSE sent \cup {v}
          /\ pc' = IF error THEN "verify" ELSE "send"
    BY <1>7 DEF Send
  <2> QED
    BY <1>0, <1>7, <2>1, RequestType DEF Send
<1>8. CASE SendEnds
  BY <1>0, <1>8 DEF SendEnds
<1>9. CASE Verify
  BY <1>0, <1>9 DEF Verify, Look, Missing
<1>10. CASE Resend
  <2>1. CASE \E error \in BOOLEAN : Request(left, error)
    <3>1. PICK error \in BOOLEAN : Request(left, error)
      BY <2>1
    <3> QED
      BY <1>0, <1>10, <3>1, RequestType DEF Resend
  <2>2. CASE UNCHANGED <<garbage, compacted, budgets, failed>>
    BY <1>0, <1>10, <2>2 DEF Resend
  <2> QED
    BY <1>10, <2>1, <2>2 DEF Resend
<1>11. CASE Judge
  BY <1>0, <1>11 DEF Judge, Look
<1> QED
  BY <1>1, <1>2, <1>3, <1>4, <1>5, <1>6, <1>7, <1>8, <1>9, <1>10, <1>11

(* The steps from `finally' to the end, and the signals.                   *)
LEMMA TailType ==
    ASSUME SeaTypeOK, Fresh,
           \/ Enable \/ EnableFails \/ Housekeeping \/ Buckets \/ Rules \/ Unrule
           \/ Quotas \/ Drift \/ SigTerm \/ SigKill
    PROVE  SeaTypeOK' /\ Fresh'
<1> USE MishapType DEF budgets
<1>0. mishap \in Nat /\ change \in Nat /\ walkOn \in BOOLEAN
  BY DEF SeaTypeOK
<1>e. ASSUME NEW how \in {"ok", "failed", "killed"}, JobEnd(how), walkOn' \in BOOLEAN,
             UNCHANGED <<walk, garbage, up, tight>>, UNCHANGED budgets \/ Mishap
      PROVE  SeaTypeOK' /\ Fresh'
  BY <1>0, <1>e, JobEndType
<1>f. ASSUME Forget, UNCHANGED quotaVars
      PROVE  /\ QuotaTypeOK' /\ orphans' = orphans
             /\ before' \in [Vol -> Nat] /\ sent' = {}
  BY <1>f, NoneType, QuotasStayType DEF Forget, SeaTypeOK, quotaVars, quotaRun
<1>1. CASE Enable
  <2>1. CASE dying
    BY <1>1, <1>e, <2>1 DEF Enable, AfterFinally
  <2>2. CASE ~dying
    BY <1>1, <1>f, <2>2 DEF Enable, AfterFinally, Run, Forget, SeaTypeOK, Fresh, Steps, After
  <2> QED
    BY <2>1, <2>2
<1>2. CASE EnableFails
  <2>1. CASE dying
    BY <1>0, <1>2, <1>e, <2>1 DEF EnableFails
  <2>2. CASE ~dying
    BY <1>2, <1>f, <2>2 DEF EnableFails, Run, Forget, SeaTypeOK, Fresh, Steps, After
  <2> QED
    BY <2>1, <2>2
<1>q. ASSUME OnlyQuotas, QuotaTypeOK', pc' \in Steps, failed' \in BOOLEAN,
             UNCHANGED budgets \/ Mishap,
             pc' \notin {"idle", "disable", "plan"}, pc' # "unrule" => orphans' = {}
      PROVE  SeaTypeOK' /\ Fresh'
  BY <1>0, <1>q DEF OnlyQuotas, SeaTypeOK, Fresh, storeVars, runVars
<1>3. CASE Housekeeping
  <2>1. QuotaTypeOK' /\ orphans' = orphans
    BY <1>3, QuotasStayType DEF Housekeeping, Run, SeaTypeOK, quotaVars, quotaRun
  <2> QED
    BY <1>3, <2>1 DEF Housekeeping, Run, SeaTypeOK, Fresh, Steps, After, storeVars, runVars
<1>4. CASE Buckets
  <2>1. QuotaTypeOK /\ orphans = {} /\ exists \in SUBSET Bucket
    BY <1>4 DEF Buckets, Fresh, SeaTypeOK, QuotaTypeOK
  <2>2. ASSUME NEW S \in SUBSET Bucket, ListBuckets(S)
        PROVE  QuotaTypeOK' /\ orphans' = {}
    BY <2>1, <2>2, ListType DEF ListBuckets
  <2>3. ASSUME UNCHANGED quotaVars
        PROVE  QuotaTypeOK' /\ orphans' = {}
    BY <2>1, <2>3, QuotasStayType DEF quotaVars, quotaRun
  <2>4. QuotaTypeOK' /\ orphans' = {}
    BY <1>4, <2>1, <2>2, <2>3 DEF Buckets
  <2>5. OnlyQuotas /\ pc' \in {"rules", "drift"} /\ failed' \in BOOLEAN /\ (UNCHANGED budgets \/ Mishap)
    BY <1>4 DEF Buckets, SeaTypeOK
  <2> QED
    BY <1>q, <2>4, <2>5 DEF Steps, After
<1>5. CASE Rules
  <2>1. QuotaTypeOK'
    BY <1>5, ReadType DEF Rules, SeaTypeOK, QuotaTypeOK
  <2>2. OnlyQuotas /\ pc' = "unrule" /\ failed' \in BOOLEAN /\ (UNCHANGED budgets \/ Mishap)
    BY <1>5 DEF Rules, SeaTypeOK
  <2> QED
    BY <1>q, <2>1, <2>2 DEF Steps, After
<1>6. CASE Unrule
  <2>1. QuotaTypeOK'
    BY <1>6, DeleteType DEF Unrule, SeaTypeOK
  <2>2. OnlyQuotas /\ pc' = "unrule" /\ failed' \in BOOLEAN /\ (UNCHANGED budgets \/ Mishap)
    BY <1>6 DEF Unrule, SeaTypeOK
  <2> QED
    BY <1>q, <2>1, <2>2 DEF Steps, After
<1>7. CASE Quotas
  <2>1. PICK done \in SUBSET Planned : Apply(done)
    BY <1>7 DEF Quotas
  <2>2. QuotaTypeOK' /\ orphans' = {}
    BY <1>7, <2>1, ApplyType DEF Quotas, Apply, quotaRun, SeaTypeOK
  <2>3. OnlyQuotas /\ pc' = "drift" /\ failed' \in BOOLEAN /\ (UNCHANGED budgets \/ Mishap)
    BY <1>7 DEF Quotas, SeaTypeOK
  <2> QED
    BY <1>q, <2>2, <2>3 DEF Steps, After
<1>8. CASE Drift
  BY <1>0, <1>8, <1>e DEF Drift, storeVars
<1>9. CASE SigTerm
  <2>1. CASE pc \in InTry
    <3>1. pc # "unrule" /\ pc # "enable" /\ pc \notin {"disable"} \cup After
      BY <2>1 DEF InTry, After
    <3>2. QuotaTypeOK' /\ orphans' = {} /\ pc' = "enable" /\ dying' = TRUE
          /\ UNCHANGED <<walkOn, runVars, failed, exit, compacted>>
      BY <1>9, <3>1, QuotasStayType DEF SigTerm, Fresh, SeaTypeOK, quotaVars, quotaRun
    <3> QED
      BY <1>9, <3>2 DEF SigTerm, SeaTypeOK, Fresh, Steps, runVars
  <2>2. CASE pc \notin InTry
    BY <1>0, <1>9, <1>e, <2>2 DEF SigTerm
  <2> QED
    BY <2>1, <2>2
<1>10. CASE SigKill
  BY <1>0, <1>10, <1>e DEF SigKill, storeVars
<1> QED
  BY <1>1, <1>2, <1>3, <1>4, <1>5, <1>6, <1>7, <1>8, <1>9, <1>10

(* The store around the job.                                               *)
LEMMA StoreType ==
    ASSUME SeaTypeOK, Fresh, WalkStep \/ Surroundings
    PROVE  SeaTypeOK' /\ Fresh'
<1> USE MishapType, SeaAssumption DEF budgets, RunIsElsewhere, runVars
<1>0. ASSUME StoreOnly, walkOn' \in BOOLEAN, walk' \in {"off", "between"} \cup Vol,
             garbage' \in [Vol -> 0..MaxGarbage], up' \subseteq Server, tight' \subseteq Vol,
             compacted' \subseteq Vol, UNCHANGED budgets \/ Mishap
      PROVE  SeaTypeOK' /\ Fresh'
  <2>1. QuotaTypeOK' /\ orphans' = orphans
    BY <1>0, QuotasStayType DEF StoreOnly, SeaTypeOK, quotaVars, quotaRun
  <2> QED
    BY <1>0, <2>1 DEF StoreOnly, SeaTypeOK, Fresh
<1>1. CASE WalkBegins
  BY <1>0, <1>1 DEF WalkBegins, SeaTypeOK
<1>2. CASE WalkPicks
  BY <1>0, <1>2 DEF WalkPicks, SeaTypeOK
<1>3. CASE WalkCompacts
  <2>1. garbage' \in [Vol -> 0..MaxGarbage] /\ compacted' \subseteq Vol
    <3>1. PICK vols \in SUBSET Vol : Compact(vols)
      BY <1>3 DEF WalkCompacts, Eligible
    <3> QED
      BY <3>1 DEF Compact, SeaTypeOK
  <2> QED
    BY <1>0, <1>3, <2>1 DEF WalkCompacts, SeaTypeOK
<1>4. CASE WalkEnds
  BY <1>0, <1>4 DEF WalkEnds, SeaTypeOK
<1>5. ASSUME NEW v \in Vol, Deletes(v) PROVE SeaTypeOK' /\ Fresh'
  BY <1>0, <1>5 DEF Deletes, SeaTypeOK
<1>6. ASSUME NEW s \in Server, Outage(s) \/ Recover(s) PROVE SeaTypeOK' /\ Fresh'
  BY <1>0, <1>6 DEF Outage, Recover, SeaTypeOK
<1>7. CASE DiskFills \/ DiskGrows
  BY <1>0, <1>7 DEF DiskFills, DiskGrows, SeaTypeOK
<1>8. CASE DisabledByHand
  BY <1>0, <1>8 DEF DisabledByHand, SeaTypeOK
<1>9. CASE BucketChanges
  <2>1. PICK b \in Bucket : Appear(b) \/ SetByHand(b) \/ Enforce(b)
    BY <1>9 DEF BucketChanges
  <2>2. QuotaTypeOK'
    BY <2>1, BucketsType DEF SeaTypeOK
  <2>3. orphans' = orphans
    BY <2>1 DEF Appear, SetByHand, Enforce, Touch
  <2> QED
    BY <1>9, <2>2, <2>3 DEF BucketChanges, SeaTypeOK, Fresh, storeVars
<1> QED
  BY <1>1, <1>2, <1>3, <1>4, <1>5, <1>6, <1>7, <1>8, <1>9 DEF WalkStep, Surroundings

LEMMA TypeStep ==
    ASSUME SeaTypeOK, Fresh, [SeaNext]_seaVars
    PROVE  SeaTypeOK' /\ Fresh'
<1>1. CASE UNCHANGED seaVars
  <2>1. UNCHANGED quotaVars /\ orphans' = orphans
    BY <1>1 DEF seaVars, quotaVars, quotaRun
  <2>2. QuotaTypeOK'
    BY <2>1, QuotasStayType DEF SeaTypeOK
  <2> QED
    BY <1>1, <2>1, <2>2 DEF SeaTypeOK, Fresh, seaVars, storeVars, budgets, runVars
<1>2. CASE SeaNext
  BY <1>2, PlanType, VacuumType, TailType, StoreType DEF SeaNext, JobStep
<1> QED
  BY <1>1, <1>2

(* Each variable of the job keeps to its values.                           *)
THEOREM SeaTypeCorrect == SeaSpec => []SeaTypeOK
<1>1. SeaInit => SeaTypeOK /\ Fresh
  BY InitType
<1>2. SeaTypeOK /\ Fresh /\ [SeaNext]_seaVars => SeaTypeOK' /\ Fresh'
  BY TypeStep
<1> QED
  BY <1>1, <1>2, PTL DEF SeaSpec

-----------------------------------------------------------------------------
(***************************************************************************)
(* A green run has reclaimed something.  While no list lacked a server,    *)
(* what a volume had in the list of the plan is there still unless it was  *)
(* compacted; so a volume seen halved was compacted, and only the sight of *)
(* one lets the job go on from the head to the rest.                       *)
(***************************************************************************)
Vacuuming == {"prime", "probe", "send", "verify", "resend", "judge"}

Reclaimed == compacted \cap chosen # {}

StillThere ==
    pc \in Vacuuming /\ ~blind =>
      \A v \in Vol \ compacted : before[v] <= garbage[v] * Cardinality(Server)

SeenHalved ==
    /\ pc \in {"send", "verify", "resend", "judge"} /\ ~blind => Reclaimed
    /\ pc \in {"enable"} \cup After /\ chosen # {} /\ ~(failed \/ dying \/ blind) => Reclaimed
    /\ pc \in After => ~dying

ReclaimInv == SeaTypeOK /\ Fresh /\ StillThere /\ SeenHalved

LEMMA MoreGarbage ==
    ASSUME NEW c \in Nat, NEW g \in Nat
    PROVE  g * c \in Nat /\ g * c <= (g + 1) * c
<1>1. g * c \in Nat /\ (g + 1) * c = g * c + c
  OBVIOUS
<1> QED
  BY <1>1

LEMMA HalvedWasCompacted ==
    ASSUME SeaTypeOK, StillThere, pc \in Vacuuming, ~blind, up = Server,
           NEW v \in Vol, Halved(v)
    PROVE  v \in compacted
<1> SUFFICES ASSUME v \notin compacted PROVE FALSE
  OBVIOUS
<1> DEFINE listed_v == garbage[v] * Cardinality(Server)
<1>1. before[v] \in Nat /\ listed_v \in Nat
  BY Counts, MoreGarbage, SeaAssumption DEF SeaTypeOK
<1>2. before[v] <= listed_v /\ before[v] > 0 /\ 2 * listed_v <= before[v]
  BY DEF StillThere, Halved, Listed
<1> HIDE DEF listed_v
<1> QED
  BY <1>1, <1>2

(* Compacting a volume takes its garbage away and makes it `compacted'.    *)
LEMMA CompactKeeps ==
    ASSUME SeaTypeOK, StillThere, NEW vols \in SUBSET Vol, Compact(vols),
           pc' \in Vacuuming => pc \in Vacuuming,
           UNCHANGED <<before, blind>>
    PROVE  StillThere' /\ compacted \subseteq compacted'
BY DEF Compact, StillThere, SeaTypeOK

(* Nothing compacted, or by a request of the job.                          *)
LEMMA RequestKeeps ==
    ASSUME SeaTypeOK, StillThere, NEW ids \in SUBSET Vol, NEW error \in BOOLEAN,
           Request(ids, error), pc \in Vacuuming, UNCHANGED <<before, blind>>
    PROVE  StillThere' /\ compacted \subseteq compacted'
<1> DEFINE served == IF walk = "off" THEN (ids \cap Eligible) \ Stuck ELSE {}
<1>1. served \subseteq Vol
  BY DEF Eligible
<1>2. PICK vols \in SUBSET Vol : Compact(vols)
  BY <1>1 DEF Request
<1> QED
  BY <1>2, CompactKeeps

LEMMA ReclaimInit == SeaInit => ReclaimInv
<1> SUFFICES ASSUME SeaInit PROVE ReclaimInv
  OBVIOUS
<1>1. pc = "idle"
  BY DEF SeaInit
<1> QED
  BY <1>1, InitType DEF ReclaimInv, StillThere, SeenHalved, Vacuuming, After

LEMMA PlanReclaims ==
    ASSUME ReclaimInv, Plan
    PROVE  StillThere' /\ SeenHalved'
<1> USE DEF ReclaimInv, Plan
<1>1. pc' \in {"prime", "enable"} /\ (pc' = "enable" => chosen' = {})
  <2>1. CASE Eligible \subseteq tight
    BY <2>1
  <2>2. CASE ~(Eligible \subseteq tight)
    BY <2>2
  <2> QED
    BY <2>1, <2>2
<1>2. ASSUME ~blind', NEW v \in Vol
      PROVE  before'[v] <= garbage'[v] * Cardinality(Server)
  <2>1. up = Server /\ before'[v] = garbage[v] * Cardinality(Server) /\ garbage' = garbage
    BY <1>2 DEF Look, Listed, storeVars, SeaTypeOK
  <2>2. garbage[v] * Cardinality(Server) \in Nat
    BY Counts, MoreGarbage, SeaAssumption DEF SeaTypeOK
  <2> QED
    BY <2>1, <2>2
<1> QED
  BY <1>1, <1>2 DEF StillThere, SeenHalved, After

(* Steps of the job that read no list and compact nothing.                 *)
LEMMA IdlyReclaims ==
    ASSUME ReclaimInv, UNCHANGED <<before, garbage, compacted, chosen>>,
           \/ /\ UNCHANGED <<pc, blind, dying>>
              /\ failed => failed'
           \/ /\ pc' \in {"disable", "plan"}
           \/ /\ pc = "send" /\ pc' = "verify"
              /\ UNCHANGED blind
           \/ /\ pc' = "enable" /\ (failed' \/ dying')
           \/ /\ pc \in After /\ pc' \in After
              /\ UNCHANGED <<blind, dying>> /\ (failed => failed')
    PROVE  StillThere' /\ SeenHalved'
BY DEF ReclaimInv, StillThere, SeenHalved, Vacuuming, After, Reclaimed

LEMMA VacuumReclaims ==
    ASSUME ReclaimInv,
           \/ JobStart \/ Disable \/ ReadFails \/ Prime \/ Probe \/ PrimeTimeout
           \/ Send \/ SendEnds \/ Verify \/ Resend \/ Judge
    PROVE  StillThere' /\ SeenHalved'
<1> USE DEF ReclaimInv, Run, storeVars, budgets, runVars
<1>0. head \in SUBSET Vol /\ left \in SUBSET Vol /\ head \subseteq chosen
  BY DEF SeaTypeOK
<1>1. CASE JobStart
  BY <1>1, IdlyReclaims DEF JobStart
<1>2. CASE Disable
  BY <1>2, IdlyReclaims DEF Disable
<1>3. CASE ReadFails
  BY <1>3, IdlyReclaims DEF ReadFails
<1>4. CASE Prime
  <2>1. PICK error \in BOOLEAN : Request(head, error)
    BY <1>4 DEF Prime
  <2>2. StillThere'
    BY <1>0, <1>4, <2>1, RequestKeeps DEF Prime, Vacuuming
  <2> QED
    BY <1>4, <2>2 DEF Prime, SeenHalved, After
<1>5. CASE Probe
  <2>1. pc = "probe" /\ UNCHANGED <<before, garbage, up, compacted, chosen>> /\ Look
        /\ pc' \in {"prime", "send"} /\ (pc' = "send" <=> Primed)
    BY <1>5 DEF Probe
  <2>2. StillThere'
    BY <2>1 DEF Look, StillThere, Vacuuming
  <2>3. ASSUME Primed, ~blind' PROVE Reclaimed
    <3>1. PICK v \in head : Halved(v)
      BY <2>3 DEF Primed
    <3>2. v \in compacted
      BY <1>0, <2>1, <2>3, <3>1, HalvedWasCompacted DEF Look, Vacuuming
    <3> QED
      BY <1>0, <3>2 DEF Reclaimed
  <2> QED
    BY <2>1, <2>2, <2>3 DEF SeenHalved, Reclaimed, After
<1>6. CASE PrimeTimeout
  BY <1>6, IdlyReclaims DEF PrimeTimeout
<1>7. CASE Send
  <2>1. PICK v \in left, error \in BOOLEAN :
          /\ Request({v}, error)
          /\ pc' = IF error THEN "verify" ELSE "send"
    BY <1>7 DEF Send
  <2>2. StillThere' /\ compacted \subseteq compacted'
    BY <1>0, <1>7, <2>1, RequestKeeps DEF Send, Vacuuming
  <2> QED
    BY <1>7, <2>1, <2>2 DEF Send, SeenHalved, Reclaimed, After
<1>8. CASE SendEnds
  BY <1>8, IdlyReclaims DEF SendEnds
<1>9. CASE Verify
  <2>1. UNCHANGED <<before, garbage, compacted, chosen>> /\ Look /\ pc = "verify"
        /\ pc' \in {"enable", "resend"}
    BY <1>9 DEF Verify
  <2> QED
    BY <2>1 DEF Look, StillThere, SeenHalved, Vacuuming, Reclaimed, After
<1>10. CASE Resend
  <2>1. StillThere' /\ compacted \subseteq compacted'
    <3>1. CASE \E error \in BOOLEAN : Request(left, error)
      BY <1>0, <1>10, <3>1, RequestKeeps DEF Resend, Vacuuming
    <3>2. CASE UNCHANGED <<garbage, compacted, budgets, failed>>
      BY <1>10, <3>2 DEF Resend, StillThere, Vacuuming
    <3> QED
      BY <1>10, <3>1, <3>2 DEF Resend
  <2> QED
    BY <1>10, <2>1 DEF Resend, SeenHalved, Reclaimed, After
<1>11. CASE Judge
  <2>1. UNCHANGED <<before, garbage, compacted, chosen>> /\ Look /\ pc = "judge"
        /\ pc' = "enable"
    BY <1>11 DEF Judge
  <2> QED
    BY <2>1 DEF Look, StillThere, SeenHalved, Vacuuming, Reclaimed, After
<1> QED
  BY <1>1, <1>2, <1>3, <1>4, <1>5, <1>6, <1>7, <1>8, <1>9, <1>10, <1>11

LEMMA TailReclaims ==
    ASSUME ReclaimInv,
           \/ Enable \/ EnableFails \/ Housekeeping \/ Buckets \/ Rules \/ Unrule
           \/ Quotas \/ Drift \/ SigTerm \/ SigKill
    PROVE  StillThere' /\ SeenHalved'
<1> USE DEF ReclaimInv, Run
<1>e. ASSUME pc' = "idle" PROVE StillThere' /\ SeenHalved'
  BY <1>e DEF StillThere, SeenHalved, Vacuuming, After
<1>h. ASSUME pc = "enable", pc' = "housekeeping", ~dying,
             UNCHANGED <<chosen, blind, compacted, dying>>, failed => failed'
      PROVE  StillThere' /\ SeenHalved'
  BY <1>h DEF StillThere, SeenHalved, Vacuuming, Reclaimed, After
<1>1. CASE Enable
  BY <1>1, <1>e, <1>h DEF Enable, AfterFinally, JobEnd
<1>2. CASE EnableFails
  BY <1>2, <1>e, <1>h DEF EnableFails, JobEnd
<1>3. CASE Housekeeping
  BY <1>3, IdlyReclaims DEF Housekeeping, storeVars, runVars, After
<1>4. CASE Buckets
  BY <1>4, IdlyReclaims DEF Buckets, OnlyQuotas, storeVars, runVars, After
<1>5. CASE Rules
  <2>1. pc = "rules" /\ pc' = "unrule" /\ (failed' = failed \/ failed' = TRUE) /\ OnlyQuotas
    BY <1>5 DEF Rules
  <2> QED
    BY <2>1, IdlyReclaims DEF OnlyQuotas, storeVars, runVars, After
<1>6. CASE Unrule
  <2>1. pc = "unrule" /\ pc' = "unrule" /\ (failed' = failed \/ failed' = TRUE) /\ OnlyQuotas
    BY <1>6 DEF Unrule
  <2> QED
    BY <2>1, IdlyReclaims DEF OnlyQuotas, storeVars, runVars, After
<1>7. CASE Quotas
  BY <1>7, IdlyReclaims DEF Quotas, OnlyQuotas, storeVars, runVars, After
<1>8. CASE Drift
  BY <1>8, <1>e DEF Drift, JobEnd
<1>9. CASE SigTerm
  <2>1. CASE pc \in InTry
    <3>1. pc \notin {"disable", "enable"} \cup After
      BY <2>1 DEF InTry, After
    <3> QED
      BY <1>9, <3>1 DEF SigTerm, StillThere, SeenHalved, Vacuuming, After
  <2>2. CASE pc \notin InTry
    BY <1>9, <1>e, <2>2 DEF SigTerm, JobEnd
  <2> QED
    BY <2>1, <2>2
<1>10. CASE SigKill
  BY <1>10, <1>e DEF SigKill, JobEnd
<1> QED
  BY <1>1, <1>2, <1>3, <1>4, <1>5, <1>6, <1>7, <1>8, <1>9, <1>10

LEMMA StoreReclaims ==
    ASSUME ReclaimInv, WalkStep \/ Surroundings
    PROVE  StillThere' /\ SeenHalved'
<1> USE DEF ReclaimInv, StoreOnly, RunIsElsewhere, runVars
<1>1. CASE WalkBegins \/ WalkPicks \/ WalkEnds
  BY <1>1, IdlyReclaims DEF WalkBegins, WalkPicks, WalkEnds
<1>2. CASE WalkCompacts
  <2>1. StillThere' /\ compacted \subseteq compacted'
    BY <1>2, CompactKeeps DEF WalkCompacts, Eligible
  <2> QED
    BY <1>2, <2>1 DEF WalkCompacts, SeenHalved, Reclaimed
<1>3. ASSUME NEW v \in Vol, Deletes(v) PROVE StillThere' /\ SeenHalved'
  <2>1. UNCHANGED <<pc, blind, dying, failed, before, compacted, chosen>>
    BY <1>3 DEF Deletes
  <2>2. ASSUME pc \in Vacuuming, ~blind, NEW w \in Vol \ compacted
        PROVE  before[w] <= garbage'[w] * Cardinality(Server)
    <3>1. before[w] <= garbage[w] * Cardinality(Server)
      BY <2>2 DEF StillThere
    <3>2. garbage[w] \in Nat /\ before[w] \in Nat /\ (garbage'[w] = garbage[w] \/ garbage'[w] = garbage[w] + 1)
      BY <1>3, SeaAssumption DEF Deletes, SeaTypeOK
    <3>3. garbage[w] * Cardinality(Server) \in Nat /\ (garbage[w] + 1) * Cardinality(Server) \in Nat
          /\ garbage[w] * Cardinality(Server) <= (garbage[w] + 1) * Cardinality(Server)
      BY <3>2, Counts, MoreGarbage
    <3>4. CASE garbage'[w] = garbage[w]
      BY <3>1, <3>4
    <3>5. CASE garbage'[w] = garbage[w] + 1
      <4> DEFINE less == garbage[w] * Cardinality(Server)
                 more == (garbage[w] + 1) * Cardinality(Server)
      <4>1. less \in Nat /\ more \in Nat /\ before[w] <= less /\ less <= more
        BY <3>1, <3>3
      <4>2. garbage'[w] * Cardinality(Server) = more
        BY <3>5
      <4> HIDE DEF less, more
      <4>3. before[w] <= more
        BY <3>2, <4>1
      <4> QED
        BY <4>2, <4>3
    <3> QED
      BY <3>2, <3>4, <3>5
  <2> QED
    BY <2>1, <2>2 DEF StillThere, SeenHalved, Reclaimed
<1>4. ASSUME NEW s \in Server, Outage(s) \/ Recover(s) PROVE StillThere' /\ SeenHalved'
  BY <1>4, IdlyReclaims DEF Outage, Recover
<1>5. CASE DiskFills \/ DiskGrows \/ DisabledByHand
  BY <1>5, IdlyReclaims DEF DiskFills, DiskGrows, DisabledByHand
<1>6. CASE BucketChanges
  BY <1>6, IdlyReclaims DEF BucketChanges, storeVars
<1> QED
  BY <1>1, <1>2, <1>3, <1>4, <1>5, <1>6 DEF WalkStep, Surroundings

LEMMA ReclaimStep ==
    ASSUME ReclaimInv, [SeaNext]_seaVars
    PROVE  ReclaimInv'
<1>1. SeaTypeOK' /\ Fresh'
  BY TypeStep DEF ReclaimInv
<1>2. CASE UNCHANGED seaVars
  BY <1>1, <1>2, IdlyReclaims DEF ReclaimInv, seaVars, storeVars, runVars
<1>3. CASE SeaNext
  BY <1>1, <1>3, PlanReclaims, VacuumReclaims, TailReclaims, StoreReclaims
     DEF SeaNext, JobStep, ReclaimInv
<1> QED
  BY <1>2, <1>3

(* Where a run can end, and how.                                           *)
LEMMA GreenEnd ==
    ASSUME SeaTypeOK, [SeaNext]_seaVars, JobEnds, exit' = "ok"
    PROVE  pc = "drift" /\ ~failed
<1> USE DEF JobEnds, Run, JobEnd
<1>1. ~UNCHANGED seaVars
  BY DEF seaVars
<1>2. CASE JobStep
  <2>1. ~(Disable \/ ReadFails \/ Plan \/ Prime \/ Probe \/ PrimeTimeout)
    BY DEF Disable, ReadFails, Plan, Prime, Probe, PrimeTimeout
  <2>2. ~(JobStart \/ Send \/ SendEnds \/ Verify \/ Resend \/ Judge)
    BY DEF JobStart, Send, SendEnds, Verify, Resend, Judge
  <2>3. ~(Enable \/ EnableFails)
    BY DEF Enable, EnableFails, AfterFinally
  <2>4. ~(Housekeeping \/ Buckets \/ Rules \/ Unrule \/ Quotas)
    BY DEF Housekeeping, Buckets, Rules, Unrule, Quotas
  <2>5. Drift
    BY <1>2, <2>1, <2>2, <2>3, <2>4 DEF JobStep
  <2> QED
    BY <2>5 DEF Drift
<1>3. ~(SigTerm \/ SigKill)
  BY DEF SigTerm, SigKill
<1>4. ~WalkStep
  BY DEF WalkStep, WalkBegins, WalkPicks, WalkCompacts, WalkEnds, StoreOnly, RunIsElsewhere
<1>5. ~Surroundings
  BY DEF Surroundings, Deletes, Outage, Recover, DiskFills, DiskGrows, DisabledByHand,
         BucketChanges, StoreOnly, RunIsElsewhere
<1> QED
  BY <1>1, <1>2, <1>3, <1>4, <1>5 DEF SeaNext

(* A run that chose volumes and ended OK has had one of them compacted, as *)
(* long as no list it compared lacked a server: whatever was refused,      *)
(* failed, killed or deleted meanwhile.                                    *)
THEOREM GreenHasReclaimed == SeaSpec => GreenMeansReclaimed
<1>1. ReclaimInv /\ [SeaNext]_seaVars =>
        (JobEnds /\ exit' = "ok" /\ chosen # {} /\ ~blind => compacted \cap chosen # {})
  <2> SUFFICES ASSUME ReclaimInv, [SeaNext]_seaVars, JobEnds, exit' = "ok",
                      chosen # {}, ~blind
               PROVE  compacted \cap chosen # {}
    OBVIOUS
  <2>1. pc = "drift" /\ ~failed
    BY GreenEnd DEF ReclaimInv
  <2> QED
    BY <2>1 DEF ReclaimInv, SeenHalved, After, Reclaimed
<1>2. SeaInit => ReclaimInv
  BY ReclaimInit
<1>3. ReclaimInv /\ [SeaNext]_seaVars => ReclaimInv'
  BY ReclaimStep
<1> QED
  BY <1>1, <1>2, <1>3, PTL DEF SeaSpec, GreenMeansReclaimed

-----------------------------------------------------------------------------
(***************************************************************************)
(* A green run has brought the quotas into order.  What the listings said  *)
(* stays true of each bucket nobody touches; a rule of a bucket that is    *)
(* gone is to be deleted or the run has failed; and when the commands have *)
(* been carried out, the buckets are as in Git.                            *)
(***************************************************************************)
InOrder(b) == IF b \in exists THEN quota[b] = Want[b] ELSE b \notin ruled

ListingIsTrue ==
    pc \in {"rules", "unrule"} /\ ~misread =>
      \A b \in Bucket \ touched :
        /\ b \in seen <=> b \in exists
        /\ b \in seen => listed[b] = quota[b]

RulesWillGo ==
    pc = "unrule" /\ ~(misread \/ failed) =>
      \A b \in (Bucket \ touched) \ exists : b \in ruled => b \in orphans

QuotasAreSet ==
    pc = "drift" /\ ~(misread \/ failed) => \A b \in Bucket \ touched : InOrder(b)

QuotaInv == SeaTypeOK /\ Fresh /\ ListingIsTrue /\ RulesWillGo /\ QuotasAreSet

LEMMA QuotaInvInit == SeaInit => QuotaInv
<1> SUFFICES ASSUME SeaInit PROVE QuotaInv
  OBVIOUS
<1>1. pc = "idle"
  BY DEF SeaInit
<1> QED
  BY <1>1, InitType DEF QuotaInv, ListingIsTrue, RulesWillGo, QuotasAreSet

(* Steps that leave the quotas and the listings alone, or end elsewhere.   *)
LEMMA QuotasKeep ==
    ASSUME QuotaInv,
           \/ pc' \notin {"rules", "unrule", "drift"}
           \/ UNCHANGED <<quotaVars, pc, failed>>
    PROVE  ListingIsTrue' /\ RulesWillGo' /\ QuotasAreSet'
BY DEF QuotaInv, ListingIsTrue, RulesWillGo, QuotasAreSet, InOrder,
       quotaVars, quotaRun, bucketVars

LEMMA BucketsKeep ==
    ASSUME QuotaInv, BucketChanges
    PROVE  ListingIsTrue' /\ RulesWillGo' /\ QuotasAreSet'
<1>1. PICK b \in Bucket : Appear(b) \/ SetByHand(b) \/ Enforce(b)
  BY DEF BucketChanges
<1>2. touched' = touched \cup {b} /\ UNCHANGED <<seen, listed, orphans, misread, pc, failed>>
  BY <1>1 DEF Appear, SetByHand, Enforce, Touch, BucketChanges, RunIsElsewhere
<1>3. \A c \in Bucket \ {b} :
        (c \in exists <=> c \in exists') /\ (c \in ruled <=> c \in ruled') /\ quota'[c] = quota[c]
  BY <1>1 DEF Appear, SetByHand, Enforce, QuotaInv, SeaTypeOK, QuotaTypeOK
<1> QED
  BY <1>2, <1>3 DEF QuotaInv, ListingIsTrue, RulesWillGo, QuotasAreSet, InOrder

LEMMA ListingStarts ==
    ASSUME QuotaInv, Buckets
    PROVE  ListingIsTrue' /\ RulesWillGo' /\ QuotasAreSet'
<1>1. CASE pc' = "drift"
  <2>1. failed'
    BY <1>1 DEF Buckets
  <2> QED
    BY <1>1, <2>1 DEF ListingIsTrue, RulesWillGo, QuotasAreSet
<1>2. CASE pc' = "rules"
  <2>1. PICK S \in SUBSET Bucket : ListBuckets(S)
    BY <1>2 DEF Buckets, QuotaInv, SeaTypeOK, QuotaTypeOK
  <2>2. ~misread' => \A b \in Bucket : (b \in seen' <=> b \in exists')
                                      /\ (b \in seen' => listed'[b] = quota'[b])
    BY <2>1 DEF ListBuckets, bucketVars
  <2> QED
    BY <1>2, <2>2 DEF ListingIsTrue, RulesWillGo, QuotasAreSet
<1> QED
  BY <1>1, <1>2 DEF Buckets

LEMMA RulesAreRead ==
    ASSUME QuotaInv, Rules
    PROVE  ListingIsTrue' /\ RulesWillGo' /\ QuotasAreSet'
<1>1. PICK R \in {ruled, {}} : ReadRules(R)
  BY DEF Rules
<1>2. pc = "rules" /\ pc' = "unrule" /\ UNCHANGED <<exists, quota, ruled, seen, listed, touched>>
  BY <1>1 DEF Rules, ReadRules, bucketVars
<1>3. ~misread' => ~misread /\ R = ruled
  BY <1>1 DEF ReadRules
<1>4. orphans' = R \ seen
  BY <1>1 DEF ReadRules
<1> QED
  BY <1>2, <1>3, <1>4 DEF QuotaInv, ListingIsTrue, RulesWillGo, QuotasAreSet

LEMMA RulesAreDeleted ==
    ASSUME QuotaInv, Unrule
    PROVE  ListingIsTrue' /\ RulesWillGo' /\ QuotasAreSet'
<1>1. PICK b \in orphans :
        \/ DeleteRule(b, FALSE) /\ UNCHANGED failed
        \/ DeleteRule(b, TRUE) /\ failed'
  BY DEF Unrule
<1>2. pc = "unrule" /\ pc' = "unrule"
      /\ UNCHANGED <<exists, quota, seen, listed, misread, touched>> /\ orphans' = orphans \ {b}
  BY <1>1 DEF Unrule, DeleteRule
<1>3. ~failed' => ~failed /\ ruled' = ruled \ {b}
  BY <1>1 DEF DeleteRule
<1> QED
  BY <1>2, <1>3 DEF QuotaInv, ListingIsTrue, RulesWillGo, QuotasAreSet

LEMMA QuotasAreApplied ==
    ASSUME QuotaInv, Quotas
    PROVE  ListingIsTrue' /\ RulesWillGo' /\ QuotasAreSet'
<1>1. pc = "unrule" /\ orphans = {} /\ pc' = "drift"
  BY DEF Quotas
<1>2. ASSUME ~misread', ~failed', NEW b \in Bucket \ touched'
      PROVE  InOrder(b)'
  <2>1. Apply(Planned) /\ ~failed
    BY <1>2 DEF Quotas
  <2>2. UNCHANGED <<exists, ruled, seen, listed, misread, touched>>
        /\ quota' = [c \in Bucket |-> IF c \in Planned \cap exists THEN Want[c] ELSE quota[c]]
    BY <2>1 DEF Apply, quotaRun
  <2>3. (b \in seen <=> b \in exists) /\ (b \in seen => listed[b] = quota[b])
    BY <1>1, <1>2, <2>2 DEF QuotaInv, ListingIsTrue
  <2>4. b \notin exists => b \notin ruled
    BY <1>1, <1>2, <2>1, <2>2 DEF QuotaInv, RulesWillGo
  <2>5. b \in exists => quota'[b] = Want[b]
    BY <2>2, <2>3 DEF Planned
  <2> QED
    BY <2>2, <2>4, <2>5 DEF InOrder
<1> QED
  BY <1>1, <1>2 DEF ListingIsTrue, RulesWillGo, QuotasAreSet

LEMMA OthersKeepQuotas ==
    ASSUME QuotaInv, SeaNext, ~(Buckets \/ Rules \/ Unrule \/ Quotas \/ BucketChanges)
    PROVE  ListingIsTrue' /\ RulesWillGo' /\ QuotasAreSet'
<1> USE DEF JobEnd, StoreOnly, RunIsElsewhere
<1>1. CASE JobStart \/ Disable \/ ReadFails \/ Plan \/ Prime \/ Probe \/ PrimeTimeout
  <2>1. pc' \notin {"rules", "unrule", "drift"}
    BY <1>1 DEF JobStart, Disable, ReadFails, Plan, Prime, Probe, PrimeTimeout
  <2> QED
    BY <2>1, QuotasKeep
<1>2. CASE Send \/ SendEnds \/ Verify \/ Resend \/ Judge
  <2>1. pc' \notin {"rules", "unrule", "drift"}
    BY <1>2 DEF Send, SendEnds, Verify, Resend, Judge
  <2> QED
    BY <2>1, QuotasKeep
<1>3. CASE Enable \/ EnableFails \/ Housekeeping \/ Drift \/ SigTerm \/ SigKill
  <2>1. pc' \notin {"rules", "unrule", "drift"}
    BY <1>3 DEF Enable, EnableFails, AfterFinally, Housekeeping, Drift, SigTerm, SigKill
  <2> QED
    BY <2>1, QuotasKeep
<1>4. CASE WalkStep
  BY <1>4, QuotasKeep DEF WalkStep, WalkBegins, WalkPicks, WalkCompacts, WalkEnds
<1>5. CASE Surroundings
  <2>1. UNCHANGED <<quotaVars, pc, failed>>
    BY <1>5 DEF Surroundings, Deletes, Outage, Recover, DiskFills, DiskGrows, DisabledByHand
  <2> QED
    BY <2>1, QuotasKeep
<1> QED
  BY <1>1, <1>2, <1>3, <1>4, <1>5 DEF SeaNext, JobStep

LEMMA QuotaInvStep ==
    ASSUME QuotaInv, [SeaNext]_seaVars
    PROVE  QuotaInv'
<1>1. SeaTypeOK' /\ Fresh'
  BY TypeStep DEF QuotaInv
<1>2. CASE UNCHANGED seaVars
  BY <1>1, <1>2, QuotasKeep DEF QuotaInv, seaVars
<1>3. CASE SeaNext
  BY <1>1, <1>3, BucketsKeep, ListingStarts, RulesAreRead, RulesAreDeleted,
     QuotasAreApplied, OthersKeepQuotas DEF QuotaInv
<1> QED
  BY <1>2, <1>3

(* A run that ends OK leaves every bucket that nobody touched since it was *)
(* listed with Git's quota, and no rule of one that is gone, as long as no *)
(* listing lacked something.                                               *)
THEOREM GreenHasQuotas == SeaSpec => GreenMeansQuotas
<1>1. QuotaInv /\ [SeaNext]_seaVars =>
        (JobEnds /\ exit' = "ok" /\ ~misread =>
           \A b \in Bucket \ touched :
             IF b \in exists THEN quota[b] = Want[b] ELSE b \notin ruled)
  <2> SUFFICES ASSUME QuotaInv, [SeaNext]_seaVars, JobEnds, exit' = "ok", ~misread
               PROVE  \A b \in Bucket \ touched : InOrder(b)
    BY DEF InOrder
  <2>1. pc = "drift" /\ ~failed
    BY GreenEnd DEF QuotaInv
  <2> QED
    BY <2>1 DEF QuotaInv, QuotasAreSet
<1>2. SeaInit => QuotaInv
  BY QuotaInvInit
<1>3. QuotaInv /\ [SeaNext]_seaVars => QuotaInv'
  BY QuotaInvStep
<1> QED
  BY <1>1, <1>2, <1>3, PTL DEF SeaSpec, GreenMeansQuotas

(* Whatever else goes wrong: the rule that a step deletes belongs to a     *)
(* bucket that the listing truly did not have, or that changed since, or   *)
(* an output lacked something.                                             *)
THEOREM RulesOfTheUnknown == SeaSpec => UnrulesOnlyUnknown
<1>1. QuotaInv /\ [SeaNext]_seaVars =>
        \A b \in ruled : Unrule /\ b \notin ruled' =>
          b \notin exists \/ b \in touched \/ misread
  <2> SUFFICES ASSUME QuotaInv, NEW b \in ruled, Unrule, b \notin ruled',
                      b \notin touched, ~misread
               PROVE  b \notin exists
    OBVIOUS
  <2>1. pc = "unrule" /\ b \in orphans
    BY DEF Unrule, DeleteRule
  <2>2. b \in Bucket \ seen
    BY <2>1 DEF QuotaInv, SeaTypeOK, QuotaTypeOK
  <2> QED
    BY <2>1, <2>2 DEF QuotaInv, ListingIsTrue
<1>2. SeaInit => QuotaInv
  BY QuotaInvInit
<1>3. QuotaInv /\ [SeaNext]_seaVars => QuotaInv'
  BY QuotaInvStep
<1> QED
  BY <1>1, <1>2, <1>3, PTL DEF SeaSpec, UnrulesOnlyUnknown
=============================================================================
