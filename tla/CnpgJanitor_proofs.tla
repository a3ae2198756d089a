------------------------- MODULE CnpgJanitor_proofs -------------------------
(***************************************************************************)
(* Theorems about CnpgJanitor for every set of clusters and backups and    *)
(* for every threshold.                                                    *)
(***************************************************************************)
EXTENDS CnpgJanitor, TLAPS

USE DEF Latched, InFlight, Missing, OldBackup, LongAgo, Grown, Cap

OperatorStep(b) == Fire(b) \/ OnDemand(b) \/ Advance(b) \/ Succeed(b) \/ Vanish(b)

LEMMA Phases ==
    /\ {"absent", "released", "", "done", "pending", "running", "walArchivingFailing"} = Phase
    /\ "absent" \in Phase /\ "released" \in Phase /\ "" \in Phase /\ "done" \in Phase
BY DEF Phase

-----------------------------------------------------------------------------
(* Type correctness.                                                       *)

LEMMA CnpgInitType == CnpgInit => CnpgTypeOK
<1> SUFFICES ASSUME CnpgInit PROVE CnpgTypeOK
  OBVIOUS
<1>1. phase \in [Backup -> Phase]
  BY Phases DEF CnpgInit
<1>2. age \in [Backup -> 0..OldBackup]
  BY JanitorAssumption DEF CnpgInit
<1>3. /\ born \in [Cluster -> 0..Grown]
      /\ fired \in [Cluster -> 0..LongAgo]
      /\ succeeded \in [Cluster -> 0..LongAgo]
  BY JanitorAssumption DEF CnpgInit
<1> QED
  BY <1>1, <1>2, <1>3, JanitorAssumption DEF CnpgInit, CnpgTypeOK

LEMMA Reset ==
    ASSUME NEW f \in [Cluster -> 0..LongAgo], NEW c \in Cluster
    PROVE  [f EXCEPT ![c] = 0] \in [Cluster -> 0..LongAgo]
BY JanitorAssumption

LEMMA SettleType ==
    ASSUME CnpgTypeOK, NEW b \in Backup, NEW p \in Phase, Settle(b, p)
    PROVE  /\ phase' \in [Backup -> Phase]
           /\ age' \in [Backup -> 0..(StuckRunning + 1)]
           /\ child' \subseteq Backup
BY JanitorAssumption DEF Settle, CnpgTypeOK

LEMMA OperatorType ==
    ASSUME CnpgTypeOK, NEW b \in Backup, OperatorStep(b)
    PROVE  CnpgTypeOK'
<1> USE JanitorAssumption, Phases DEF Written, Move, siteVars, runVars
<1>1. CASE Fire(b)
  <2>1. b[1] \in Cluster
    BY DEF Backup
  <2> QED
    BY <1>1, <2>1, Reset DEF Fire, CnpgTypeOK
<1>2. CASE OnDemand(b)
  BY <1>2 DEF OnDemand, CnpgTypeOK
<1>3. CASE Advance(b)
  <2>1. UNCHANGED <<siteVars, runVars, mishap>> /\ intact' \subseteq Backup
    BY <1>3 DEF Advance, CnpgTypeOK
  <2>2. CASE \E p \in Phase : Move(b, p)
    BY <2>1, <2>2 DEF CnpgTypeOK
  <2>3. CASE Settle(b, "done")
    BY <2>1, <2>3, SettleType DEF CnpgTypeOK
  <2> QED
    BY <1>3, <2>2, <2>3 DEF Advance
<1>4. CASE Succeed(b)
  <2>1. b[1] \in Cluster
    BY DEF Backup
  <2> QED
    BY <1>4, <2>1, SettleType, Reset DEF Succeed, CnpgTypeOK
<1>5. CASE Vanish(b)
  BY <1>5, SettleType DEF Vanish, CnpgTypeOK
<1> QED
  BY <1>1, <1>2, <1>3, <1>4, <1>5 DEF OperatorStep

(* Schedules and clusters are made anew or deleted.                        *)
SiteStep(c) == Renew(c) \/ Appear(c)

LEMMA HourType == CnpgTypeOK /\ Hour => CnpgTypeOK'
BY JanitorAssumption DEF Hour, CnpgTypeOK

(* The end of a run, whatever it deleted at last.                          *)
LEMMA JobEndType ==
    ASSUME CnpgTypeOK, NEW status \in {0, 1}, JobEnd(status), mishap' \in 0..MaxMishap,
           \/ UNCHANGED <<phase, age, child>>
           \/ \E b \in Backup : Settle(b, "released")
    PROVE  CnpgTypeOK'
<1>1. /\ phase' \in [Backup -> Phase]
      /\ age' \in [Backup -> 0..(StuckRunning + 1)]
      /\ child' \subseteq Backup
  BY SettleType, Phases DEF CnpgTypeOK
<1> QED
  BY <1>1 DEF JobEnd, siteVars, CnpgTypeOK

LEMMA MishapType == CnpgTypeOK /\ Mishap => mishap' \in 0..MaxMishap
BY JanitorAssumption DEF Mishap, CnpgTypeOK

LEMMA SiteType ==
    ASSUME CnpgTypeOK, NEW c \in Cluster, SiteStep(c)
    PROVE  CnpgTypeOK'
<1> USE JanitorAssumption DEF objectVars, runVars
<1>1. mishap' \in 0..MaxMishap
  BY MishapType DEF SiteStep, Renew, Appear
<1>2. CASE Renew(c)
  BY <1>1, <1>2 DEF Renew, CnpgTypeOK
<1>3. CASE Appear(c)
  BY <1>1, <1>3 DEF Appear, CnpgTypeOK
<1> QED
  BY <1>2, <1>3 DEF SiteStep

LEMMA JobType == CnpgTypeOK /\ JobStep => CnpgTypeOK'
<1> SUFFICES ASSUME CnpgTypeOK, JobStep PROVE CnpgTypeOK'
  OBVIOUS
<1> USE Phases DEF Written, objectVars, siteVars
<1>1. CASE List
  BY <1>1 DEF List, CnpgTypeOK
<1>2. ASSUME NEW b \in Backup, Reread(b) PROVE CnpgTypeOK'
  <2>1. chosen' = {} \/ chosen' = {b}
    BY <1>2 DEF Reread
  <2>2. mishap' \in 0..MaxMishap
    BY <1>2, MishapType DEF Reread, CnpgTypeOK
  <2>3. intact' \subseteq Backup /\ plan' \subseteq Backup
    BY <1>2 DEF Reread, CnpgTypeOK
  <2> QED
    BY <1>2, <2>1, <2>2, <2>3 DEF Reread, CnpgTypeOK
<1>3. ASSUME NEW b \in Backup, Delete(b) PROVE CnpgTypeOK'
  <2>1. /\ phase' \in [Backup -> Phase]
        /\ age' \in [Backup -> 0..(StuckRunning + 1)]
        /\ child' \subseteq Backup
    BY <1>3, SettleType DEF Delete, CnpgTypeOK
  <2>2. exit' \in {0, 1}
    BY <1>3 DEF Delete, CnpgTypeOK
  <2> QED
    BY <1>3, <2>1, <2>2 DEF Delete, CnpgTypeOK
<1>4. ASSUME NEW b \in Backup, DeleteFails(b) PROVE CnpgTypeOK'
  <2>1. /\ phase' \in [Backup -> Phase]
        /\ age' \in [Backup -> 0..(StuckRunning + 1)]
        /\ child' \subseteq Backup
    BY <1>4, SettleType DEF DeleteFails, CnpgTypeOK
  <2> QED
    BY <1>4, <2>1, MishapType DEF DeleteFails, CnpgTypeOK
<1>5. CASE ReadSchedules
  BY <1>5 DEF ReadSchedules, CnpgTypeOK
<1>6. CASE Verdict
  <2>1. PICK status \in {0, 1} : JobEnd(status)
    BY <1>6 DEF Verdict
  <2> QED
    BY <1>6, <2>1, JobEndType DEF Verdict, CnpgTypeOK
<1>7. CASE Die
  BY <1>7, JobEndType, MishapType DEF Die, CnpgTypeOK
<1> QED
  BY <1>1, <1>2, <1>3, <1>4, <1>5, <1>6, <1>7 DEF JobStep

LEMMA CnpgStepType == CnpgTypeOK /\ [CnpgNext]_cnpgVars => CnpgTypeOK'
<1>1. CnpgTypeOK /\ UNCHANGED cnpgVars => CnpgTypeOK'
  BY DEF CnpgTypeOK, cnpgVars, objectVars, siteVars, runVars
<1> QED
  BY <1>1, OperatorType, HourType, SiteType, JobType DEF CnpgNext, OperatorStep, SiteStep

(* The state of CnpgJanitor keeps its shape, whatever the operator, the    *)
(* schedules, people and the requests of the job do to each other.         *)
THEOREM CnpgTypeCorrect == CnpgSpec => []CnpgTypeOK
BY CnpgInitType, CnpgStepType, PTL DEF CnpgSpec

-----------------------------------------------------------------------------
(***************************************************************************)
(* Nothing but a stuck Backup is removed.                                  *)
(***************************************************************************)

(* What the version precondition of DELETE relies on: a listed Backup that *)
(* was not written to since is as stuck as it was.                         *)
IntactIsStuck == \A b \in intact : Stuck(b)

LEMMA SettleElsewhere ==
    ASSUME CnpgTypeOK, NEW b \in Backup, NEW p, Settle(b, p), NEW x \in Backup, x # b
    PROVE  phase'[x] = phase[x] /\ age'[x] = age[x]
BY DEF Settle, CnpgTypeOK

(* Stuck Backups stay stuck unless somebody writes to them.                *)
LEMMA StuckStays ==
    ASSUME CnpgTypeOK, NEW b \in Backup, Stuck(b),
           phase'[b] = phase[b], age'[b] >= age[b], age'[b] \in Nat
    PROVE  Stuck(b)'
BY JanitorAssumption DEF Stuck, CnpgTypeOK

LEMMA HourAges ==
    ASSUME CnpgTypeOK, Hour, NEW b \in Backup
    PROVE  phase'[b] = phase[b] /\ age'[b] >= age[b] /\ age'[b] \in Nat
BY JanitorAssumption DEF Hour, CnpgTypeOK

LEMMA IntactStep ==
    ASSUME CnpgTypeOK, IntactIsStuck, [CnpgNext]_cnpgVars
    PROVE  IntactIsStuck'
<1> SUFFICES ASSUME NEW x \in intact' PROVE Stuck(x)'
  BY DEF IntactIsStuck
<1>1. CASE UNCHANGED <<phase, age, child>> /\ intact' \subseteq intact
  BY <1>1 DEF IntactIsStuck, Stuck
<1>2. ASSUME NEW b \in Backup, Written(b), \E p \in Phase : Settle(b, p) \/ Move(b, p)
      PROVE  Stuck(x)'
  <2>1. x \in intact /\ x # b /\ x \in Backup
    BY <1>2 DEF Written, CnpgTypeOK
  <2>2. phase'[x] = phase[x] /\ age'[x] = age[x]
    BY <1>2, <2>1 DEF Settle, Move, CnpgTypeOK
  <2> QED
    BY <2>1, <2>2 DEF IntactIsStuck, Stuck
<1>3. ASSUME NEW b \in Backup, OperatorStep(b) PROVE Stuck(x)'
  <2>1. CASE Fire(b)
    <3>1. x \in intact /\ x # b /\ x \in Backup
      BY <2>1 DEF Fire, Written, CnpgTypeOK
    <3>2. phase'[x] = phase[x] /\ age'[x] = age[x]
      BY <2>1, <3>1 DEF Fire, CnpgTypeOK
    <3> QED
      BY <3>1, <3>2 DEF IntactIsStuck, Stuck
  <2>2. CASE OnDemand(b) \/ Advance(b) \/ Succeed(b) \/ Vanish(b)
    <3>1. Written(b)
      BY <2>2 DEF OnDemand, Advance, Succeed, Vanish
    <3>2. \E p \in Phase : Settle(b, p) \/ Move(b, p)
      BY <2>2, Phases DEF OnDemand, Advance, Succeed, Vanish
    <3> QED
      BY <1>2, <3>1, <3>2
  <2> QED
    BY <1>3, <2>1, <2>2 DEF OperatorStep
<1>4. CASE Hour
  <2>1. x \in intact /\ x \in Backup
    BY <1>4 DEF Hour, CnpgTypeOK
  <2> QED
    BY <1>4, <2>1, HourAges, StuckStays DEF IntactIsStuck
<1>5. CASE List
  BY <1>5 DEF List, Stuck
<1>6. ASSUME NEW b \in Backup, Reread(b) \/ Delete(b) \/ DeleteFails(b) PROVE Stuck(x)'
  <2>1. CASE Reread(b)
    BY <1>1, <2>1 DEF Reread, Written
  <2>2. CASE Delete(b) \/ DeleteFails(b)
    <3>1. Written(b)
      BY <2>2 DEF Delete, DeleteFails
    <3>2. CASE Settle(b, "released")
      BY <1>2, <3>1, <3>2, Phases
    <3>3. CASE UNCHANGED <<phase, age, child>>
      BY <1>1, <3>1, <3>3 DEF Written
    <3> QED
      BY <2>2, <3>2, <3>3 DEF Delete, DeleteFails
  <2> QED
    BY <1>6, <2>1, <2>2
<1>7. CASE ReadSchedules
  BY <1>1, <1>7 DEF ReadSchedules, objectVars
<1>8. CASE Verdict \/ Die
  BY <1>8 DEF Verdict, Die, JobEnd
<1>9. CASE UNCHANGED cnpgVars \/ \E c \in Cluster : SiteStep(c)
  BY <1>1, <1>9 DEF cnpgVars, objectVars, SiteStep, Renew, Appear
<1> QED
  BY <1>3, <1>4, <1>5, <1>6, <1>7, <1>8, <1>9 DEF CnpgNext, JobStep, OperatorStep, SiteStep

-----------------------------------------------------------------------------
(* The steps of the abstract specification.                                *)

LEMMA SlotElsewhere ==
    ASSUME CnpgTypeOK, NEW x \in Backup, phase'[x] = phase[x], age'[x] = age[x]
    PROVE  SlotOf(x)' = SlotOf(x)
BY DEF SlotOf, Stuck

(* One Backup's slot changes and the others' do not.                       *)
LEMMA SlotChange ==
    ASSUME NEW b \in Backup, NEW s, SlotOf(b)' = s,
           \A x \in Backup \ {b} : SlotOf(x)' = SlotOf(x)
    PROVE  SlotMap' = [SlotMap EXCEPT ![b] = s]
BY DEF SlotMap

LEMMA RequestStep ==
    ASSUME CnpgTypeOK, NEW b \in Backup, ~Undone(b), UNCHANGED age,
           phase' = [phase EXCEPT ![b] = ""]
    PROVE  Slots!Request(b)
<1>1. SlotMap[b] \in {"gone", "released", "done"}
  BY DEF SlotMap, SlotOf, Undone, CnpgTypeOK
<1>2. SlotOf(b)' = "busy"
  BY DEF SlotOf, Stuck, CnpgTypeOK
<1>3. \A x \in Backup \ {b} : SlotOf(x)' = SlotOf(x)
  BY SlotElsewhere DEF CnpgTypeOK
<1> QED
  BY <1>1, <1>2, <1>3, SlotChange DEF Slots!Request

LEMMA FinishStep ==
    ASSUME CnpgTypeOK, NEW b \in Backup, phase[b] \in InFlight, Settle(b, "done")
    PROVE  Slots!Finish(b)
<1>1. SlotMap[b] \in {"busy", "stuck"}
  BY DEF SlotMap, SlotOf
<1>2. SlotOf(b)' = "done"
  BY DEF SlotOf, Settle, CnpgTypeOK
<1>3. \A x \in Backup \ {b} : SlotOf(x)' = SlotOf(x)
  BY SlotElsewhere, SettleElsewhere
<1> QED
  BY <1>1, <1>2, <1>3, SlotChange DEF Slots!Finish

LEMMA ForgetStep ==
    ASSUME CnpgTypeOK, NEW b \in Backup, SlotOf(b) \in {"done", "stuck"}, Settle(b, "absent")
    PROVE  Slots!Forget(b)
<1>1. SlotMap[b] \in {"done", "stuck"}
  BY DEF SlotMap
<1>2. SlotOf(b)' = "gone"
  BY DEF SlotOf, Settle, CnpgTypeOK
<1>3. \A x \in Backup \ {b} : SlotOf(x)' = SlotOf(x)
  BY SlotElsewhere, SettleElsewhere
<1> QED
  BY <1>1, <1>2, <1>3, SlotChange DEF Slots!Forget

LEMMA ReleaseStep ==
    ASSUME CnpgTypeOK, NEW b \in Backup, SlotOf(b) = "stuck", Settle(b, "released")
    PROVE  Slots!Release(b)
<1>1. SlotMap[b] = "stuck"
  BY DEF SlotMap
<1>2. SlotOf(b)' = "released"
  BY DEF SlotOf, Settle, CnpgTypeOK
<1>3. \A x \in Backup \ {b} : SlotOf(x)' = SlotOf(x)
  BY SlotElsewhere, SettleElsewhere
<1> QED
  BY <1>1, <1>2, <1>3, SlotChange DEF Slots!Release

(* Slots in which at most busy Backups turned out stuck.                   *)
LEMMA WedgeStep ==
    ASSUME \A x \in Backup : \/ SlotOf(x)' = SlotOf(x)
                             \/ SlotOf(x) = "busy" /\ SlotOf(x)' = "stuck"
    PROVE  Slots!Wedge
<1> DEFINE W == {x \in Backup : SlotOf(x) = "busy" /\ SlotOf(x)' = "stuck"}
<1>1. W \in SUBSET {x \in Backup : SlotMap[x] = "busy"}
  BY DEF SlotMap
<1>2. \A x \in Backup : SlotOf(x)' = IF x \in W THEN "stuck" ELSE SlotMap[x]
  BY DEF SlotMap
<1> HIDE DEF W
<1>3. SlotMap' = [x \in Backup |-> IF x \in W THEN "stuck" ELSE SlotMap[x]]
  BY <1>2 DEF SlotMap
<1> QED
  BY <1>1, <1>3 DEF Slots!Wedge

LEMMA SameSlots ==
    ASSUME UNCHANGED <<phase, age>>
    PROVE  UNCHANGED SlotMap
BY DEF SlotMap, SlotOf, Stuck

LEMMA OperatorSlots ==
    ASSUME CnpgTypeOK, NEW b \in Backup, OperatorStep(b)
    PROVE  Slots!SlotsNext
<1>1. CASE Fire(b) \/ OnDemand(b)
  BY <1>1, RequestStep DEF Fire, OnDemand, Move, Slots!SlotsNext
<1>2. CASE Advance(b) /\ Settle(b, "done")
  BY <1>2, FinishStep DEF Advance, Move, Settle, Slots!SlotsNext, CnpgTypeOK
<1>3. ASSUME NEW p \in {"pending", "running"} \cup Latched, Move(b, p),
             \/ phase[b] = ""
             \/ phase[b] \in InFlight
             , p \in Latched => phase[b] \in InFlight
      PROVE  Slots!SlotsNext
  <2>1. \A x \in Backup \ {b} : SlotOf(x)' = SlotOf(x)
    BY <1>3, SlotElsewhere DEF Move, CnpgTypeOK
  <2>2. phase'[b] = p /\ age'[b] = age[b]
    BY <1>3 DEF Move, CnpgTypeOK
  <2>3. age[b] \in 0..OldBackup
    BY DEF CnpgTypeOK
  <2>4. Stuck(b) => Stuck(b)'
    <3>1. CASE phase[b] = ""
      BY <3>1 DEF Stuck
    <3>2. CASE phase[b] \in InFlight
      <4>1. Stuck(b) => age[b] > StuckRunning /\ age[b] > MinAge
        BY <3>2, <2>3, JanitorAssumption DEF Stuck
      <4>2. p \in InFlight \/ p \in Latched \/ p = "pending"
        BY <1>3
      <4> QED
        BY <2>2, <4>1, <4>2 DEF Stuck
    <3> QED
      BY <1>3, <3>1, <3>2
  <2>5. phase[b] \notin Missing \cup {"done"} /\ phase'[b] \notin Missing \cup {"done"}
    BY <1>3, <2>2
  <2>6. \/ SlotOf(b)' = SlotOf(b)
        \/ SlotOf(b) = "busy" /\ SlotOf(b)' = "stuck"
    BY <2>4, <2>5 DEF SlotOf
  <2> QED
    BY <2>1, <2>6, WedgeStep DEF Slots!SlotsNext
<1>4. CASE Advance(b) /\ ~Settle(b, "done")
  BY <1>3, <1>4 DEF Advance
<1>5. CASE Succeed(b)
  BY <1>5, FinishStep DEF Succeed, Slots!SlotsNext
<1>6. CASE Vanish(b)
  BY <1>6, ForgetStep DEF Vanish, Slots!SlotsNext
<1> QED
  BY <1>1, <1>2, <1>4, <1>5, <1>6 DEF OperatorStep

LEMMA HourSlots ==
    ASSUME CnpgTypeOK, Hour
    PROVE  Slots!SlotsNext
<1>1. ASSUME NEW x \in Backup
      PROVE  \/ SlotOf(x)' = SlotOf(x)
             \/ SlotOf(x) = "busy" /\ SlotOf(x)' = "stuck"
  <2>1. phase'[x] = phase[x] /\ (Stuck(x) => Stuck(x)')
    BY HourAges, StuckStays
  <2> QED
    BY <2>1 DEF SlotOf
<1> QED
  BY <1>1, WedgeStep DEF Slots!SlotsNext

(* A Backup the job deletes is stuck at that moment.                       *)
LEMMA ReleaseSlots ==
    ASSUME CnpgTypeOK, IntactIsStuck, NEW b \in intact, Settle(b, "released")
    PROVE  /\ Slots!SlotsNext
           /\ Slots!Release(b)
<1>1. b \in Backup /\ Stuck(b)
  BY DEF CnpgTypeOK, IntactIsStuck
<1>2. SlotOf(b) = "stuck"
  BY <1>1 DEF SlotOf, Stuck
<1> QED
  BY <1>1, <1>2, ReleaseStep DEF Slots!SlotsNext

LEMMA JobSlots ==
    ASSUME CnpgTypeOK, IntactIsStuck, JobStep
    PROVE  Slots!SlotsNext \/ UNCHANGED SlotMap
<1>1. CASE List \/ ReadSchedules \/ Verdict \/ \E b \in Backup : Reread(b)
  BY <1>1, SameSlots DEF List, ReadSchedules, Verdict, Reread, objectVars
<1>2. ASSUME NEW b \in Backup, Delete(b) \/ DeleteFails(b)
      PROVE  Slots!SlotsNext \/ UNCHANGED SlotMap
  BY <1>2, SameSlots, ReleaseSlots DEF Delete, DeleteFails
<1>3. CASE Die
  BY <1>3, SameSlots, ReleaseSlots DEF Die
<1> QED
  BY <1>1, <1>2, <1>3 DEF JobStep

LEMMA SlotsStep ==
    CnpgTypeOK /\ IntactIsStuck /\ [CnpgNext]_cnpgVars => [Slots!SlotsNext]_SlotMap
<1>1. UNCHANGED cnpgVars => UNCHANGED SlotMap
  BY SameSlots DEF cnpgVars, objectVars
<1>2. \A c \in Cluster : SiteStep(c) => UNCHANGED SlotMap
  BY SameSlots DEF SiteStep, Renew, Appear, objectVars
<1> QED
  BY <1>1, <1>2, OperatorSlots, HourSlots, JobSlots DEF CnpgNext, OperatorStep, SiteStep

LEMMA SlotsStart == CnpgInit => Slots!SlotsInit
BY DEF CnpgInit, Slots!SlotsInit, SlotMap, SlotOf

(* The janitor implements the safety part of BackupSlots: however its      *)
(* requests interleave with the operator's, a Backup it releases is stuck  *)
(* at that very moment, neither done nor changed since it was listed.      *)
THEOREM ReleasesOnlyStuckSafely == CnpgSpec => Slots!SlotsSafe
<1>1. CnpgInit => IntactIsStuck
  BY DEF CnpgInit, IntactIsStuck
<1>2. CnpgTypeOK /\ IntactIsStuck /\ [CnpgNext]_cnpgVars => IntactIsStuck'
  BY IntactStep
<1>3. CnpgSpec => [](CnpgTypeOK /\ IntactIsStuck)
  BY <1>1, <1>2, CnpgInitType, CnpgStepType, PTL DEF CnpgSpec
<1> QED
  BY <1>3, SlotsStart, SlotsStep, PTL DEF CnpgSpec, Slots!SlotsSafe

-----------------------------------------------------------------------------
(***************************************************************************)
(* A green run means fresh backups.                                        *)
(***************************************************************************)

(* What was read of the schedules still holds when the clusters are read:  *)
(* those that were too new still are, or are newer, and the others fired.  *)
InTime(c) == fired[c] <= MaxAge + late \/ born[c] < MaxAge + late

FiredInTime ==
    st = "clusters" =>
      \A c \in Cluster \ Suspended :
        /\ c \notin unfired => InTime(c)
        /\ c \notin judged => born[c] < MaxAge + late

LEMMA FiredStep ==
    ASSUME CnpgTypeOK, FiredInTime, [CnpgNext]_cnpgVars
    PROVE  FiredInTime'
<1> SUFFICES ASSUME st' = "clusters", NEW c \in Cluster \ Suspended
             PROVE  /\ c \notin unfired' => InTime(c)'
                    /\ c \notin judged' => born'[c] < MaxAge + late'
  BY DEF FiredInTime
<1> DEFINE Goal == /\ c \notin unfired' => InTime(c)'
                   /\ c \notin judged' => born'[c] < MaxAge + late'
<1> USE JanitorAssumption
<1>1. CASE UNCHANGED <<born, fired, st, late, judged, unfired>>
  BY <1>1 DEF FiredInTime, InTime
<1>2. ASSUME st = "clusters", UNCHANGED <<late, judged, unfired>>,
             (fired'[c] \in {0, fired[c]} /\ born'[c] = born[c]) \/ born'[c] = 0
      PROVE  Goal
  <2>1. /\ c \notin unfired => InTime(c)
        /\ c \notin judged => born[c] < MaxAge + late
    BY <1>2 DEF FiredInTime
  <2>2. late \in 0..1 /\ born[c] \in Nat /\ fired[c] \in Nat
    BY DEF CnpgTypeOK
  <2>3. 0 < MaxAge + late
    BY <2>2
  <2> QED
    BY <1>2, <2>1, <2>2, <2>3 DEF InTime
<1>3. ASSUME NEW b \in Backup, Fire(b) PROVE Goal
  <2>1. st = "clusters" /\ UNCHANGED <<born, late, judged, unfired>>
    BY <1>3 DEF Fire, runVars
  <2>2. fired'[c] \in {0, fired[c]}
    BY <1>3 DEF Fire, CnpgTypeOK
  <2> QED
    BY <1>2, <2>1, <2>2
<1>4. ASSUME NEW d \in Cluster, SiteStep(d) PROVE Goal
  <2>1. st = "clusters" /\ UNCHANGED <<late, judged, unfired>>
    BY <1>4 DEF SiteStep, Renew, Appear, runVars
  <2>2. (fired'[c] = fired[c] /\ born'[c] = born[c]) \/ born'[c] = 0
    BY <1>4 DEF SiteStep, Renew, Appear, CnpgTypeOK
  <2> QED
    BY <1>2, <2>1, <2>2
<1>5. CASE Hour
  <2>1. late = 0 /\ late' = 1 /\ st = "clusters" /\ UNCHANGED <<judged, unfired>>
    BY <1>5 DEF Hour
  <2>2. /\ fired'[c] <= fired[c] + 1 /\ fired[c] \in Nat /\ fired'[c] \in Nat
        /\ born'[c] <= born[c] + 1 /\ born[c] \in Nat /\ born'[c] \in Nat
    BY <1>5 DEF Hour, CnpgTypeOK
  <2>3. /\ c \notin unfired => fired[c] <= MaxAge \/ born[c] < MaxAge
        /\ c \notin judged => born[c] < MaxAge
    BY <2>1 DEF FiredInTime, InTime
  <2> QED
    BY <2>1, <2>2, <2>3 DEF InTime
<1>6. CASE ReadSchedules
  <2>1. /\ judged' = {x \in Cluster \ Suspended : born[x] >= MaxAge + late}
        /\ unfired' = {x \in judged' : fired[x] > MaxAge + late}
        /\ UNCHANGED <<born, fired, late>>
    BY <1>6 DEF ReadSchedules, siteVars
  <2>2. late \in 0..1 /\ born[c] \in Nat /\ fired[c] \in Nat
    BY DEF CnpgTypeOK
  <2> QED
    BY <2>1, <2>2 DEF InTime
<1>7. CASE List \/ Verdict \/ Die
  BY <1>7 DEF List, Verdict, Die, JobEnd
<1>8. ASSUME NEW b \in Backup, Reread(b) \/ Delete(b) \/ DeleteFails(b)
      PROVE  UNCHANGED <<born, fired, st, late, judged, unfired>>
  BY <1>8 DEF Reread, Delete, DeleteFails, siteVars
<1>9. ASSUME NEW b \in Backup, OnDemand(b) \/ Advance(b) \/ Succeed(b) \/ Vanish(b)
      PROVE  UNCHANGED <<born, fired, st, late, judged, unfired>>
  BY <1>9 DEF OnDemand, Advance, Succeed, Vanish, siteVars, runVars
<1>10. UNCHANGED cnpgVars => UNCHANGED <<born, fired, st, late, judged, unfired>>
  BY DEF cnpgVars, siteVars, runVars
<1> QED
  BY <1>1, <1>3, <1>4, <1>5, <1>6, <1>7, <1>8, <1>9, <1>10
     DEF CnpgNext, JobStep, SiteStep

(* What a green run says of one schedule.                                  *)
IsFresh(c) ==
    \/ born[c] < MaxAge + late
    \/ c \in present /\ fired[c] <= MaxAge + late /\ succeeded[c] <= MaxAge + late

LEMMA GreenStep ==
    ASSUME CnpgTypeOK, FiredInTime, [CnpgNext]_cnpgVars, st # "idle", st' = "idle", exit' = 0,
           NEW c \in Cluster \ Suspended
    PROVE  IsFresh(c)
<1>1. Verdict
  <2>1. \A b \in Backup : ~OperatorStep(b)
    BY DEF OperatorStep, Fire, OnDemand, Advance, Succeed, Vanish, runVars
  <2>2. \A b \in Backup : ~(Reread(b) \/ Delete(b) \/ DeleteFails(b))
    BY DEF Reread, Delete, DeleteFails
  <2>3. ~Hour /\ ~List /\ ~ReadSchedules /\ ~Die
    BY DEF Hour, List, ReadSchedules, Die, JobEnd
  <2>4. \A d \in Cluster : ~SiteStep(d)
    BY DEF SiteStep, Renew, Appear, runVars
  <2> QED
    BY <2>1, <2>2, <2>3, <2>4 DEF CnpgNext, JobStep, OperatorStep, SiteStep, cnpgVars, runVars
<1>2. ~Problem(c)
  BY <1>1 DEF Verdict, JobEnd
<1>3. /\ c \notin unfired /\ (c \in judged => c \in present)
      /\ fired[c] <= MaxAge + late \/ born[c] < MaxAge + late
      /\ c \notin judged => born[c] < MaxAge + late
  BY <1>1, <1>2 DEF Problem, FiredInTime, InTime, Verdict
<1>4. c \in judged => succeeded[c] <= MaxAge + late
  BY <1>2, JanitorAssumption DEF Problem, CnpgTypeOK
<1> QED
  BY <1>3, <1>4 DEF IsFresh

(* A run that ends well proves, for every schedule that is not suspended   *)
(* and not too new to judge, that it fired and that its cluster exists and *)
(* succeeded within MAX_AGE_HOURS, although the two were read at different *)
(* moments.                                                                *)
THEOREM GreenProvesFresh == CnpgSpec => GreenMeansFresh
<1>1. CnpgInit => FiredInTime
  BY DEF CnpgInit, FiredInTime
<1>2. CnpgTypeOK /\ FiredInTime /\ [CnpgNext]_cnpgVars => FiredInTime'
  BY FiredStep
<1>3. CnpgSpec => [](CnpgTypeOK /\ FiredInTime)
  BY <1>1, <1>2, CnpgInitType, CnpgStepType, PTL DEF CnpgSpec
<1>4. CnpgTypeOK /\ FiredInTime /\ [CnpgNext]_cnpgVars =>
        [st # "idle" /\ st' = "idle" /\ exit' = 0 =>
           \A c \in Cluster \ Suspended :
             \/ born[c] < MaxAge + late
             \/ /\ c \in present
                /\ fired[c] <= MaxAge + late
                /\ succeeded[c] <= MaxAge + late]_cnpgVars
  BY GreenStep DEF IsFresh
<1> QED
  BY <1>3, <1>4, PTL DEF CnpgSpec, GreenMeansFresh
=============================================================================
