------------------------- MODULE ProxmoxGuests_proofs ------------------------
(***************************************************************************)
(* Theorems about ProxmoxGuests for any number of guests, blocks and       *)
(* pipelines and for every combination of bounds.                          *)
(***************************************************************************)
EXTENDS ProxmoxGuests, TLAPS, FiniteSetTheorems

USE DEF Tree

LEMMA NoFileConf == NoFile \in Conf
BY DEF NoFile, Conf

USE NoFileConf

(* Changing a part of a configuration makes a configuration.               *)
LEMMA Changed ==
    ASSUME NEW n \in Nat, NEW c \in Conf
    PROVE  /\ <<n + 1, Rest(c)>> \in Conf /\ <<n + 1, Rest(c)>> # NoFile
           /\ <<Settings(c), n + 1>> \in Conf /\ <<Settings(c), n + 1>> # NoFile
BY DEF Conf, NoFile, Settings, Rest

(* A step of the pipeline p as a whole.                                    *)
PipeStep(p) == Push(p) \/ PushDeletion(p) \/ Die(p) \/ Finish(p)

LEMMA NextSplits ==
    ASSUME GuestNext
    PROVE  \/ \E g \in Guest : HandEdit(g)
           \/ \E p \in Pipe : PipeStep(p)
           \/ \E p \in Pipe : Retry(p)
           \/ \E p \in Pipe, g \in Guest : DeployStep(p, g)
           \/ SyncStep
BY DEF GuestNext, PipeStep

LEMMA Pairs ==
    /\ \A p \in Pipe, g \in Guest : <<p, g>> \in Pair
    /\ \A x \in Pair : x[1] \in Pipe /\ x[2] \in Guest /\ x = <<x[1], x[2]>>
BY DEF Pair

LEMMA BoundsOK ==
    bound \in Bounds => bound.edit \in Nat /\ bound.mishap \in Nat /\ bound.tries \in Nat
BY GuestAssumption

-----------------------------------------------------------------------------
(* Type correctness, part by part.                                         *)

HostType ==
    /\ live \in Tree
    /\ running \subseteq {g \in Guest : live[g] # NoFile}
    /\ staged \in Tree
    /\ main \in Tree
    /\ newest \in Nat

BoundType ==
    /\ bound \in Bounds
    /\ edit \in 0..bound.edit
    /\ mishap \in 0..bound.mishap
    /\ tries \in [Pipe -> 0..bound.tries]

OneAtATime ==
    \A p \in Pipe, g, h \in Guest :
        step[<<p, g>>] \in Midway /\ step[<<p, h>>] \in Midway => g = h

JobType ==
    /\ verdict \in [Pipe -> {"none", "run", "green", "red"}]
    /\ head \in [Pipe -> Tree]
    /\ prev \in [Pipe -> Tree]
    /\ step \in [Pair -> Step]
    /\ bak \in [Pair -> Conf]
    /\ since \subseteq Pair

SyncType ==
    /\ sync \in {"idle", "run"}
    /\ tree \in Tree
    /\ moved \in BOOLEAN
    /\ blocks \subseteq Block
    /\ visit \subseteq Guest
    /\ listed \subseteq Guest
    /\ tripped \in BOOLEAN
    /\ changes \in BOOLEAN
    /\ exit \in 0..2

LEMMA Parts == GuestTypeOK <=> HostType /\ BoundType /\ JobType /\ OneAtATime /\ SyncType
BY DEF GuestTypeOK, HostType, BoundType, JobType, OneAtATime, SyncType

LEMMA Whole ==
    ASSUME HostType', BoundType', JobType', OneAtATime', SyncType'
    PROVE  GuestTypeOK'
BY DEF GuestTypeOK, HostType, BoundType, JobType, OneAtATime, SyncType

LEMMA WroteType == ASSUME JobType, NEW who, NEW g \in Guest, Wrote(who, g) PROVE since' \subseteq Pair
BY DEF Wrote, JobType, Pair

LEMMA MishapType == ASSUME BoundType, Mishap, UNCHANGED <<bound, edit, tries>> PROVE BoundType'
BY BoundsOK DEF BoundType, Mishap

LEMMA FailsType ==
    ASSUME BoundType, NEW c \in BOOLEAN, Fails(c), UNCHANGED <<bound, edit, tries>>
    PROVE  BoundType'
BY MishapType DEF Fails, BoundType

LEMMA EndType ==
    ASSUME JobType, NEW p \in Pipe, NEW v \in {"green", "red"}, End(p, v), since' \subseteq Pair
    PROVE  JobType'
<1>1. Empty \in Tree
  BY DEF Empty
<1> QED
  BY <1>1 DEF End, Set, JobType

LEMMA GoOnType ==
    ASSUME JobType, NEW p \in Pipe, NEW g \in Guest, NEW s \in Step, GoOn(p, g, s),
           since' \subseteq Pair, bak' \in [Pair -> Conf]
    PROVE  JobType'
BY Pairs DEF GoOn, Set, JobType

LEMMA GoOnAlone ==
    ASSUME JobType, OneAtATime, NEW p \in Pipe, NEW g \in Guest, NEW s, GoOn(p, g, s),
           \/ s \notin Midway
           \/ step[<<p, g>>] \in Midway
           \/ \A h \in Guest : step[<<p, h>>] \notin Midway
    PROVE  OneAtATime'
<1>1. \A q \in Pipe, h \in Guest : <<q, h>> # <<p, g>> => step'[<<q, h>>] = step[<<q, h>>]
  BY Pairs DEF GoOn, Set, JobType
<1>2. step'[<<p, g>>] = s
  BY Pairs DEF GoOn, Set, JobType
<1> QED
  BY <1>1, <1>2 DEF OneAtATime

LEMMA InitType == GuestInit => GuestTypeOK
<1> SUFFICES ASSUME GuestInit PROVE GuestTypeOK
  OBVIOUS
<1>1. Empty \in Tree
  BY DEF Empty
<1>2. HostType
  <2>1. <<1, 1>> \in Conf /\ <<1, 1>> # NoFile
    BY DEF Conf, NoFile
  <2> QED
    BY <1>1, <2>1 DEF GuestInit, HostType
<1>3. BoundType
  BY BoundsOK DEF GuestInit, BoundType
<1>4. JobType
  BY <1>1 DEF GuestInit, JobType, Step
<1>5. OneAtATime
  BY Pairs DEF GuestInit, OneAtATime, Midway
<1>6. SyncType
  <2>1. exit \in 0..2 /\ tree \in Tree
    BY <1>1 DEF GuestInit
  <2> QED
    BY <2>1 DEF GuestInit, SyncType
<1> QED
  BY <1>2, <1>3, <1>4, <1>5, <1>6, Parts

LEMMA EditType ==
    ASSUME GuestTypeOK, NEW g \in Guest, HandEdit(g)
    PROVE  GuestTypeOK'
<1>0. HostType /\ BoundType /\ JobType /\ OneAtATime /\ SyncType
  BY Parts
<1>1. HostType'
  <2>1. \E c \in Conf : /\ live' = [live EXCEPT ![g] = c]
                        /\ running' \subseteq {h \in Guest : live'[h] # NoFile}
    <3>1. newest + 1 \in Nat /\ live[g] \in Conf
      BY <1>0 DEF HostType
    <3>2. /\ <<newest + 1, Rest(live[g])>> \in Conf \ {NoFile}
          /\ <<Settings(live[g]), newest + 1>> \in Conf \ {NoFile}
      BY <1>0, <3>1, Changed DEF HostType
    <3> DEFINE a == <<newest + 1, Rest(live[g])>>
               b == <<Settings(live[g]), newest + 1>>
    <3>3. \/ /\ live' = [live EXCEPT ![g] = a]
             /\ running' \subseteq running \cup {g}
          \/ live' = [live EXCEPT ![g] = b] /\ running' = running
          \/ live' = [live EXCEPT ![g] = NoFile] /\ running' = running \ {g}
      BY DEF HandEdit, Set
    <3>4. a \in Conf \ {NoFile} /\ b \in Conf \ {NoFile}
      BY <3>2
    <3> HIDE DEF a, b
    <3> QED
      BY <1>0, <3>3, <3>4 DEF HostType
  <2>2. newest' \in Nat /\ UNCHANGED <<staged, main>>
    BY <1>0 DEF HandEdit, HostType
  <2> QED
    BY <1>0, <2>1, <2>2 DEF HostType
<1>2. BoundType'
  BY <1>0, BoundsOK DEF HandEdit, BoundType
<1>3. JobType'
  BY <1>0, WroteType DEF HandEdit, JobType, pipeVars
<1>4. OneAtATime' /\ SyncType'
  BY <1>0 DEF HandEdit, OneAtATime, SyncType, pipeVars, syncVars
<1> QED
  BY <1>1, <1>2, <1>3, <1>4, Whole

LEMMA PushType ==
    ASSUME GuestTypeOK, NEW p \in Pipe, Push(p)
    PROVE  GuestTypeOK'
<1>0. HostType /\ BoundType /\ JobType /\ OneAtATime /\ SyncType
  BY Parts
<1>1. PICK C \in SUBSET bound.files :
         /\ main' = [g \in Guest |-> IF g \in C THEN <<newest', Rest(main[g])>> ELSE main[g]]
         /\ step' = [x \in Pair |->
              IF x[1] = p THEN (IF x[2] \in C THEN "gate" ELSE "no") ELSE step[x]]
  BY DEF Push
<1>2. newest' \in Nat /\ main' \in Tree
  <2>1. newest \in Nat /\ newest' = newest + 1 /\ main \in Tree
    BY <1>0 DEF Push, HostType
  <2>2. \A h \in Guest : <<newest', Rest(main[h])>> \in Conf
    BY <2>1, Changed
  <2> QED
    BY <1>1, <2>1, <2>2
<1>3. step' \in [Pair -> Step]
  BY <1>0, <1>1 DEF JobType, Step
<1>4. HostType'
  BY <1>0, <1>2 DEF Push, HostType, siteVars
<1>5. BoundType' /\ SyncType'
  BY <1>0 DEF Push, BoundType, SyncType
<1>6. JobType'
  BY <1>0, <1>2, <1>3 DEF Push, Set, JobType, HostType
<1>7. OneAtATime'
  BY <1>0, <1>1, Pairs DEF OneAtATime, Midway
<1> QED
  BY <1>4, <1>5, <1>6, <1>7, Whole

LEMMA PipeType ==
    ASSUME GuestTypeOK, NEW p \in Pipe, PipeStep(p)
    PROVE  GuestTypeOK'
<1>0. HostType /\ BoundType /\ JobType /\ OneAtATime /\ SyncType
  BY Parts
<1>1. CASE Push(p)
  BY <1>1, PushType
<1>2. CASE Die(p)
  <2>1. JobType'
    BY <1>0, <1>2, EndType DEF Die, JobType
  <2>2. HostType' /\ SyncType' /\ OneAtATime'
    BY <1>0, <1>2 DEF Die, End, Elsewhere, HostType, SyncType, OneAtATime, siteVars, syncVars
  <2>3. BoundType'
    BY <1>0, <1>2, MishapType DEF Die, Elsewhere
  <2> QED
    BY <2>1, <2>2, <2>3, Whole
<1>3. CASE Finish(p)
  <2>1. JobType'
    <3> DEFINE v == IF \E g \in Guest : step[<<p, g>>] = "failed" THEN "red" ELSE "green"
    <3>1. v \in {"green", "red"}
      OBVIOUS
    <3>2. End(p, v) /\ since' = since
      BY <1>3 DEF Finish
    <3> HIDE DEF v
    <3>3. End(p, "red") \/ End(p, "green")
      BY <3>1, <3>2 DEF End, Set
    <3>4. since' \subseteq Pair
      BY <1>0, <3>2 DEF JobType
    <3> QED
      BY <1>0, <3>3, <3>4, EndType
  <2>2. HostType' /\ SyncType' /\ OneAtATime' /\ BoundType'
    BY <1>0, <1>3 DEF Finish, End, Elsewhere, HostType, SyncType, OneAtATime, BoundType,
       siteVars, syncVars
  <2> QED
    BY <2>1, <2>2, Whole
<1>4. CASE PushDeletion(p)
  <2>1. main' \in Tree
    BY <1>0, <1>4 DEF PushDeletion, HostType
  <2>2. JobType' /\ OneAtATime'
    BY <1>0, <1>4 DEF PushDeletion, Set, JobType, OneAtATime
  <2>3. HostType' /\ BoundType' /\ SyncType'
    BY <1>0, <1>4, <2>1 DEF PushDeletion, HostType, BoundType, SyncType, siteVars
  <2> QED
    BY <2>2, <2>3, Whole
<1> QED
  BY <1>1, <1>2, <1>3, <1>4 DEF PipeStep

LEMMA RetryType ==
    ASSUME GuestTypeOK, NEW p \in Pipe, Retry(p)
    PROVE  GuestTypeOK'
<1>0. HostType /\ BoundType /\ JobType /\ OneAtATime /\ SyncType
  BY Parts
<1>1. PICK first \in {"gate", "todo"} :
         step' = [x \in Pair |-> IF x[1] = p /\ step[x] # "no" THEN first ELSE step[x]]
  BY DEF Retry
<1>2. JobType'
  <2>1. step' \in [Pair -> Step]
    BY <1>0, <1>1 DEF JobType, Step
  <2>2. since' \subseteq Pair
    BY <1>0 DEF Retry, JobType, Pair
  <2> QED
    BY <1>0, <2>1, <2>2 DEF Retry, Set, JobType
<1>3. OneAtATime'
  BY <1>0, <1>1, Pairs DEF OneAtATime, Midway
<1>4. BoundType'
  BY <1>0, BoundsOK DEF Retry, Set, BoundType
<1>5. HostType' /\ SyncType'
  BY <1>0 DEF Retry, HostType, SyncType, siteVars, syncVars
<1> QED
  BY <1>2, <1>3, <1>4, <1>5, Whole

(* What the steps with one guest have in common.                           *)
LEMMA JobSteps ==
    ASSUME JobType, OneAtATime, NEW p \in Pipe, NEW g \in Guest, NEW from \in Step, Now(p, g, from),
           since' \subseteq Pair,
           \/ End(p, "red")
           \/ /\ bak' \in [Pair -> Conf]
              /\ \E to \in Step : GoOn(p, g, to) /\ (to \in Midway => from \in Midway)
    PROVE  JobType' /\ OneAtATime'
<1>1. CASE End(p, "red")
  BY <1>1, EndType DEF End, OneAtATime
<1>2. CASE bak' \in [Pair -> Conf] /\ \E to \in Step : GoOn(p, g, to) /\ (to \in Midway => from \in Midway)
  <2>1. PICK to \in Step : GoOn(p, g, to) /\ (to \in Midway => from \in Midway)
    BY <1>2
  <2>2. to \notin Midway \/ step[<<p, g>>] \in Midway
    BY <2>1 DEF Now
  <2> QED
    BY <1>2, <2>1, <2>2, GoOnType, GoOnAlone
<1> QED
  BY <1>1, <1>2

LEMMA BakType ==
    ASSUME JobType, UNCHANGED bak PROVE bak' \in [Pair -> Conf]
BY DEF JobType

LEMMA ElsewhereType ==
    ASSUME GuestTypeOK, Elsewhere,
           live' \in Tree, running' \subseteq {g \in Guest : live'[g] # NoFile}, staged' \in Tree,
           mishap' = mishap \/ BoundType', JobType' /\ OneAtATime'
    PROVE  GuestTypeOK'
<1>1. SyncType' /\ HostType'
  BY Parts DEF Elsewhere, SyncType, HostType, syncVars
<1>2. BoundType'
  BY Parts DEF Elsewhere, BoundType
<1> QED
  BY <1>1, <1>2, Whole

LEMMA FailureBound ==
    ASSUME GuestTypeOK, Elsewhere, NEW c \in BOOLEAN, mishap' = mishap \/ Mishap \/ Fails(c)
    PROVE  mishap' = mishap \/ BoundType'
BY Parts, MishapType, FailsType DEF Elsewhere

LEMMA DeployType ==
    ASSUME GuestTypeOK, NEW p \in Pipe, NEW g \in Guest, DeployStep(p, g)
    PROVE  GuestTypeOK'
<1>0. HostType /\ BoundType /\ JobType /\ OneAtATime /\ SyncType
  BY Parts
<1> USE <1>0 DEF Step, Midway
<1>1. CASE GateCheck(p, g)
  <2>1. JobType' /\ OneAtATime'
    BY <1>1, JobSteps, BakType DEF GateCheck, JobType
  <2>2. mishap' = mishap \/ BoundType'
    BY <1>1, FailureBound DEF GateCheck
  <2> QED
    BY <1>1, <2>1, <2>2, ElsewhereType DEF GateCheck, siteVars, HostType
<1>2. CASE Begin(p, g)
  <2>1. since' \subseteq Pair /\ Now(p, g, "todo")
    BY <1>2 DEF Begin, JobType
  <2>2. \A h \in Guest : step[<<p, h>>] \notin Midway
    BY <1>2 DEF Begin
  <2>3. End(p, "red") \/ (UNCHANGED bak /\ \E to \in Step : GoOn(p, g, to))
    <3>1. Judged(live[g], head[p][g]) \subseteq Step
      BY DEF Judged
    <3>2. \/ End(p, "red")
          \/ /\ UNCHANGED bak
             /\ \E s \in Judged(live[g], head[p][g]) \cup {"failed", "stop"} : GoOn(p, g, s)
      BY <1>2 DEF Begin
    <3> QED
      BY <3>1, <3>2
  <2>4. JobType' /\ OneAtATime'
    <3>1. CASE End(p, "red")
      BY <2>1, <3>1, EndType DEF End, OneAtATime
    <3>2. CASE UNCHANGED bak /\ \E to \in Step : GoOn(p, g, to)
      BY <2>1, <2>2, <3>2, GoOnType, GoOnAlone, BakType
    <3> QED
      BY <2>3, <3>1, <3>2
  <2>5. mishap' = mishap \/ BoundType'
    BY <1>2, FailureBound DEF Begin
  <2> QED
    BY <1>2, <2>4, <2>5, ElsewhereType DEF Begin, siteVars, HostType
<1>3. CASE Backup(p, g)
  <2>1. End(p, "red") \/ (bak' \in [Pair -> Conf] /\ GoOn(p, g, "stop"))
    BY <1>3, Pairs DEF Backup, Set, JobType, HostType
  <2>2. JobType' /\ OneAtATime'
    BY <1>3, <2>1, JobSteps DEF Backup, JobType
  <2> QED
    BY <1>3, <2>2, ElsewhereType DEF Backup, siteVars, HostType
<1>4. CASE Stop(p, g)
  <2>1. since' \subseteq Pair
    BY <1>4, WroteType DEF Stop, JobType
  <2>2. JobType' /\ OneAtATime'
    BY <1>4, <2>1, JobSteps, BakType DEF Stop
  <2>3. mishap' = mishap \/ BoundType'
    BY <1>4, FailureBound DEF Stop
  <2> QED
    BY <1>4, <2>2, <2>3, ElsewhereType DEF Stop, HostType
<1>5. CASE Upload(p, g)
  <2>1. since' \subseteq Pair
    BY <1>5, WroteType DEF Upload
  <2>2. JobType' /\ OneAtATime'
    BY <1>5, <2>1, JobSteps, BakType DEF Upload
  <2>3. mishap' = mishap \/ BoundType'
    BY <1>5, FailureBound DEF Upload
  <2>4. staged' \in Tree
    BY <1>5 DEF Upload, Set, HostType, JobType
  <2> QED
    BY <1>5, <2>2, <2>3, <2>4, ElsewhereType DEF Upload, HostType
<1>6. CASE Replace(p, g)
  <2>1. since' \subseteq Pair
    BY <1>6, WroteType DEF Replace, JobType
  <2>2. JobType' /\ OneAtATime'
    BY <1>6, <2>1, JobSteps, BakType DEF Replace
  <2>3. live' \in Tree /\ running' \subseteq {h \in Guest : live'[h] # NoFile}
    BY <1>6 DEF Replace, Set, HostType
  <2> QED
    BY <1>6, <2>2, <2>3, ElsewhereType DEF Replace, HostType
<1>7. CASE Verify(p, g)
  <2>1. JobType' /\ OneAtATime'
    BY <1>7, JobSteps, BakType DEF Verify, JobType
  <2> QED
    BY <1>7, <2>1, ElsewhereType DEF Verify, siteVars, HostType
<1>8. ASSUME Restored(p, g)
      PROVE  /\ since' \subseteq Pair
             /\ live' \in Tree /\ live'[g] # NoFile
             /\ running \subseteq {h \in Guest : live'[h] # NoFile}
  BY <1>8, Pairs, WroteType DEF Restored, Set, HostType, JobType
<1>9. ASSUME Unrestored(p, g)
      PROVE  /\ since' \subseteq Pair /\ End(p, "red")
             /\ live' \in Tree
             /\ running' \subseteq {h \in Guest : live'[h] # NoFile}
  BY <1>9 DEF Unrestored, HostType, JobType
<1>10. CASE VerifyFails(p, g)
  <2>1. since' \subseteq Pair /\ live' \in Tree /\ running' \subseteq {h \in Guest : live'[h] # NoFile}
    BY <1>8, <1>9, <1>10 DEF VerifyFails
  <2>2. JobType' /\ OneAtATime'
    BY <1>9, <1>10, <2>1, JobSteps, BakType DEF VerifyFails
  <2>3. mishap' = mishap \/ BoundType'
    BY <1>10, FailureBound DEF VerifyFails
  <2> QED
    BY <1>10, <2>1, <2>2, <2>3, ElsewhereType DEF VerifyFails, HostType
<1>11. CASE Start(p, g)
  <2>1. since' \subseteq Pair
    BY <1>11, WroteType DEF Start
  <2>2. JobType' /\ OneAtATime'
    BY <1>11, <2>1, JobSteps, BakType DEF Start
  <2> QED
    BY <1>11, <2>2, ElsewhereType DEF Start, HostType
<1>12. CASE StartFails(p, g)
  <2>1. since' \subseteq Pair /\ live' \in Tree /\ running' \subseteq {h \in Guest : live'[h] # NoFile}
    BY <1>8, <1>9, <1>12 DEF StartFails
  <2>2. JobType' /\ OneAtATime'
    BY <1>9, <1>12, <2>1, JobSteps, BakType DEF StartFails
  <2>3. mishap' = mishap \/ BoundType'
    BY <1>12, FailureBound DEF StartFails
  <2> QED
    BY <1>12, <2>1, <2>2, <2>3, ElsewhereType DEF StartFails, HostType
<1>13. CASE Cleanup(p, g)
  <2>1. since' \subseteq Pair
    BY <1>13, WroteType DEF Cleanup
  <2>2. JobType' /\ OneAtATime'
    BY <1>13, <2>1, JobSteps, BakType DEF Cleanup
  <2>3. staged' \in Tree
    BY <1>13 DEF Cleanup, Set, HostType
  <2> QED
    BY <1>13, <2>2, <2>3, ElsewhereType DEF Cleanup, HostType
<1> QED
  BY <1>1, <1>2, <1>3, <1>4, <1>5, <1>6, <1>7, <1>10, <1>11, <1>12, <1>13 DEF DeployStep

LEMMA SyncEndType ==
    ASSUME NEW status \in 0..2, SyncEnd(status)
    PROVE  SyncType'
<1>1. Empty \in Tree
  BY DEF Empty
<1> QED
  BY <1>1 DEF SyncEnd, SyncType

LEMMA SyncStepType ==
    ASSUME GuestTypeOK, SyncStep
    PROVE  GuestTypeOK'
<1>0. HostType /\ BoundType /\ JobType /\ OneAtATime /\ SyncType
  BY Parts
<1>1. OutsideSync
  BY DEF SyncStep, SyncStart, List, Visit, SyncPush, SyncDie
<1>2. JobType' /\ OneAtATime'
  BY <1>0, <1>1 DEF OutsideSync, JobType, OneAtATime, pipeVars
<1>3. SyncType' /\ main' \in Tree /\ (UNCHANGED mishap \/ Mishap)
  <2>1. CASE SyncStart
    BY <1>0, <2>1 DEF SyncStart, SyncType, HostType
  <2>2. ASSUME NEW b \in Block, List(b)
        PROVE  SyncType' /\ main' \in Tree /\ (UNCHANGED mishap \/ Mishap)
    BY <1>0, <2>2 DEF List, Fails, GitVmids, PveVmids, SyncType, HostType
  <2>3. ASSUME NEW g \in Guest, Visit(g) PROVE SyncType' /\ main' \in Tree /\ UNCHANGED mishap
    <3>1. main' \in Tree /\ UNCHANGED mishap
      BY <1>0, <2>3 DEF Visit, HostType
    <3>2. CASE g \in listed /\ live[g] = NoFile
      BY <2>3, <3>1, <3>2, SyncEndType DEF Visit
    <3>3. CASE ~(g \in listed /\ live[g] = NoFile)
      <4> DEFINE new == IF g \in listed THEN Synced(g) ELSE NoFile
      <4>1. new \in Conf
        BY <1>0 DEF HostType, SyncType, Synced
      <4>2. /\ visit' = visit \ {g}
            /\ tree' = [tree EXCEPT ![g] = new]
            /\ changes' = (changes \/ tree[g] # new)
            /\ UNCHANGED <<sync, moved, blocks, listed, tripped, exit>>
        BY <2>3, <3>3 DEF Visit, Set
      <4> HIDE DEF new
      <4>3. tree' \in Tree /\ changes' \in BOOLEAN /\ visit' \subseteq Guest
        BY <1>0, <4>1, <4>2 DEF SyncType
      <4> QED
        BY <1>0, <3>1, <4>2, <4>3 DEF SyncType
    <3> QED
      BY <3>2, <3>3, <3>1
  <2>4. CASE SyncPush
    <3>1. main' \in Tree /\ UNCHANGED mishap
      BY <1>0, <2>4 DEF SyncPush, HostType, SyncType
    <3>2. SyncEnd(0) \/ SyncEnd(1) \/ SyncEnd(2)
      BY <2>4 DEF SyncPush
    <3> QED
      BY <3>1, <3>2, SyncEndType
  <2>5. CASE SyncDie
    BY <1>0, <2>5, SyncEndType DEF SyncDie, HostType
  <2> QED
    BY <2>1, <2>2, <2>3, <2>4, <2>5 DEF SyncStep
<1>4. HostType'
  BY <1>0, <1>1, <1>3 DEF OutsideSync, HostType, siteVars
<1>5. BoundType'
  BY <1>0, <1>1, <1>3, MishapType DEF OutsideSync, BoundType
<1> QED
  BY <1>2, <1>3, <1>4, <1>5, Whole

(* Every reachable state has the shape GuestTypeOK gives: in particular    *)
(* only guests that exist run, and a pipeline works on one guest at a time.*)
THEOREM GuestTypeCorrect == GuestSpec => []GuestTypeOK
<1>1. GuestTypeOK /\ [GuestNext]_guestVars => GuestTypeOK'
  <2> SUFFICES ASSUME GuestTypeOK, [GuestNext]_guestVars PROVE GuestTypeOK'
    OBVIOUS
  <2>1. CASE GuestNext
    BY <2>1, NextSplits, EditType, PipeType, RetryType, DeployType, SyncStepType
  <2>2. CASE UNCHANGED guestVars
    BY <2>2 DEF guestVars, siteVars, pipeVars, syncVars, GuestTypeOK
  <2> QED
    BY <2>1, <2>2
<1> QED
  BY <1>1, InitType, PTL DEF GuestSpec

-----------------------------------------------------------------------------
(* A guest that is down has a pipeline to blame.                           *)

Blamed  == {"failed", "upload", "replace", "verify", "start"}
Excused == {"gate", "todo", "same", "backup", "stop"}

(* p accounts for g: it has taken it down, or was retried and has not come *)
(* to it or has skipped it.                                                *)
Accounts(p, g) ==
    \/ verdict[p] # "green" /\ step[<<p, g>>] \in Blamed
    \/ /\ tries[p] > 0 /\ step[<<p, g>>] \in Excused
       /\ verdict[p] # "green" \/ step[<<p, g>>] = "same"

NewPipes == \A p \in Pipe, g \in Guest : verdict[p] = "none" => step[<<p, g>>] = "no"

IsTold(g) ==
    live[g] # NoFile /\ g \notin running => \E p \in Pipe : Accounts(p, g)

(* OutageIsTold, without the steps that come before the guest is stopped   *)
(* and after it is started.                                                *)
ToldInv == NewPipes /\ \A g \in Guest \ Off : IsTold(g)

LEMMA ToldSame ==
    ASSUME NEW g \in Guest, IsTold(g),
           live'[g] # NoFile /\ g \notin running' => live[g] # NoFile /\ g \notin running,
           \A p \in Pipe : Accounts(p, g) => Accounts(p, g)'
    PROVE  IsTold(g)'
BY DEF IsTold

(* After its own step with a guest a pipeline is to blame, the guest runs  *)
(* or is gone, or the step has nothing to do with the guest's being down.  *)
LEMMA ToldStep ==
    ASSUME JobType, ToldInv, NEW p \in Pipe, NEW g \in Guest, NEW from \in Step, Now(p, g, from),
           End(p, "red") \/ \E to \in Step : GoOn(p, g, to), tries' = tries,
           \A h \in Guest \ {g} : live'[h] = live[h] /\ (h \in running' <=> h \in running),
           \/ step'[<<p, g>>] \in Blamed
           \/ g \in running'
           \/ live'[g] = NoFile
           \/ /\ live'[g] # NoFile /\ g \notin running' => live[g] # NoFile /\ g \notin running
              /\ from \notin Blamed
              /\ from \in Excused => step'[<<p, g>>] \in Excused \cup Blamed
    PROVE  ToldInv'
<1>1. verdict' \in {verdict, [verdict EXCEPT ![p] = "red"]}
  BY DEF End, GoOn, Set
<1>2. verdict'[p] \in {"run", "red"} /\ \A q \in Pipe \ {p} : verdict'[q] = verdict[q]
  BY <1>1 DEF Now, JobType
<1>3. \A q \in Pipe, h \in Guest : <<q, h>> # <<p, g>> => step'[<<q, h>>] = step[<<q, h>>]
  BY Pairs DEF End, GoOn, Set, JobType
<1>4. NewPipes'
  BY <1>2, <1>3 DEF ToldInv, NewPipes
<1>5. \A q \in Pipe, h \in Guest : <<q, h>> # <<p, g>> /\ Accounts(q, h) => Accounts(q, h)'
  BY <1>2, <1>3 DEF Accounts
<1>6. ASSUME NEW h \in Guest \ Off PROVE IsTold(h)'
  <2>1. CASE h # g
    BY <1>5, <2>1, ToldSame DEF ToldInv
  <2>2. CASE h = g /\ step'[<<p, g>>] \in Blamed
    BY <1>2, <2>2 DEF IsTold, Accounts
  <2>3. CASE h = g /\ (g \in running' \/ live'[g] = NoFile)
    BY <2>3 DEF IsTold
  <2>4. CASE /\ h = g
             /\ live'[g] # NoFile /\ g \notin running' => live[g] # NoFile /\ g \notin running
             /\ from \notin Blamed
             /\ from \in Excused => step'[<<p, g>>] \in Excused \cup Blamed
    <3>1. Accounts(p, g) => Accounts(p, g)'
      BY <1>2, <2>4 DEF Accounts, Now, Excused
    <3> QED
      BY <1>5, <2>4, <3>1, ToldSame DEF ToldInv
  <2> QED
    BY <2>1, <2>2, <2>3, <2>4
<1> QED
  BY <1>4, <1>6 DEF ToldInv

LEMMA Restoring ==
    ASSUME GuestTypeOK, NEW p \in Pipe, NEW g \in Guest, Restored(p, g)
    PROVE  \A h \in Guest \ {g} : live'[h] = live[h]
BY Parts DEF Restored, Set, HostType

LEMMA StepAfter ==
    ASSUME GuestTypeOK, NEW p \in Pipe, NEW g \in Guest
    PROVE  /\ \A to : GoOn(p, g, to) => step'[<<p, g>>] = to
           /\ End(p, "red") => step'[<<p, g>>] = step[<<p, g>>]
BY Parts, Pairs DEF GoOn, End, Set, JobType

LEMMA ToldDeploy ==
    ASSUME GuestTypeOK, ToldInv, NEW p \in Pipe, NEW g \in Guest, DeployStep(p, g)
    PROVE  ToldInv'
<1>0. HostType /\ JobType
  BY Parts
<1> USE <1>0, StepAfter DEF Step, Midway, Blamed, Excused, Elsewhere
<1>1. CASE GateCheck(p, g)
  <2>1. step'[<<p, g>>] \in {"gate", "todo"}
    BY <1>1 DEF GateCheck, Now
  <2> QED
    BY <1>1, <2>1, ToldStep DEF GateCheck, siteVars
<1>2. CASE Begin(p, g)
  <2>1. UNCHANGED siteVars /\ Now(p, g, "todo")
    BY <1>2 DEF Begin
  <2>2. End(p, "red") \/ \E to \in {"same", "stop", "backup", "failed"} : GoOn(p, g, to)
    BY <1>2 DEF Begin, Judged
  <2>3. step'[<<p, g>>] \in {"todo", "same", "stop", "backup", "failed"}
    BY <2>1, <2>2 DEF Now
  <2>4. tries' = tries
    BY <1>2 DEF Begin
  <2> QED
    BY <2>1, <2>2, <2>3, <2>4, ToldStep DEF siteVars
<1>3. CASE Backup(p, g)
  BY <1>3, ToldStep DEF Backup, siteVars
<1>4. CASE Stop(p, g)
  BY <1>4, ToldStep DEF Stop
<1>5. CASE Upload(p, g)
  BY <1>5, ToldStep DEF Upload
<1>6. CASE Replace(p, g)
  <2>1. \A h \in Guest \ {g} : live'[h] = live[h]
    BY <1>6 DEF Replace, Set, HostType
  <2>2. step'[<<p, g>>] \in Blamed
    BY <1>6 DEF Replace, Now
  <2> QED
    BY <1>6, <2>1, <2>2, ToldStep DEF Replace
<1>7. CASE Verify(p, g)
  BY <1>7, ToldStep DEF Verify, siteVars
<1>8. CASE VerifyFails(p, g)
  <2>1. \A h \in Guest \ {g} : live'[h] = live[h]
    BY <1>8, Restoring DEF VerifyFails, Unrestored
  <2>2. step'[<<p, g>>] \in Blamed
    BY <1>8 DEF VerifyFails, Unrestored, Now
  <2> QED
    BY <1>8, <2>1, <2>2, ToldStep DEF VerifyFails, Unrestored
<1>9. CASE Start(p, g)
  BY <1>9, ToldStep DEF Start
<1>10. CASE StartFails(p, g)
  <2>1. \A h \in Guest \ {g} : live'[h] = live[h] /\ (h \in running' <=> h \in running)
    BY <1>10, Restoring DEF StartFails, Unrestored
  <2>2. step'[<<p, g>>] \in Blamed
    BY <1>10 DEF StartFails, Unrestored, Now
  <2> QED
    BY <1>10, <2>1, <2>2, ToldStep DEF StartFails, Unrestored
<1>11. CASE Cleanup(p, g)
  BY <1>11, ToldStep DEF Cleanup
<1> QED
  BY <1>1, <1>2, <1>3, <1>4, <1>5, <1>6, <1>7, <1>8, <1>9, <1>10, <1>11 DEF DeployStep

LEMMA ToldPipe ==
    ASSUME GuestTypeOK, ToldInv, NEW p \in Pipe, PipeStep(p)
    PROVE  ToldInv'
<1>0. HostType /\ JobType
  BY Parts
<1>1. CASE Push(p)
  <2>1. UNCHANGED <<live, running>> /\ verdict' = [verdict EXCEPT ![p] = "run"] /\ verdict[p] = "none"
    BY <1>1 DEF Push, Set, siteVars
  <2>2. \A q \in Pipe \ {p}, h \in Guest : step'[<<q, h>>] = step[<<q, h>>]
    BY <1>1, Pairs DEF Push
  <2>3. \A h \in Guest : ~Accounts(p, h)
    BY <2>1 DEF ToldInv, NewPipes, Accounts, Blamed, Excused
  <2>4. \A q \in Pipe \ {p} : verdict'[q] = verdict[q]
    BY <1>0, <2>1 DEF JobType
  <2>5. NewPipes'
    BY <1>0, <2>1, <2>2, <2>4 DEF ToldInv, NewPipes, JobType
  <2>6. ASSUME NEW h \in Guest \ Off PROVE IsTold(h)'
    <3>1. \A q \in Pipe : Accounts(q, h) => Accounts(q, h)'
      BY <1>1, <2>2, <2>3, <2>4 DEF Push, Accounts
    <3> QED
      BY <2>1, <3>1, ToldSame DEF ToldInv
  <2> QED
    BY <2>5, <2>6 DEF ToldInv
<1>2. CASE Die(p)
  <2>1. /\ UNCHANGED <<live, running, step>> /\ verdict[p] = "run"
        /\ verdict' = [verdict EXCEPT ![p] = "red"]
    BY <1>2 DEF Die, End, Set, siteVars
  <2>2. \A q \in Pipe : verdict'[q] = verdict[q] \/ verdict'[q] = "red"
    BY <1>0, <2>1 DEF JobType
  <2>3. NewPipes'
    BY <2>1, <2>2 DEF ToldInv, NewPipes
  <2>4. ASSUME NEW h \in Guest \ Off PROVE IsTold(h)'
    <3>1. \A q \in Pipe : Accounts(q, h) => Accounts(q, h)'
      BY <1>2, <2>1, <2>2 DEF Die, Elsewhere, Accounts
    <3> QED
      BY <2>1, <3>1, ToldSame DEF ToldInv
  <2> QED
    BY <2>3, <2>4 DEF ToldInv
<1>3. CASE Finish(p)
  <2>1. /\ UNCHANGED <<live, running, step>> /\ verdict[p] = "run"
        /\ \A h \in Guest : step[<<p, h>>] \in {"no", "same", "done", "failed"}
    BY <1>3 DEF Finish, End, siteVars
  <2>2. \A q \in Pipe \ {p} : verdict'[q] = verdict[q]
    BY <1>0, <1>3 DEF Finish, End, Set, JobType
  <2>3. verdict'[p] = IF \E h \in Guest : step[<<p, h>>] = "failed" THEN "red" ELSE "green"
    BY <1>0, <1>3 DEF Finish, End, Set, JobType
  <2>4. \A h \in Guest : step[<<p, h>>] \in Blamed \cup (Excused \ {"same"}) => verdict'[p] = "red"
    BY <2>1, <2>3 DEF Blamed, Excused
  <2>5. NewPipes'
    BY <2>1, <2>2, <2>3 DEF ToldInv, NewPipes
  <2>6. ASSUME NEW h \in Guest \ Off PROVE IsTold(h)'
    <3>1. \A q \in Pipe : Accounts(q, h) => Accounts(q, h)'
      BY <1>3, <2>1, <2>2, <2>4 DEF Finish, Elsewhere, Accounts
    <3> QED
      BY <2>1, <3>1, ToldSame DEF ToldInv
  <2> QED
    BY <2>5, <2>6 DEF ToldInv
<1>4. CASE PushDeletion(p)
  <2>1. /\ UNCHANGED <<live, running, step, tries>> /\ verdict[p] = "none"
        /\ verdict' = [verdict EXCEPT ![p] = "red"]
    BY <1>4 DEF PushDeletion, Set, siteVars
  <2>2. \A q \in Pipe : verdict'[q] = verdict[q] \/ verdict'[q] = "red"
    BY <1>0, <2>1 DEF JobType
  <2>3. NewPipes'
    BY <2>1, <2>2 DEF ToldInv, NewPipes
  <2>4. ASSUME NEW h \in Guest \ Off PROVE IsTold(h)'
    <3>1. \A q \in Pipe : Accounts(q, h) => Accounts(q, h)'
      BY <2>1, <2>2 DEF Accounts
    <3> QED
      BY <2>1, <3>1, ToldSame DEF ToldInv
  <2> QED
    BY <2>3, <2>4 DEF ToldInv
<1> QED
  BY <1>1, <1>2, <1>3, <1>4 DEF PipeStep

LEMMA ToldRetry ==
    ASSUME GuestTypeOK, ToldInv, NEW p \in Pipe, Retry(p)
    PROVE  ToldInv'
<1>0. JobType /\ BoundType
  BY Parts
<1>1. /\ UNCHANGED <<live, running>>
      /\ verdict[p] = "red" /\ verdict' = [verdict EXCEPT ![p] = "run"]
      /\ tries' = [tries EXCEPT ![p] = tries[p] + 1]
  BY DEF Retry, Set, siteVars
<1>2. PICK first \in {"gate", "todo"} :
         step' = [x \in Pair |-> IF x[1] = p /\ step[x] # "no" THEN first ELSE step[x]]
  BY DEF Retry
<1>3. \A q \in Pipe \ {p} : verdict'[q] = verdict[q] /\ tries'[q] = tries[q]
  BY <1>0, <1>1 DEF JobType, BoundType
<1>4. verdict'[p] = "run" /\ tries'[p] > 0
  BY <1>0, <1>1, BoundsOK DEF JobType, BoundType
<1>5. /\ \A q \in Pipe \ {p}, h \in Guest : step'[<<q, h>>] = step[<<q, h>>]
      /\ \A h \in Guest : step[<<p, h>>] # "no" => step'[<<p, h>>] \in {"gate", "todo"}
  BY <1>2, Pairs
<1>6. NewPipes'
  BY <1>3, <1>4, <1>5 DEF ToldInv, NewPipes
<1>7. ASSUME NEW h \in Guest \ Off PROVE IsTold(h)'
  <2>1. \A q \in Pipe : Accounts(q, h) => Accounts(q, h)'
    BY <1>3, <1>4, <1>5 DEF Accounts, Blamed, Excused
  <2> QED
    BY <1>1, <2>1, ToldSame DEF ToldInv
<1> QED
  BY <1>6, <1>7 DEF ToldInv

LEMMA ToldEdit ==
    ASSUME GuestTypeOK, ToldInv, NEW g \in Guest, HandEdit(g)
    PROVE  ToldInv'
<1>0. HostType /\ UNCHANGED <<verdict, step, tries>>
  BY Parts DEF HandEdit, pipeVars
<1>1. NewPipes'
  BY <1>0 DEF ToldInv, NewPipes
<1>2. ASSUME NEW h \in Guest \ Off PROVE IsTold(h)'
  <2>1. live'[h] # NoFile /\ h \notin running' => live[h] # NoFile /\ h \notin running
    BY <1>0, <1>2 DEF HandEdit, Set, HostType
  <2> QED
    BY <1>0, <2>1, ToldSame DEF ToldInv, Accounts
<1> QED
  BY <1>1, <1>2 DEF ToldInv

(* A guest that ought to run is never down without a pipeline that is at   *)
(* work on it, whose verdict is not green or that was retried              *)
(* (OutageIsTold), whatever fails, whoever destroys guests and however     *)
(* many pipelines overlap.                                                 *)
THEOREM OutagesAreTold == GuestSpec => []OutageIsTold
<1>1. GuestInit => ToldInv
  BY Pairs DEF GuestInit, ToldInv, NewPipes, IsTold
<1>2. GuestTypeOK /\ ToldInv /\ [GuestNext]_guestVars => ToldInv'
  <2> SUFFICES ASSUME GuestTypeOK, ToldInv, [GuestNext]_guestVars PROVE ToldInv'
    OBVIOUS
  <2>1. CASE GuestNext
    <3>1. CASE SyncStep
      <4>1. UNCHANGED <<live, running, verdict, step, tries>>
        BY <3>1 DEF SyncStep, SyncStart, List, Visit, SyncPush, SyncDie, OutsideSync, siteVars, pipeVars
      <4> QED
        BY <4>1 DEF ToldInv, NewPipes, IsTold, Accounts
    <3> QED
      BY <2>1, <3>1, NextSplits, ToldEdit, ToldPipe, ToldRetry, ToldDeploy
  <2>2. CASE UNCHANGED guestVars
    BY <2>2 DEF guestVars, siteVars, pipeVars, ToldInv, NewPipes, IsTold, Accounts
  <2> QED
    BY <2>1, <2>2
<1>3. ToldInv => OutageIsTold
  BY DEF ToldInv, IsTold, Accounts, Blamed, Excused, OutageIsTold, Midway
<1> QED
  BY <1>1, <1>2, <1>3, GuestTypeCorrect, PTL DEF GuestSpec

-----------------------------------------------------------------------------
(* What a pipeline knows of a guest.                                       *)

(* Nobody else wrote to the guest after the pipeline read it.              *)
Knows(p, g) == verdict[p] = "run" /\ <<p, g>> \notin since

(* The live settings are those of one of the configurations C.             *)
SettingsIn(g, C) == \E c \in C : Settings(live[g]) = Settings(c)

(* Until the configuration is replaced it is saved, but for a failure, and *)
(* its settings are saved or in the commit's history, but for two; then    *)
(* what is staged, what is live and what runs are the commit's.            *)
SafeFor(p, g) ==
    LET s == step[<<p, g>>]
        known == {NoFile, head[p][g], prev[p][g]}
        saved == {NoFile, bak[<<p, g>>]}
    IN Knows(p, g) =>
         /\ s = "todo" /\ mishap = 0 => SettingsIn(g, known)
         /\ s \in {"stop", "upload", "replace"} =>
              /\ mishap = 0 => live[g] \in saved
              /\ mishap = 1 => SettingsIn(g, known \cup saved)
         /\ s = "replace" => staged[g] = head[p][g]
         /\ s = "same" => Settings(live[g]) = Settings(head[p][g])
         /\ s \in {"verify", "start", "cleanup", "done"} => live[g] = head[p][g]
         /\ s \in {"cleanup", "done"} => g \in running

SafeInv == \A p \in Pipe, g \in Guest : SafeFor(p, g)

LEMMA Undisturbed ==
    ASSUME NEW p \in Pipe, NEW g \in Guest, SafeFor(p, g), mishap \in Nat, mishap' \in Nat,
           mishap <= mishap',
           Knows(p, g)' =>
             /\ Knows(p, g)
             /\ head'[p] = head[p] /\ prev'[p] = prev[p]
             /\ step'[<<p, g>>] = step[<<p, g>>] /\ bak'[<<p, g>>] = bak[<<p, g>>]
             /\ live'[g] = live[g] /\ staged'[g] = staged[g]
             /\ g \in running => g \in running'
    PROVE  SafeFor(p, g)'
BY DEF SafeFor, SettingsIn

LEMMA MishapsGrow ==
    ASSUME GuestTypeOK, mishap' = mishap \/ mishap' = mishap + 1
    PROVE  mishap \in Nat /\ mishap' \in Nat /\ mishap <= mishap'
BY Parts, BoundsOK DEF BoundType

LEMMA MishapNat == GuestTypeOK => mishap \in Nat
BY BoundsOK DEF GuestTypeOK

LEMMA SafeEdit ==
    ASSUME GuestTypeOK, SafeInv, NEW h \in Guest, HandEdit(h)
    PROVE  SafeInv'
<1> SUFFICES ASSUME NEW p \in Pipe, NEW g \in Guest PROVE SafeFor(p, g)'
  BY DEF SafeInv
<1>1. UNCHANGED <<verdict, head, prev, step, bak, staged, mishap>>
  BY DEF HandEdit, pipeVars
<1>2. since \subseteq since' /\ \A q \in Pipe : verdict[q] = "run" => <<q, h>> \in since'
  BY DEF HandEdit, Wrote
<1>3. \A x \in Guest \ {h} : live'[x] = live[x] /\ (x \in running => x \in running')
  BY Parts DEF HandEdit, Set, HostType
<1>4. Knows(p, g)' => Knows(p, g) /\ g # h
  BY <1>1, <1>2 DEF Knows
<1> QED
  BY <1>1, <1>3, <1>4, MishapsGrow, Undisturbed DEF SafeInv

LEMMA SafePipe ==
    ASSUME GuestTypeOK, SafeInv, NEW q \in Pipe, PipeStep(q)
    PROVE  SafeInv'
<1> SUFFICES ASSUME NEW p \in Pipe, NEW g \in Guest PROVE SafeFor(p, g)'
  BY DEF SafeInv
<1>0. JobType
  BY Parts
<1>1. UNCHANGED <<live, running, staged, since>> /\ (mishap' = mishap \/ mishap' = mishap + 1)
  BY DEF PipeStep, Push, PushDeletion, Die, Finish, Mishap, siteVars
<1>2. CASE p = q
  <2>1. CASE Push(q)
    <3>1. step'[<<p, g>>] \in {"gate", "no"}
      BY <1>2, <2>1, Pairs DEF Push
    <3> QED
      BY <3>1 DEF SafeFor
  <2>2. CASE PushDeletion(q) \/ Die(q) \/ Finish(q)
    <3>1. verdict'[q] # "run"
      BY <1>0, <2>2 DEF PushDeletion, Die, Finish, End, Set, JobType
    <3> QED
      BY <1>2, <3>1 DEF SafeFor, Knows
  <2> QED
    BY <2>1, <2>2 DEF PipeStep
<1>3. CASE p # q
  <2>1. /\ verdict'[p] = verdict[p] /\ head'[p] = head[p] /\ prev'[p] = prev[p]
        /\ bak'[<<p, g>>] = bak[<<p, g>>]
    BY <1>0, <1>3, Pairs DEF PipeStep, Push, PushDeletion, Die, Finish, End, Set, JobType
  <2>2. step'[<<p, g>>] = step[<<p, g>>]
    BY <1>3, Pairs DEF PipeStep, Push, PushDeletion, Die, Finish, End
  <2>3. Knows(p, g)' => Knows(p, g)
    BY <1>1, <2>1 DEF Knows
  <2> QED
    BY <1>1, <2>1, <2>2, <2>3, MishapsGrow, Undisturbed DEF SafeInv
<1> QED
  BY <1>2, <1>3

(* A pipeline that is retried knows nothing until it reads again.          *)
LEMMA SafeRetry ==
    ASSUME GuestTypeOK, SafeInv, NEW q \in Pipe, Retry(q)
    PROVE  SafeInv'
<1> SUFFICES ASSUME NEW p \in Pipe, NEW g \in Guest PROVE SafeFor(p, g)'
  BY DEF SafeInv
<1>1. CASE p = q
  <2>1. <<p, g>> \in since'
    BY <1>1 DEF Retry
  <2> QED
    BY <2>1 DEF SafeFor, Knows
<1>2. CASE p # q
  <2>1. /\ UNCHANGED <<live, running, staged, head, prev, bak, mishap>>
        /\ since \subseteq since'
    BY DEF Retry, siteVars
  <2>2. verdict'[p] = verdict[p]
    BY <1>2, Parts DEF Retry, Set, JobType
  <2>3. step'[<<p, g>>] = step[<<p, g>>]
    BY <1>2, Pairs DEF Retry
  <2>4. Knows(p, g)' => Knows(p, g)
    BY <2>1, <2>2 DEF Knows
  <2> QED
    BY <2>1, <2>3, <2>4, MishapsGrow, Undisturbed DEF SafeInv
<1> QED
  BY <1>1, <1>2

(* A pipeline's step with a guest, for the other guests and pipelines.     *)
LEMMA SafeElsewhere ==
    ASSUME GuestTypeOK, SafeInv, NEW q \in Pipe, NEW h \in Guest, verdict[q] = "run",
           \/ End(q, "red")
           \/ /\ \E to : GoOn(q, h, to)
              /\ bak' = bak \/ bak' = [bak EXCEPT ![<<q, h>>] = live[h]],
           mishap' = mishap \/ mishap' = mishap + 1,
           since \ {<<q, h>>} \subseteq since',
           NEW p \in Pipe, NEW g \in Guest, <<p, g>> # <<q, h>>,
           g # h => /\ live'[g] = live[g] /\ staged'[g] = staged[g]
                    /\ g \in running => g \in running',
           \/ UNCHANGED <<live, staged, running>>
           \/ verdict[p] = "run" /\ p # q => <<p, h>> \in since'
    PROVE  SafeFor(p, g)'
<1>0. JobType
  BY Parts
<1>1. CASE End(q, "red") /\ p = q
  <2>1. verdict'[p] # "run"
    BY <1>0, <1>1 DEF End, Set, JobType
  <2> QED
    BY <2>1 DEF SafeFor, Knows
<1>2. CASE ~(End(q, "red") /\ p = q)
  <2>1. /\ Knows(p, g)' => verdict'[p] = verdict[p]
        /\ head'[p] = head[p] /\ prev'[p] = prev[p]
    BY <1>0, <1>2 DEF End, GoOn, Set, JobType
  <2>2. step'[<<p, g>>] = step[<<p, g>>] /\ bak'[<<p, g>>] = bak[<<p, g>>]
    BY <1>0, <1>2, Pairs DEF End, GoOn, Set, JobType
  <2>3. Knows(p, g)' => Knows(p, g)
    BY <2>1 DEF Knows
  <2>4. CASE g # h \/ UNCHANGED <<live, staged, running>>
    BY <2>1, <2>2, <2>3, <2>4, MishapsGrow, Undisturbed DEF SafeInv
  <2>5. CASE g = h /\ (verdict[p] = "run" /\ p # q => <<p, h>> \in since')
    <3>1. verdict[p] = "run" => <<p, g>> \in since'
      BY <1>2, <2>5
    <3>2. ~Knows(p, g)'
      BY <2>1, <3>1 DEF Knows
    <3> QED
      BY <3>2 DEF SafeFor
  <2> QED
    BY <2>4, <2>5
<1> QED
  BY <1>1, <1>2

(* An ended pipeline knows nothing.                                        *)
LEMMA EndedIsSafe ==
    ASSUME JobType, NEW p \in Pipe, NEW g \in Guest, End(p, "red")
    PROVE  SafeFor(p, g)'
<1>1. verdict'[p] # "run"
  BY DEF End, Set, JobType
<1> QED
  BY <1>1 DEF SafeFor, Knows

(* What GoOn does to a pipeline's own pair.                                *)
LEMMA OwnPair ==
    ASSUME JobType, NEW p \in Pipe, NEW g \in Guest
    PROVE  \A to : GoOn(p, g, to) =>
             step'[<<p, g>>] = to /\ UNCHANGED <<verdict, head, prev>>
BY Pairs DEF GoOn, Set, JobType

LEMMA WroteOwn ==
    ASSUME NEW p \in Pipe, NEW g \in Guest, Wrote({p}, g), <<p, g>> \notin since'
    PROVE  <<p, g>> \notin since
BY DEF Wrote

LEMMA SafeBefore ==
    ASSUME GuestTypeOK, SafeInv, NEW p \in Pipe, NEW g \in Guest,
           GateCheck(p, g) \/ Begin(p, g) \/ Backup(p, g)
    PROVE  SafeInv'
<1>0. JobType /\ HostType /\ mishap \in Nat /\ SafeFor(p, g)
  BY Parts, MishapNat DEF SafeInv
<1>1. UNCHANGED <<live, running, staged>> /\ verdict[p] = "run"
  BY DEF GateCheck, Begin, Backup, Now, siteVars
<1>2. (mishap' = mishap \/ mishap' = mishap + 1) /\ since \ {<<p, g>>} \subseteq since'
  BY DEF GateCheck, Begin, Backup, Mishap
<1>3. \/ End(p, "red")
      \/ /\ \E to : GoOn(p, g, to)
         /\ bak' = bak \/ bak' = [bak EXCEPT ![<<p, g>>] = live[g]]
  BY DEF GateCheck, Begin, Backup, Set
<1>4. SafeFor(p, g)'
  <2>1. CASE End(p, "red")
    BY <1>0, <2>1, EndedIsSafe
  <2>2. CASE GateCheck(p, g) /\ ~End(p, "red")
    <3>1. step'[<<p, g>>] = "todo" /\ UNCHANGED <<head, prev>>
      BY <1>0, <2>2, OwnPair DEF GateCheck
    <3>2. mishap' = 0 => SettingsIn(g, {NoFile, head[p][g], prev[p][g]})
      BY <1>0, <2>2 DEF GateCheck, Mishap, SettingsIn
    <3> QED
      BY <1>1, <3>1, <3>2 DEF SafeFor, SettingsIn
  <2>3. CASE Begin(p, g) /\ ~End(p, "red")
    <3>1. UNCHANGED <<head, prev, bak, verdict>> /\ Now(p, g, "todo")
      BY <2>3 DEF Begin, GoOn
    <3>2. CASE step'[<<p, g>>] \in {"failed", "backup"}
      BY <3>2 DEF SafeFor
    <3>3. CASE step'[<<p, g>>] = "same" /\ Settings(live[g]) = Settings(head[p][g])
      BY <1>1, <3>1, <3>3 DEF SafeFor
    <3>4. CASE step'[<<p, g>>] = "stop" /\ live[g] = NoFile
      BY <1>1, <3>1, <3>4 DEF SafeFor, SettingsIn
    <3>5. CASE step'[<<p, g>>] = "stop" /\ Mishap /\ UNCHANGED since
      <4>1. mishap' # 0
        BY <1>0, <3>5 DEF Mishap
      <4>2. Knows(p, g)' /\ mishap' = 1 => SettingsIn(g, {NoFile, head[p][g], prev[p][g]})
        BY <1>0, <3>1, <3>5 DEF SafeFor, Knows, Mishap, Now
      <4> QED
        BY <1>1, <3>1, <3>5, <4>1, <4>2 DEF SafeFor, SettingsIn
    <3>6. CASE \E s \in Judged(live[g], head[p][g]) : GoOn(p, g, s)
      <4>1. PICK s \in Judged(live[g], head[p][g]) : step'[<<p, g>>] = s
        BY <1>0, <3>6, OwnPair
      <4>2. \/ s = "stop" /\ live[g] = NoFile
            \/ s = "same" /\ Settings(live[g]) = Settings(head[p][g])
            \/ s = "backup"
        BY DEF Judged
      <4> QED
        BY <3>2, <3>3, <3>4, <4>1, <4>2
    <3>7. CASE Mishap /\ UNCHANGED since /\ \E s \in {"failed", "stop"} : GoOn(p, g, s)
      BY <1>0, <3>2, <3>5, <3>7, OwnPair
    <3> QED
      BY <2>3, <3>6, <3>7 DEF Begin
  <2>4. CASE Backup(p, g) /\ ~End(p, "red")
    <3>1. step'[<<p, g>>] = "stop" /\ bak'[<<p, g>>] = live[g]
      BY <1>0, <2>4, OwnPair, Pairs DEF Backup, Set, JobType
    <3> QED
      BY <1>1, <3>1 DEF SafeFor, SettingsIn
  <2> QED
    BY <2>1, <2>2, <2>3, <2>4
<1>5. ASSUME NEW q \in Pipe, NEW h \in Guest, <<q, h>> # <<p, g>> PROVE SafeFor(q, h)'
  BY <1>1, <1>2, <1>3, <1>5, SafeElsewhere
<1> QED
  BY <1>4, <1>5 DEF SafeInv

LEMMA SafeReplacing ==
    ASSUME GuestTypeOK, SafeInv, NEW p \in Pipe, NEW g \in Guest,
           Stop(p, g) \/ Upload(p, g) \/ Replace(p, g)
    PROVE  SafeInv'
<1>0. JobType /\ HostType /\ mishap \in Nat /\ SafeFor(p, g)
  BY Parts, MishapNat DEF SafeInv
<1>1. verdict[p] = "run" /\ (mishap' = mishap \/ mishap' = mishap + 1)
  BY DEF Stop, Upload, Replace, Now, Mishap
<1>2. /\ since \subseteq since' /\ since \ {<<p, g>>} \subseteq since'
      /\ (Wrote({p}, g) \/ UNCHANGED <<live, staged, running>>)
  BY DEF Stop, Upload, Replace, Wrote
<1>3. \/ End(p, "red")
      \/ /\ \E to : GoOn(p, g, to)
         /\ bak' = bak \/ bak' = [bak EXCEPT ![<<p, g>>] = live[g]]
  BY DEF Stop, Upload, Replace
<1>4. \A x \in Guest \ {g} : /\ live'[x] = live[x] /\ staged'[x] = staged[x]
                             /\ x \in running => x \in running'
  BY <1>0 DEF Stop, Upload, Replace, Set, HostType
<1>5. SafeFor(p, g)'
  <2>1. CASE End(p, "red")
    BY <1>0, <2>1, EndedIsSafe
  <2>2. CASE step'[<<p, g>>] = "failed"
    BY <2>2 DEF SafeFor
  <2>3. CASE Stop(p, g)
    <3>1. /\ step'[<<p, g>>] = "upload" /\ UNCHANGED <<head, prev, bak, live, verdict>>
          /\ step[<<p, g>>] = "stop"
      BY <1>0, <2>3, OwnPair DEF Stop, Now
    <3>2. Knows(p, g)' => Knows(p, g)
      BY <1>2, <3>1 DEF Knows
    <3> QED
      BY <1>0, <1>1, <3>1, <3>2 DEF SafeFor, SettingsIn
  <2>4. CASE Upload(p, g) /\ step'[<<p, g>>] # "failed"
    <3>1. /\ step'[<<p, g>>] = "replace" /\ UNCHANGED <<head, prev, bak, live, verdict>>
          /\ step[<<p, g>>] = "upload" /\ staged'[g] = head[p][g]
      BY <1>0, <2>4, OwnPair DEF Upload, Now, Set, HostType
    <3>2. Knows(p, g)' => Knows(p, g)
      BY <1>2, <3>1 DEF Knows
    <3> QED
      BY <1>0, <1>1, <3>1, <3>2 DEF SafeFor, SettingsIn
  <2>5. CASE Replace(p, g) /\ step'[<<p, g>>] # "failed" /\ ~End(p, "red")
    <3>1. /\ step'[<<p, g>>] = "verify" /\ UNCHANGED <<head, verdict>>
          /\ step[<<p, g>>] = "replace" /\ live'[g] = staged[g]
      BY <1>0, <2>5, OwnPair DEF Replace, Now, Set, HostType
    <3>2. Knows(p, g)' => Knows(p, g)
      BY <1>2, <3>1 DEF Knows
    <3> QED
      BY <1>0, <3>1, <3>2 DEF SafeFor
  <2> QED
    BY <2>1, <2>2, <2>3, <2>4, <2>5
<1>6. ASSUME NEW q \in Pipe, NEW h \in Guest, <<q, h>> # <<p, g>> PROVE SafeFor(q, h)'
  <2>1. \/ UNCHANGED <<live, staged, running>>
        \/ verdict[q] = "run" /\ q # p => <<q, g>> \in since'
    BY <1>2 DEF Wrote
  <2>2. h # g => /\ live'[h] = live[h] /\ staged'[h] = staged[h]
                 /\ h \in running => h \in running'
    BY <1>4
  <2>3. since \ {<<p, g>>} \subseteq since'
    BY <1>2
  <2> QED
    BY <1>1, <1>3, <1>6, <2>1, <2>2, <2>3, SafeElsewhere
<1> QED
  BY <1>5, <1>6 DEF SafeInv

LEMMA SafeAfter ==
    ASSUME GuestTypeOK, SafeInv, NEW p \in Pipe, NEW g \in Guest,
           Verify(p, g) \/ VerifyFails(p, g) \/ Start(p, g) \/ StartFails(p, g) \/ Cleanup(p, g)
    PROVE  SafeInv'
<1>0. JobType /\ HostType /\ mishap \in Nat /\ SafeFor(p, g)
  BY Parts, MishapNat DEF SafeInv
<1>1. verdict[p] = "run" /\ (mishap' = mishap \/ mishap' = mishap + 1)
  BY DEF Verify, VerifyFails, Start, StartFails, Cleanup, Now, Mishap, Fails
<1>2. /\ since \subseteq since' /\ since \ {<<p, g>>} \subseteq since'
      /\ (Wrote({p}, g) \/ UNCHANGED <<live, staged, running>>)
  BY DEF Verify, VerifyFails, Start, StartFails, Cleanup, Restored, Unrestored, Wrote, siteVars
<1>3. \/ End(p, "red")
      \/ /\ \E to : GoOn(p, g, to)
         /\ bak' = bak \/ bak' = [bak EXCEPT ![<<p, g>>] = live[g]]
  BY DEF Verify, VerifyFails, Start, StartFails, Cleanup, Unrestored
<1>4. \A x \in Guest \ {g} : /\ live'[x] = live[x] /\ staged'[x] = staged[x]
                             /\ x \in running => x \in running'
  BY <1>0 DEF Verify, VerifyFails, Start, StartFails, Cleanup, Restored, Unrestored, Set, HostType,
     siteVars
<1>5. SafeFor(p, g)'
  <2>1. CASE End(p, "red")
    BY <1>0, <2>1, EndedIsSafe
  <2>2. CASE (VerifyFails(p, g) \/ StartFails(p, g)) /\ ~End(p, "red")
    <3>1. step'[<<p, g>>] = "failed"
      BY <1>0, <2>2, OwnPair DEF VerifyFails, StartFails, Unrestored
    <3> QED
      BY <3>1 DEF SafeFor
  <2>3. CASE Verify(p, g) \/ Start(p, g) \/ Cleanup(p, g)
    <3>1. /\ UNCHANGED <<head, verdict, live>> /\ step[<<p, g>>] \in {"verify", "start", "cleanup"}
          /\ step'[<<p, g>>] \in {"start", "cleanup", "done"}
      BY <1>0, <2>3, OwnPair DEF Verify, Start, Cleanup, Now, siteVars
    <3>2. Knows(p, g)' => Knows(p, g)
      BY <1>2, <3>1 DEF Knows
    <3>3. Knows(p, g)' => live'[g] = head'[p][g]
      BY <1>0, <3>1, <3>2 DEF SafeFor
    <3>4. Knows(p, g)' /\ step'[<<p, g>>] \in {"cleanup", "done"} => g \in running'
      <4>1. CASE Verify(p, g)
        BY <1>0, <4>1, OwnPair DEF Verify
      <4>2. CASE Start(p, g)
        BY <4>2 DEF Start
      <4>3. CASE Cleanup(p, g)
        BY <1>0, <3>2, <4>3 DEF Cleanup, Now, SafeFor
      <4> QED
        BY <2>3, <4>1, <4>2, <4>3
    <3> QED
      BY <3>1, <3>3, <3>4 DEF SafeFor
  <2> QED
    BY <2>1, <2>2, <2>3
<1>6. ASSUME NEW q \in Pipe, NEW h \in Guest, <<q, h>> # <<p, g>> PROVE SafeFor(q, h)'
  <2>1. \/ UNCHANGED <<live, staged, running>>
        \/ verdict[q] = "run" /\ q # p => <<q, g>> \in since'
    BY <1>2 DEF Wrote
  <2>2. h # g => /\ live'[h] = live[h] /\ staged'[h] = staged[h]
                 /\ h \in running => h \in running'
    BY <1>4
  <2>3. since \ {<<p, g>>} \subseteq since'
    BY <1>2
  <2> QED
    BY <1>1, <1>3, <1>6, <2>1, <2>2, <2>3, SafeElsewhere
<1> QED
  BY <1>5, <1>6 DEF SafeInv

LEMMA SafeAlways == GuestSpec => [](GuestTypeOK /\ SafeInv)
<1>1. GuestInit => SafeInv
  BY DEF GuestInit, SafeInv, SafeFor, Knows
<1>2. GuestTypeOK /\ SafeInv /\ [GuestNext]_guestVars => SafeInv'
  <2> SUFFICES ASSUME GuestTypeOK, SafeInv, [GuestNext]_guestVars PROVE SafeInv'
    OBVIOUS
  <2>1. CASE GuestNext
    <3>1. CASE SyncStep
      <4>1. UNCHANGED <<siteVars, pipeVars, since>> /\ (mishap' = mishap \/ mishap' = mishap + 1)
        BY <3>1 DEF SyncStep, SyncStart, List, Visit, SyncPush, SyncDie, OutsideSync, Mishap, Fails
      <4> SUFFICES ASSUME NEW p \in Pipe, NEW g \in Guest PROVE SafeFor(p, g)'
        BY DEF SafeInv
      <4> QED
        BY <4>1, MishapsGrow, Undisturbed DEF SafeInv, Knows, siteVars, pipeVars
    <3>2. ASSUME NEW p \in Pipe, NEW g \in Guest, DeployStep(p, g) PROVE SafeInv'
      BY <3>2, SafeBefore, SafeReplacing, SafeAfter DEF DeployStep
    <3> QED
      BY <2>1, <3>1, <3>2, NextSplits, SafeEdit, SafePipe, SafeRetry
  <2>2. CASE UNCHANGED guestVars
    BY <2>2 DEF guestVars, siteVars, pipeVars, SafeInv, SafeFor, SettingsIn, Knows
  <2> QED
    BY <2>1, <2>2
<1> QED
  BY <1>1, <1>2, GuestTypeCorrect, PTL DEF GuestSpec

(* Without a failure the deployment replaces nothing that is not saved;    *)
(* with one, be it of the gate that lets pass what it cannot read or of    *)
(* the reading without which there is no backup, no settings that are      *)
(* neither saved nor in the commit's history (LossNeedsFailures).          *)
THEOREM LossesNeedFailures == GuestSpec => LossNeedsFailures
<1>1. GuestTypeOK /\ SafeInv /\ [GuestNext]_guestVars =>
        [\A p \in Pipe, g \in Guest :
           /\ Now(p, g, "replace")
           /\ live'[g] # live[g]
           /\ step'[<<p, g>>] = "verify"
           /\ <<p, g>> \notin since
           => /\ mishap = 0 => live[g] \in {NoFile, bak[<<p, g>>]}
              /\ mishap = 1 => \E c \in {NoFile, bak[<<p, g>>], head[p][g], prev[p][g]} :
                                 Settings(live[g]) = Settings(c)]_guestVars
  BY DEF SafeInv, SafeFor, SettingsIn, Knows, Now
<1> QED
  BY <1>1, SafeAlways, PTL DEF GuestSpec, LossNeedsFailures

(* A green pipeline has deployed what it says, whatever the other          *)
(* pipelines do to guests it did not touch since (GreenIsDeployed).        *)
THEOREM GreenHasDeployed == GuestSpec => GreenIsDeployed
<1>1. GuestTypeOK /\ SafeInv /\ [GuestNext]_guestVars =>
        [\A p \in Pipe : verdict[p] # "green" /\ verdict'[p] = "green" =>
           \A g \in Guest : <<p, g>> \notin since =>
             /\ step[<<p, g>>] # "no" => Settings(live[g]) = Settings(head[p][g])
             /\ step[<<p, g>>] = "done" => live[g] = head[p][g] /\ g \in running]_guestVars
  <2> SUFFICES ASSUME GuestTypeOK, SafeInv, GuestNext,
                      NEW p \in Pipe, verdict[p] # "green", verdict'[p] = "green",
                      NEW g \in Guest, <<p, g>> \notin since
               PROVE  /\ step[<<p, g>>] # "no" => Settings(live[g]) = Settings(head[p][g])
                      /\ step[<<p, g>>] = "done" => live[g] = head[p][g] /\ g \in running
    OBVIOUS
  <2>0. JobType
    BY Parts
  <2>1. ASSUME NEW h \in Guest, HandEdit(h) PROVE FALSE
    BY <2>1 DEF HandEdit, pipeVars
  <2>2. ASSUME SyncStep PROVE FALSE
    BY <2>2 DEF SyncStep, SyncStart, List, Visit, SyncPush, SyncDie, OutsideSync, pipeVars
  <2>3. ASSUME NEW q \in Pipe, NEW h \in Guest, DeployStep(q, h) PROVE FALSE
    <3>1. verdict' \in {verdict, [verdict EXCEPT ![q] = "red"]}
      BY <2>3 DEF DeployStep, GateCheck, Begin, Backup, Stop, Upload, Replace, Verify, VerifyFails,
         Start, StartFails, Cleanup, Unrestored, End, GoOn, Set
    <3> QED
      BY <2>0, <3>1 DEF JobType
  <2>4. ASSUME NEW q \in Pipe, PipeStep(q)
        PROVE  Finish(p) /\ \A h \in Guest : step[<<p, h>>] # "failed"
    <3>1. ~Push(q) /\ ~PushDeletion(q) /\ ~Die(q)
      BY <2>0 DEF Push, PushDeletion, Die, End, Set, JobType
    <3>2. Finish(q)
      BY <2>4, <3>1 DEF PipeStep
    <3> DEFINE v == IF \E h \in Guest : step[<<q, h>>] = "failed" THEN "red" ELSE "green"
    <3>3. verdict' = [verdict EXCEPT ![q] = v]
      BY <3>2 DEF Finish, End, Set
    <3>4. p = q /\ v = "green"
      <4> HIDE DEF v
      <4> QED
        BY <2>0, <3>3 DEF JobType
    <3> QED
      BY <3>2, <3>4
  <2>5. ASSUME NEW q \in Pipe, Retry(q) PROVE FALSE
    BY <2>0, <2>5 DEF Retry, Set, JobType
  <2>6. Finish(p) /\ \A h \in Guest : step[<<p, h>>] # "failed"
    BY <2>1, <2>2, <2>3, <2>4, <2>5, NextSplits
  <2>7. Knows(p, g) /\ step[<<p, g>>] \in {"no", "same", "done"}
    BY <2>6 DEF Finish, Knows
  <2> QED
    BY <2>7 DEF SafeInv, SafeFor
<1> QED
  BY <1>1, SafeAlways, PTL DEF GuestSpec, GreenIsDeployed

-----------------------------------------------------------------------------
(* The synchronisation deletes few guests.                                 *)

(* The guests of a block that Git loses if nothing else is listed.         *)
Doomed(b) ==
    {g \in Guest : BlockOf[g] = b /\ main[g] # NoFile /\ (tree[g] = NoFile \/ g \in visit \ listed)}

(* As long as the job's work tree is a successor of main and the cap did   *)
(* not trip, no block loses more than the cap allows, and one that has not *)
(* been listed loses nothing.                                              *)
CapInv ==
    /\ sync = "idle" => visit = {}
    /\ sync = "run" /\ ~moved /\ ~tripped =>
         \A b \in Block : /\ Cardinality(Doomed(b)) <= MaxDeletions
                          /\ b \in blocks => Doomed(b) = {}

LEMMA Fewer ==
    ASSUME NEW S, NEW T, S \subseteq T, IsFiniteSet(T), Cardinality(T) <= MaxDeletions
    PROVE  Cardinality(S) <= MaxDeletions
<1>1. Cardinality(S) <= Cardinality(T) /\ IsFiniteSet(S)
  BY FS_Subset
<1>2. Cardinality(S) \in Nat /\ Cardinality(T) \in Nat
  BY <1>1, FS_CardinalityType
<1> QED
  BY <1>1, <1>2, GuestAssumption

LEMMA NoneIsFew == Cardinality({}) <= MaxDeletions
BY FS_EmptySet, GuestAssumption

LEMMA DoomedFinite == \A b : IsFiniteSet(Doomed(b))
<1> TAKE b
<1>1. Doomed(b) \subseteq Guest
  BY DEF Doomed
<1> QED
  BY <1>1, FS_Subset, GuestAssumption

LEMMA CapShrinks ==
    ASSUME CapInv, sync = "run", sync' = "run", moved' = moved, tripped' = tripped,
           blocks' \subseteq blocks, \A b \in Block : Doomed(b)' \subseteq Doomed(b)
    PROVE  CapInv'
<1> SUFFICES ASSUME ~moved, ~tripped, NEW b \in Block
             PROVE  /\ Cardinality(Doomed(b)') <= MaxDeletions
                    /\ b \in blocks' => Doomed(b)' = {}
  BY DEF CapInv
<1>1. /\ Cardinality(Doomed(b)) <= MaxDeletions
      /\ b \in blocks => Doomed(b) = {}
  BY DEF CapInv
<1> QED
  BY <1>1, Fewer, DoomedFinite

LEMMA CapStart ==
    ASSUME GuestTypeOK, CapInv, SyncStart
    PROVE  CapInv'
<1>1. \A b \in Block : Doomed(b)' = {}
  BY DEF SyncStart, CapInv, Doomed
<1> QED
  BY <1>1, NoneIsFew DEF SyncStart, CapInv

LEMMA CapList ==
    ASSUME GuestTypeOK, CapInv, NEW c \in Block, List(c)
    PROVE  CapInv'
<1>0. HostType /\ SyncType
  BY Parts
<1>1. /\ sync = "run" /\ visit = {} /\ c \in blocks /\ blocks' = blocks \ {c}
      /\ UNCHANGED <<main, sync, tree, moved>>
  BY DEF List
<1>2. CASE UNCHANGED <<visit, listed, tripped>>
  <2>1. \A b \in Block : Doomed(b)' = Doomed(b)
    BY <1>1, <1>2 DEF Doomed
  <2> QED
    BY <1>1, <1>2, <2>1, CapShrinks
<1>3. CASE tripped' = TRUE
  BY <1>1, <1>3 DEF CapInv
<1>4. ASSUME NEW pve \in SUBSET PveVmids(c), ~TooMany(c, pve),
             visit' = GitVmids(c) \cup pve, listed' = pve, UNCHANGED tripped
      PROVE  CapInv'
  <2> SUFFICES ASSUME ~moved, ~tripped, NEW b \in Block
               PROVE  /\ Cardinality(Doomed(b)') <= MaxDeletions
                      /\ b \in blocks' => Doomed(b)' = {}
    BY <1>1, <1>4 DEF CapInv
  <2>1. /\ Cardinality(Doomed(b)) <= MaxDeletions
        /\ b \in blocks => Doomed(b) = {}
    BY <1>1 DEF CapInv
  <2>2. CASE b = c
    <3>1. Doomed(b)' \subseteq GitVmids(c) \ pve
      BY <1>1, <1>4, <2>1, <2>2 DEF Doomed, GitVmids
    <3>2. IsFiniteSet(GitVmids(c) \ pve)
      BY FS_Subset, GuestAssumption DEF GitVmids
    <3>3. Cardinality(GitVmids(c) \ pve) <= MaxDeletions
      BY <1>4, <3>2, FS_CardinalityType, GuestAssumption DEF TooMany
    <3> QED
      BY <1>1, <2>2, <3>1, <3>2, <3>3, Fewer
  <2>3. CASE b # c
    <3>1. Doomed(b)' \subseteq Doomed(b)
      BY <1>1, <1>4, <2>3 DEF Doomed, GitVmids, PveVmids
    <3> QED
      BY <1>1, <2>1, <3>1, Fewer, DoomedFinite
  <2> QED
    BY <2>2, <2>3
<1> QED
  BY <1>2, <1>3, <1>4 DEF List

LEMMA CapVisit ==
    ASSUME GuestTypeOK, CapInv, NEW g \in Guest, Visit(g)
    PROVE  CapInv'
<1>0. HostType /\ SyncType
  BY Parts
<1>1. CASE SyncEnd(1)
  BY <1>1 DEF SyncEnd, CapInv
<1>2. CASE ~SyncEnd(1)
  <2>1. /\ g \in visit /\ visit' = visit \ {g}
        /\ sync = "run" /\ UNCHANGED <<sync, moved, blocks, listed, tripped, main>>
    BY <1>2 DEF Visit
  <2>2. /\ g \in listed => tree' = [tree EXCEPT ![g] = Synced(g)] /\ Synced(g) # NoFile
        /\ g \notin listed => tree' = [tree EXCEPT ![g] = NoFile]
    BY <1>2 DEF Visit, Set, Synced
  <2>3. \A b \in Block : Doomed(b)' \subseteq Doomed(b)
    BY <1>0, <2>1, <2>2 DEF Doomed, SyncType
  <2> QED
    BY <2>1, <2>3, CapShrinks
<1> QED
  BY <1>1, <1>2

LEMMA CapStep ==
    ASSUME GuestTypeOK, CapInv, GuestNext
    PROVE  CapInv'
<1>1. ASSUME NEW g \in Guest, HandEdit(g) PROVE CapInv'
  BY <1>1 DEF HandEdit, syncVars, CapInv, Doomed
<1>2. ASSUME NEW p \in Pipe, PipeStep(p) PROVE CapInv'
  <2>1. CASE Push(p) \/ PushDeletion(p)
    <3>1. UNCHANGED <<sync, visit>> /\ moved' = (sync # "idle")
      BY <2>1 DEF Push, PushDeletion
    <3> QED
      BY <3>1, Parts DEF CapInv, SyncType
  <2>2. CASE Die(p) \/ Finish(p)
    BY <2>2 DEF Die, Finish, Elsewhere, syncVars, CapInv, Doomed
  <2> QED
    BY <1>2, <2>1, <2>2 DEF PipeStep
<1>3. ASSUME NEW p \in Pipe, NEW g \in Guest, DeployStep(p, g) PROVE CapInv'
  <2>1. Elsewhere
    BY <1>3 DEF DeployStep, GateCheck, Begin, Backup, Stop, Upload, Replace, Verify, VerifyFails,
       Start, StartFails, Cleanup
  <2> QED
    BY <2>1 DEF Elsewhere, syncVars, CapInv, Doomed
<1>4. CASE SyncStep
  <2>1. CASE SyncPush \/ SyncDie
    BY <2>1 DEF SyncPush, SyncDie, SyncEnd, CapInv
  <2> QED
    BY <1>4, <2>1, CapStart, CapList, CapVisit DEF SyncStep
<1>5. ASSUME NEW p \in Pipe, Retry(p) PROVE CapInv'
  BY <1>5 DEF Retry, syncVars, CapInv, Doomed
<1> QED
  BY <1>1, <1>2, <1>3, <1>4, <1>5, NextSplits

(* No run of the synchronisation takes more than MAX_DELETIONS_PER_RUN     *)
(* guests of a block out of Git, however short the listings are            *)
(* (SyncDeletesFew).                                                       *)
THEOREM FewAreDeleted == GuestSpec => SyncDeletesFew
<1>1. GuestInit => CapInv
  BY DEF GuestInit, CapInv
<1>2. GuestTypeOK /\ CapInv /\ [GuestNext]_guestVars => CapInv'
  <2>1. CASE UNCHANGED guestVars
    BY <2>1 DEF guestVars, syncVars, CapInv, Doomed
  <2> QED
    BY <2>1, CapStep
<1>3. GuestTypeOK /\ CapInv /\ [GuestNext]_guestVars =>
        [sync = "run" /\ sync' = "idle" =>
           \A b \in Block :
             Cardinality({g \in Guest : /\ BlockOf[g] = b
                                        /\ main[g] # NoFile
                                        /\ main'[g] = NoFile}) <= MaxDeletions]_guestVars
  <2> SUFFICES ASSUME GuestTypeOK, CapInv, GuestNext, sync = "run", sync' = "idle", NEW b \in Block
               PROVE  Cardinality({g \in Guest : /\ BlockOf[g] = b
                                                 /\ main[g] # NoFile
                                                 /\ main'[g] = NoFile}) <= MaxDeletions
    OBVIOUS
  <2> DEFINE Lost == {g \in Guest : BlockOf[g] = b /\ main[g] # NoFile /\ main'[g] = NoFile}
  <2>1. CASE \A g \in Guest : main[g] # NoFile => main'[g] # NoFile
    <3>1. Lost = {}
      BY <2>1
    <3> QED
      BY <3>1, NoneIsFew
  <2>2. CASE SyncPush /\ main' # main
    <3>1. sync = "run" /\ ~tripped /\ ~moved /\ main' = tree
      BY <2>2 DEF SyncPush
    <3>2. Cardinality(Doomed(b)) <= MaxDeletions
      BY <3>1 DEF CapInv
    <3>3. Lost \subseteq Doomed(b)
      BY <3>1 DEF Doomed
    <3> QED
      BY <3>2, <3>3, Fewer, DoomedFinite
  <2>3. ASSUME NEW p \in Pipe, PipeStep(p) PROVE FALSE
    BY <2>3 DEF PipeStep, Push, PushDeletion, Die, Finish, Elsewhere, syncVars
  <2>4. ASSUME NEW p \in Pipe, NEW g \in Guest, DeployStep(p, g) PROVE main' = main
    BY <2>4 DEF DeployStep, GateCheck, Begin, Backup, Stop, Upload, Replace, Verify, VerifyFails,
       Start, StartFails, Cleanup, Elsewhere
  <2>5. ASSUME SyncStep PROVE main' = main \/ SyncPush
    BY <2>5 DEF SyncStep, SyncStart, List, Visit, SyncDie
  <2>6. ASSUME NEW g \in Guest, HandEdit(g) PROVE main' = main
    BY <2>6 DEF HandEdit
  <2>7. ASSUME NEW p \in Pipe, Retry(p) PROVE main' = main
    BY <2>7 DEF Retry
  <2> QED
    BY <2>1, <2>2, <2>3, <2>4, <2>5, <2>6, <2>7, NextSplits
<1> QED
  BY <1>1, <1>2, <1>3, GuestTypeCorrect, PTL DEF GuestSpec, SyncDeletesFew

-----------------------------------------------------------------------------
(* The synchronisation implements Mirror, which has no checkout and no     *)
(* work tree.                                                              *)

(* What moves main between two runs does not spoil the next one.           *)
FreshInv == sync = "idle" => ~moved

LEMMA FreshStep ==
    ASSUME GuestTypeOK, FreshInv, [GuestNext]_guestVars
    PROVE  FreshInv'
<1>1. ASSUME UNCHANGED syncVars PROVE FreshInv'
  BY <1>1 DEF syncVars, FreshInv
<1>2. ASSUME NEW p \in Pipe, NEW g \in Guest, DeployStep(p, g) PROVE FreshInv'
  BY <1>1, <1>2 DEF DeployStep, GateCheck, Begin, Backup, Stop, Upload, Replace, Verify,
     VerifyFails, Start, StartFails, Cleanup, Elsewhere
<1>3. ASSUME NEW p \in Pipe, PipeStep(p) PROVE FreshInv'
  BY <1>1, <1>3 DEF PipeStep, Push, PushDeletion, Die, Finish, Elsewhere, FreshInv
<1>4. CASE SyncStep
  BY <1>4 DEF SyncStep, SyncStart, List, Visit, SyncPush, SyncDie, SyncEnd, FreshInv
<1>5. ASSUME (\E g \in Guest : HandEdit(g)) \/ (\E p \in Pipe : Retry(p)) PROVE FreshInv'
  BY <1>1, <1>5 DEF HandEdit, Retry
<1>6. CASE UNCHANGED guestVars
  BY <1>1, <1>6 DEF guestVars
<1> QED
  BY <1>2, <1>3, <1>4, <1>5, <1>6, NextSplits

(* Nothing is staged unless a run is on that main has not overtaken.       *)
LEMMA NothingStaged ==
    /\ MirRun # "on" => MirStaged = Mir!Nothing
    /\ MirRun' # "on" => MirStaged' = Mir!Nothing
BY DEF MirStaged, Mir!Nothing

LEMMA MirrorInitial == GuestInit => Mir!MirrorInit
BY NothingStaged DEF GuestInit, Mir!MirrorInit, MirRun

(* Where main and the job stand still, the hosts may change.               *)
LEMMA MirrorChange ==
    ASSUME UNCHANGED <<main, syncVars>>
    PROVE  [Mir!MirrorNext]_(Mir!mirrorVars)
<1>1. Mir!Change
  BY DEF Mir!Change, syncVars, MirRun, MirStaged
<1> QED
  BY <1>1 DEF Mir!MirrorNext

(* A commit spoils the run that it meets.                                  *)
LEMMA MirrorOthers ==
    ASSUME GuestTypeOK, FreshInv, NEW p \in Pipe, Push(p) \/ PushDeletion(p)
    PROVE  [Mir!MirrorNext]_(Mir!mirrorVars)
<1>1. UNCHANGED <<live, sync>> /\ moved' = (sync # "idle")
  BY DEF Push, PushDeletion, siteVars
<1>2. MirRun' # "on" /\ (MirRun = "on" => MirRun' = "void") /\ (MirRun # "on" => MirRun' = MirRun)
  BY <1>1 DEF MirRun, FreshInv
<1>3. Mir!Others
  BY <1>1, <1>2, NothingStaged DEF Mir!Others
<1> QED
  BY <1>3 DEF Mir!MirrorNext

LEMMA MirrorGivesUp ==
    ASSUME sync = "run", NEW status, SyncEnd(status), UNCHANGED <<main, live>>
    PROVE  [Mir!MirrorNext]_(Mir!mirrorVars)
<1>1. MirRun # "idle" /\ MirRun' = "idle"
  BY DEF SyncEnd, MirRun
<1>2. Mir!GiveUp
  BY <1>1, NothingStaged DEF Mir!GiveUp
<1> QED
  BY <1>2 DEF Mir!MirrorNext

LEMMA MirrorBegins ==
    ASSUME FreshInv, SyncStart
    PROVE  [Mir!MirrorNext]_(Mir!mirrorVars)
<1>1. MirRun = "idle" /\ MirRun' = "on" /\ UNCHANGED <<main, live>>
  BY DEF SyncStart, MirRun, FreshInv, OutsideSync, siteVars
<1>2. \A g \in Guest : tree'[g] = main'[g]
  BY DEF SyncStart
<1>3. MirStaged' = Mir!Nothing
  BY <1>2 DEF MirStaged, Mir!Nothing
<1>4. Mir!Begin
  BY <1>1, <1>3, NothingStaged DEF Mir!Begin
<1> QED
  BY <1>4 DEF Mir!MirrorNext

(* A guest's file in the work tree becomes what the host has, or goes.     *)
LEMMA MirrorVisit ==
    ASSUME GuestTypeOK, NEW g \in Guest, Visit(g)
    PROVE  [Mir!MirrorNext]_(Mir!mirrorVars)
<1> DEFINE new == IF g \in listed THEN Synced(g) ELSE NoFile
<1>1. sync = "run" /\ UNCHANGED <<main, live>>
  BY DEF Visit, OutsideSync, siteVars
<1>2. CASE SyncEnd(1)
  BY <1>1, <1>2, MirrorGivesUp
<1>3. CASE ~SyncEnd(1)
  <2>1. tree' = [tree EXCEPT ![g] = new] /\ UNCHANGED <<sync, moved>>
    BY <1>3 DEF Visit, Set
  <2>2. UNCHANGED MirRun
    BY <2>1 DEF MirRun
  <2>3. CASE MirRun # "on"
    BY <1>1, <2>2, <2>3, NothingStaged DEF Mir!mirrorVars
  <2>4. CASE MirRun = "on"
    <3>1. tree'[g] = new /\ \A h \in Guest \ {g} : tree'[h] = tree[h]
      BY <2>1, Parts DEF SyncType
    <3> HIDE DEF new
    <3>2. ASSUME new # main[g] PROVE Mir!Stage(g, new)
      <4>1. MirStaged' = [h \in DOMAIN MirStaged \cup {g} |->
                            IF h = g THEN new ELSE MirStaged[h]]
        BY <1>1, <2>2, <2>4, <3>1, <3>2 DEF MirStaged
      <4> QED
        BY <1>1, <2>2, <2>4, <4>1 DEF Mir!Stage
    <3>3. ASSUME new = main[g] PROVE Mir!Stage(g, new)
      <4>1. MirStaged' = [h \in DOMAIN MirStaged \ {g} |-> MirStaged[h]]
        BY <1>1, <2>2, <2>4, <3>1, <3>3 DEF MirStaged
      <4> QED
        BY <1>1, <2>2, <2>4, <3>3, <4>1 DEF Mir!Stage
    <3>4. Mir!Stage(g, new)
      BY <3>2, <3>3
    <3>5. CASE g \in listed
      <4>1. new = live[g] \/ new = tree[g]
        BY <3>5 DEF Synced, new
      <4>2. CASE new = live[g]
        <5>1. Mir!Take(g)
          BY <3>4, <4>2 DEF Mir!Take
        <5> QED
          BY <5>1 DEF Mir!MirrorNext
      <4>3. CASE new = tree[g]
        <5>1. tree' = tree
          BY <2>1, <4>3, Parts DEF SyncType, new
        <5> QED
          BY <1>1, <2>1, <2>2, <5>1 DEF Mir!mirrorVars, MirStaged
      <4> QED
        BY <4>1, <4>2, <4>3
    <3>6. CASE g \notin listed
      <4>1. BlockOf[g] \in Block
        BY GuestAssumption
      <4>2. g \in UNION {{h \in Guest : BlockOf[h] = b} : b \in Block}
        BY <4>1
      <4>3. Mir!Drop(g)
        BY <3>4, <3>6, <4>2 DEF Mir!Drop, new
      <4> QED
        BY <4>3 DEF Mir!MirrorNext
    <3> QED
      BY <3>5, <3>6
  <2> QED
    BY <2>3, <2>4
<1> QED
  BY <1>2, <1>3

(* The push puts the work tree in the place of main, which it still        *)
(* succeeds: what changes is what was staged, and few files go.            *)
LEMMA MirrorPublishes ==
    ASSUME GuestTypeOK, CapInv, SyncPush, main' # main
    PROVE  [Mir!MirrorNext]_(Mir!mirrorVars)
<1>1. sync = "run" /\ ~tripped /\ ~moved /\ main' = tree /\ UNCHANGED live
  BY DEF SyncPush, OutsideSync, siteVars
<1>2. MirRun = "on" /\ MirRun' = "idle" /\ MirStaged' = Mir!Nothing
  BY <1>1, NothingStaged DEF SyncPush, SyncEnd, MirRun
<1>3. /\ DOMAIN MirStaged = {g \in Guest : tree[g] # main[g]}
      /\ \A g \in DOMAIN MirStaged : MirStaged[g] = tree[g]
  BY <1>2 DEF MirStaged
<1>4. main' = [g \in Guest |-> IF g \in DOMAIN MirStaged THEN MirStaged[g] ELSE main[g]]
  <2>1. tree = [g \in Guest |-> tree[g]]
    BY Parts DEF SyncType
  <2> QED
    BY <1>1, <1>3, <2>1
<1>5. ASSUME NEW b \in Block
      PROVE  Cardinality(Mir!Dropped({g \in Guest : BlockOf[g] = b})) <= MaxDeletions
  <2>1. Mir!Dropped({g \in Guest : BlockOf[g] = b}) \subseteq Doomed(b)
    BY <1>3 DEF Mir!Dropped, Doomed
  <2>2. Cardinality(Doomed(b)) <= MaxDeletions
    BY <1>1 DEF CapInv
  <2> QED
    BY <2>1, <2>2, Fewer, DoomedFinite
<1>6. \A S : Mir!Cardinality(S) = Cardinality(S)
  BY DEF Mir!Cardinality, Cardinality
<1>7. Mir!Publish
  BY <1>1, <1>2, <1>4, <1>5, <1>6 DEF Mir!Publish
<1> QED
  BY <1>7 DEF Mir!MirrorNext

LEMMA MirrorSync ==
    ASSUME GuestTypeOK, CapInv, FreshInv, SyncStep
    PROVE  [Mir!MirrorNext]_(Mir!mirrorVars)
<1>0. UNCHANGED live
  BY DEF SyncStep, SyncStart, List, Visit, SyncPush, SyncDie, OutsideSync, siteVars
<1>1. ASSUME NEW b \in Block, List(b) PROVE [Mir!MirrorNext]_(Mir!mirrorVars)
  BY <1>0, <1>1 DEF List, Mir!mirrorVars, MirRun, MirStaged
<1>2. ASSUME SyncPush, main' = main PROVE [Mir!MirrorNext]_(Mir!mirrorVars)
  BY <1>0, <1>2, MirrorGivesUp DEF SyncPush
<1>3. ASSUME SyncDie PROVE [Mir!MirrorNext]_(Mir!mirrorVars)
  BY <1>0, <1>3, MirrorGivesUp DEF SyncDie
<1> QED
  BY <1>1, <1>2, <1>3, MirrorBegins, MirrorVisit, MirrorPublishes DEF SyncStep

LEMMA MirrorStep ==
    ASSUME GuestTypeOK, CapInv, FreshInv, [GuestNext]_guestVars
    PROVE  [Mir!MirrorNext]_(Mir!mirrorVars)
<1>1. ASSUME NEW g \in Guest, HandEdit(g) PROVE [Mir!MirrorNext]_(Mir!mirrorVars)
  BY <1>1, MirrorChange DEF HandEdit
<1>2. ASSUME NEW p \in Pipe, PipeStep(p) PROVE [Mir!MirrorNext]_(Mir!mirrorVars)
  <2>1. CASE Die(p) \/ Finish(p)
    BY <2>1, MirrorChange DEF Die, Finish, Elsewhere
  <2> QED
    BY <1>2, <2>1, MirrorOthers DEF PipeStep
<1>3. ASSUME NEW p \in Pipe, NEW g \in Guest, DeployStep(p, g)
      PROVE  [Mir!MirrorNext]_(Mir!mirrorVars)
  BY <1>3, MirrorChange DEF DeployStep, GateCheck, Begin, Backup, Stop, Upload, Replace, Verify,
     VerifyFails, Start, StartFails, Cleanup, Elsewhere
<1>4. ASSUME NEW p \in Pipe, Retry(p) PROVE [Mir!MirrorNext]_(Mir!mirrorVars)
  BY <1>4, MirrorChange DEF Retry
<1>5. CASE UNCHANGED guestVars
  BY <1>5, MirrorChange DEF guestVars
<1> QED
  BY <1>1, <1>2, <1>3, <1>4, <1>5, MirrorSync, NextSplits

LEMMA CapAlways == GuestSpec => [](GuestTypeOK /\ CapInv)
<1>1. GuestInit => CapInv
  BY DEF GuestInit, CapInv
<1>2. GuestTypeOK /\ CapInv /\ [GuestNext]_guestVars => CapInv'
  <2>1. CASE UNCHANGED guestVars
    BY <2>1 DEF guestVars, syncVars, CapInv, Doomed
  <2> QED
    BY <2>1, CapStep
<1> QED
  BY <1>1, <1>2, GuestTypeCorrect, PTL DEF GuestSpec

(* Crossed by any number of commits, deployments, edits and failed         *)
(* requests, the synchronisation edits files of main in place, each to a   *)
(* configuration its guest had, and drops few: it implements Mirror.       *)
THEOREM HostsAreMirrored == GuestSpec => MirrorsHosts
<1>1. GuestInit => FreshInv
  BY DEF GuestInit, FreshInv
<1>2. GuestTypeOK /\ CapInv /\ FreshInv /\ [GuestNext]_guestVars =>
        FreshInv' /\ [Mir!MirrorNext]_(Mir!mirrorVars)
  BY FreshStep, MirrorStep
<1> QED
  BY <1>1, <1>2, MirrorInitial, CapAlways, PTL
  DEF GuestSpec, MirrorsHosts, Mir!MirrorSpec
=============================================================================
