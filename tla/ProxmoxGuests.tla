---------------------------- MODULE ProxmoxGuests ---------------------------
(***************************************************************************)
(* The configurations of the guests of the Proxmox hosts, in Git and on    *)
(* the hosts: the pipelines that deploy a commit (ci/lxc.yml, the same     *)
(* jobs for virtual machines in ci/qemu.yml, proxmox/scripts/              *)
(* pve_drift_gate.sh) and the scheduled job that brings Git up to date     *)
(* with the hosts (proxmox/scripts/pve_sync_drift.sh).                     *)
(*                                                                         *)
(* Nothing keeps two pipelines, the scheduled job and administrators apart:*)
(* each action below is one request to a host or to GitLab.  A command     *)
(* that fails under `set -e' ends the job where it stands (Die); the       *)
(* failures the scripts handle are parts of the actions they strike.       *)
(*                                                                         *)
(* GateLetsPass, BeginAtOnce, StartFailsUntold, TooManyNever,              *)
(* VisitKeepsGone and SyncPushForced have a defect and are no part of      *)
(* GuestNext: exchanged for the definitions they stand in front of, they   *)
(* show that the properties notice.                                        *)
(***************************************************************************)
EXTENDS Naturals, FiniteSets

CONSTANTS
    Guest,          \* containers and virtual machines
    Off,            \* guests that are kept switched off
    Block,          \* a host's containers, or its virtual machines
    BlockOf,        \* the block of each guest
    Pipe,           \* pipelines that commits start
    MaxDeletions,   \* MAX_DELETIONS_PER_RUN, which the script applies to a block
    Bounds          \* bounds: what one behaviour may hold, in each combination

ASSUME GuestAssumption ==
    /\ Off \subseteq Guest
    /\ BlockOf \in [Guest -> Block]
    /\ IsFiniteSet(Guest)
    /\ IsFiniteSet(Pipe)
    /\ MaxDeletions \in Nat
    /\ Bounds \subseteq [edit : Nat,              \* administrators' changes
                        mishap : Nat,            \* failed requests, killed jobs
                        tries : Nat,             \* retries of each pipeline
                        pipes : SUBSET Pipe,     \* commits, and
                        files : SUBSET Guest]    \* the files they may change

(* A configuration has two parts, both numbered as they appear: the        *)
(* settings, which normalize_pve_config keeps, and the rest it drops: the  *)
(* [pve:pending] and [snapshot-...] sections, lock, parent, comments.      *)
NoFile == <<0, 0>>
Conf   == Nat \X Nat
Tree   == [Guest -> Conf]

Settings(c) == c[1]
Rest(c)     == c[2]

Pair == Pipe \X Guest

VARIABLES
    live,       \* /etc/pve: the configuration of each guest
    running,    \* guests that run
    staged,     \* the guest's file in the host's staging directory
    main,       \* origin/main
    newest,     \* the newest part of a configuration
    bound,      \* the combination of bounds
    edit,       \* administrators' changes so far
    mishap,     \* mishaps so far
    verdict,    \* status of each pipeline
    head,       \* its commit
    prev,       \* the parent of its commit
    step,       \* where it is with each guest
    bak,        \* the backup it made of each guest's configuration
    since,      \* pairs whose guest others wrote to since the pipeline read it
    tries,      \* how often each pipeline was retried
    sync,       \* where the scheduled job is
    tree,       \* its work tree
    moved,      \* main moved since the job checked it out
    blocks,     \* blocks it has still to look at
    visit,      \* guests of the present block still to be compared
    listed,     \* guests the host listed
    tripped,    \* CAP_TRIPPED
    changes,    \* CHANGES_MADE
    exit        \* status of its last run

siteVars  == <<live, running, staged>>
pipeVars  == <<verdict, head, prev, step, bak>>
syncVars  == <<sync, tree, moved, blocks, visit, listed, tripped, changes>>
guestVars == <<siteVars, main, newest, bound, edit, mishap, pipeVars, since, tries, syncVars,
               exit>>

(* What the deployment does with one guest, in this order.                 *)
Midway == {"backup", "stop", "upload", "replace", "verify", "start", "cleanup"}
Step   == {"no", "gate", "todo", "same", "done", "failed"} \cup Midway

(* The shape of the state: only guests that exist run, and a pipeline      *)
(* works on one guest at a time.                                           *)
GuestTypeOK ==
    /\ live \in Tree
    /\ running \subseteq {g \in Guest : live[g] # NoFile}
    /\ staged \in Tree
    /\ main \in Tree
    /\ newest \in Nat
    /\ bound \in Bounds
    /\ edit \in 0..bound.edit
    /\ mishap \in 0..bound.mishap
    /\ verdict \in [Pipe -> {"none", "run", "green", "red"}]
    /\ head \in [Pipe -> Tree]
    /\ prev \in [Pipe -> Tree]
    /\ step \in [Pair -> Step]
    /\ \A p \in Pipe, g, h \in Guest :
         step[<<p, g>>] \in Midway /\ step[<<p, h>>] \in Midway => g = h
    /\ bak \in [Pair -> Conf]
    /\ since \subseteq Pair
    /\ tries \in [Pipe -> 0..bound.tries]
    /\ sync \in {"idle", "run"}
    /\ tree \in Tree
    /\ moved \in BOOLEAN
    /\ blocks \subseteq Block
    /\ visit \subseteq Guest
    /\ listed \subseteq Guest
    /\ tripped \in BOOLEAN
    /\ changes \in BOOLEAN
    /\ exit \in 0..2

Empty == [g \in Guest |-> NoFile]

GuestInit ==
    /\ live = [g \in Guest |-> <<1, 1>>]
    /\ running = Guest \ Off
    /\ staged = Empty
    /\ main = live
    /\ newest = 1
    /\ bound \in Bounds
    /\ edit = 0
    /\ mishap = 0
    /\ verdict = [p \in Pipe |-> "none"]
    /\ head = [p \in Pipe |-> Empty]
    /\ prev = [p \in Pipe |-> Empty]
    /\ step = [x \in Pair |-> "no"]
    /\ bak = [x \in Pair |-> NoFile]
    /\ since = {}
    /\ tries = [p \in Pipe |-> 0]
    /\ sync = "idle"
    /\ tree = Empty
    /\ moved = FALSE
    /\ blocks = {}
    /\ visit = {}
    /\ listed = {}
    /\ tripped = FALSE
    /\ changes = FALSE
    /\ exit = 0

Mishap == mishap < bound.mishap /\ mishap' = mishap + 1

(* A request that fails because of the state it meets, or by itself.       *)
Fails(cause) == (cause /\ UNCHANGED mishap) \/ (~cause /\ Mishap)

Set(f, x, v) == f' = [f EXCEPT ![x] = v]

-----------------------------------------------------------------------------
(***************************************************************************)
(* Administrators.                                                         *)
(***************************************************************************)

(* Whoever writes, the pipelines at work know an older state.              *)
Wrote(who, g) == since' = since \cup ({p \in Pipe : verdict[p] = "run"} \ who) \X {g}

(* An administrator changes, creates or destroys a guest on its host, or   *)
(* takes a snapshot of it.                                                 *)
HandEdit(g) ==
    /\ edit < bound.edit
    /\ edit' = edit + 1
    /\ \/ /\ newest' = newest + 1
          /\ Set(live, g, <<newest', Rest(live[g])>>)
          /\ running' = IF live[g] = NoFile /\ g \notin Off THEN running \cup {g} ELSE running
       \/ /\ live[g] # NoFile
          /\ newest' = newest + 1
          /\ Set(live, g, <<Settings(live[g]), newest'>>)
          /\ UNCHANGED running
       \/ /\ live[g] # NoFile
          /\ Set(live, g, NoFile)
          /\ running' = running \ {g}
          /\ UNCHANGED newest
    /\ Wrote({}, g)
    /\ UNCHANGED <<staged, main, bound, mishap, pipeVars, tries, syncVars, exit>>

(* A commit to some guests' files, with its pipeline.                      *)
Push(p) ==
    /\ p \in bound.pipes
    /\ verdict[p] = "none"
    /\ Set(verdict, p, "run")
    /\ newest' = newest + 1
    /\ \E C \in SUBSET bound.files :
         /\ C # {}
         /\ main' = [g \in Guest |-> IF g \in C THEN <<newest', Rest(main[g])>> ELSE main[g]]
         /\ step' = [x \in Pair |->
              IF x[1] = p THEN (IF x[2] \in C THEN "gate" ELSE "no") ELSE step[x]]
    /\ Set(head, p, main')
    /\ Set(prev, p, main)
    /\ moved' = (sync # "idle")
    /\ UNCHANGED <<siteVars, bound, edit, mishap, bak, since, tries, sync, tree, blocks, visit,
                   listed, tripped, changes, exit>>

(* A commit that deletes files: its pipeline ends with the validation,     *)
(* which does not find them, and deploys nothing.                          *)
PushDeletion(p) ==
    /\ p \in bound.pipes
    /\ verdict[p] = "none"
    /\ Set(verdict, p, "red")
    /\ \E D \in SUBSET {g \in bound.files : main[g] # NoFile} :
         /\ D # {}
         /\ main' = [g \in Guest |-> IF g \in D THEN NoFile ELSE main[g]]
    /\ moved' = (sync # "idle")
    /\ UNCHANGED <<siteVars, newest, bound, edit, mishap, head, prev, step, bak, since, tries,
                   sync, tree, blocks, visit, listed, tripped, changes, exit>>

-----------------------------------------------------------------------------
(***************************************************************************)
(* The pipeline of a commit.                                               *)
(***************************************************************************)
Now(p, g, s) == verdict[p] = "run" /\ step[<<p, g>>] = s

GoOn(p, g, s) == Set(step, <<p, g>>, s) /\ UNCHANGED <<verdict, head, prev>>

(* The backups of an ended pipeline matter no more, nor does the commit of *)
(* one that cannot be retried.                                             *)
End(p, v) ==
    /\ Set(verdict, p, v)
    /\ Set(head, p, IF v = "green" THEN Empty ELSE head[p])
    /\ Set(prev, p, IF v = "green" THEN Empty ELSE prev[p])
    /\ bak' = [x \in Pair |-> IF x[1] = p THEN NoFile ELSE bak[x]]
    /\ UNCHANGED step

Elsewhere == UNCHANGED <<main, newest, bound, edit, tries, syncVars, exit>>

(* A request fails that the job does not survive, or the runner dies.      *)
Die(p) ==
    /\ Mishap
    /\ verdict[p] = "run"
    /\ End(p, "red")
    /\ Elsewhere
    /\ UNCHANGED <<siteVars, since>>

(* Somebody presses the button of the job that failed: the gate, or, if    *)
(* all guests had passed it, the deployment, which the gate does not check *)
(* again.  Either starts over, with the same commit and no backup.  (The   *)
(* validation of a deletion can only fail again.)                          *)
Retry(p) ==
    /\ verdict[p] = "red"
    /\ \E g \in Guest : step[<<p, g>>] # "no"
    /\ tries[p] < bound.tries
    /\ Set(tries, p, tries[p] + 1)
    /\ Set(verdict, p, "run")
    /\ LET first == IF \E g \in Guest : step[<<p, g>>] = "gate" THEN "gate" ELSE "todo"
       IN step' = [x \in Pair |-> IF x[1] = p /\ step[x] # "no" THEN first ELSE step[x]]
    /\ since' = since \cup {p} \X Guest
    /\ UNCHANGED <<siteVars, main, newest, bound, edit, mishap, head, prev, bak, syncVars, exit>>

GateLetsPass(p, g) ==
    /\ Now(p, g, "gate")
    /\ since' = since \ {<<p, g>>}
    /\ GoOn(p, g, "todo") /\ UNCHANGED bak
    /\ Elsewhere
    /\ UNCHANGED <<siteVars, mishap>>

(* pve_drift_gate.sh: there is no live configuration, or its settings are  *)
(* the commit's or its parent's.  A host that does not answer has none,    *)
(* for the script.                                                         *)
GateCheck(p, g) ==
    /\ Now(p, g, "gate")
    /\ \/ /\ since' = since \ {<<p, g>>}
          /\ IF \E c \in {NoFile, head[p][g], prev[p][g]} : Settings(live[g]) = Settings(c)
               THEN GoOn(p, g, "todo") /\ UNCHANGED bak
               ELSE End(p, "red")
          /\ UNCHANGED mishap
       \/ /\ Mishap
          /\ GoOn(p, g, "todo")
          /\ UNCHANGED <<bak, since>>
    /\ Elsewhere
    /\ UNCHANGED siteVars

(* The job's own comparison drops comments, blank lines and the headers of *)
(* sections, so of the rest some is compared and some is not.              *)
Judged(old, new) ==
    IF old = NoFile THEN {"stop"}
      ELSE {s \in {"same", "backup"} : /\ s = "same" => Settings(old) = Settings(new)
                                       /\ s = "backup" => old # new}

BeginAtOnce(p, g) ==
    /\ Now(p, g, "todo")
    /\ since' = since \ {<<p, g>>}
    /\ \E s \in Judged(live[g], head[p][g]) : GoOn(p, g, s)
    /\ Elsewhere
    /\ UNCHANGED <<siteVars, bak, mishap>>

(* The next guest: skipped if it has the configuration already, given up   *)
(* for now if its host does not answer.  One without a configuration, or   *)
(* whose configuration could not be read, is new and needs no backup;      *)
(* where the runner sets pipefail, the empty comparison ends the job.      *)
Begin(p, g) ==
    /\ Now(p, g, "todo")
    /\ \A x \in Guest : step[<<p, x>>] \notin Midway \cup {"gate"}
    /\ \/ /\ since' = since \ {<<p, g>>}
          /\ \E s \in Judged(live[g], head[p][g]) : GoOn(p, g, s)
          /\ UNCHANGED <<bak, mishap>>
       \/ live[g] = NoFile /\ End(p, "red") /\ UNCHANGED <<since, mishap>>
       \/ /\ Mishap
          /\ \E s \in {"failed", "stop"} : GoOn(p, g, s)
          /\ UNCHANGED <<bak, since>>
    /\ Elsewhere
    /\ UNCHANGED siteVars

Backup(p, g) ==
    /\ Now(p, g, "backup")
    /\ since' = since \ {<<p, g>>}
    /\ IF live[g] # NoFile
         THEN GoOn(p, g, "stop") /\ Set(bak, <<p, g>>, live[g])
         ELSE End(p, "red")
    /\ Elsewhere
    /\ UNCHANGED <<siteVars, mishap>>

(* A running guest is shut down; one whose status cannot be read is taken  *)
(* for stopped.                                                            *)
Stop(p, g) ==
    /\ Now(p, g, "stop")
    /\ GoOn(p, g, "upload")
    /\ \/ running' = running \ {g} /\ Wrote({p}, g) /\ UNCHANGED mishap
       \/ Mishap /\ UNCHANGED <<running, since>>
    /\ Elsewhere
    /\ UNCHANGED <<live, staged, bak>>

(* The file is staged; if its presence cannot be confirmed the next guest  *)
(* is up.                                                                  *)
Upload(p, g) ==
    /\ Now(p, g, "upload")
    /\ Set(staged, g, head[p][g])
    /\ Wrote({p}, g)
    /\ \/ GoOn(p, g, "replace") /\ UNCHANGED mishap
       \/ GoOn(p, g, "failed") /\ Mishap
    /\ Elsewhere
    /\ UNCHANGED <<live, running, bak>>

(* What is staged becomes the configuration; nothing staged is an error,   *)
(* which one depends on the moment the file disappeared.                   *)
Replace(p, g) ==
    /\ Now(p, g, "replace")
    /\ \/ /\ staged[g] # NoFile
          /\ Set(live, g, staged[g])
          /\ GoOn(p, g, "verify") /\ UNCHANGED bak
          /\ Wrote({p}, g)
       \/ /\ staged[g] = NoFile
          /\ End(p, "red") \/ (GoOn(p, g, "failed") /\ UNCHANGED bak)
          /\ UNCHANGED <<live, since>>
    /\ Elsewhere
    /\ UNCHANGED <<running, staged, mishap>>

(* The backup is put back, if there is one.                                *)
Restored(p, g) ==
    /\ bak[<<p, g>>] # NoFile
    /\ Set(live, g, bak[<<p, g>>])
    /\ Wrote({p}, g)

Unrestored(p, g) ==
    /\ bak[<<p, g>>] = NoFile
    /\ End(p, "red")
    /\ UNCHANGED <<live, running, since>>

Verify(p, g) ==
    /\ Now(p, g, "verify")
    /\ staged[g] = live[g]
    /\ GoOn(p, g, "start")
    /\ Elsewhere
    /\ UNCHANGED <<siteVars, since, mishap, bak>>

(* The copy differs, or cannot be compared: the guest stays stopped.       *)
VerifyFails(p, g) ==
    /\ Now(p, g, "verify")
    /\ Fails(staged[g] # live[g])
    /\ \/ Restored(p, g) /\ GoOn(p, g, "failed") /\ UNCHANGED <<running, bak>>
       \/ Unrestored(p, g)
    /\ Elsewhere
    /\ UNCHANGED staged

(* A guest that was stopped before the deployment is started, too.         *)
Start(p, g) ==
    /\ Now(p, g, "start")
    /\ g \notin running
    /\ live[g] # NoFile
    /\ running' = running \cup {g}
    /\ GoOn(p, g, "cleanup")
    /\ Wrote({p}, g)
    /\ Elsewhere
    /\ UNCHANGED <<live, staged, mishap, bak>>

StartFailsUntold(p, g) ==
    /\ Now(p, g, "start")
    /\ Fails(g \in running \/ live[g] = NoFile)
    /\ \/ /\ Restored(p, g)
          /\ \/ /\ g \notin running
                /\ running' = running \cup {g}
             \/ running' = running
          /\ GoOn(p, g, "done") /\ UNCHANGED bak
       \/ Unrestored(p, g)
    /\ Elsewhere
    /\ UNCHANGED staged

(* The guest runs already, or does not come up in time: it gets its former *)
(* configuration back and a second start, whose failure ends the job.      *)
StartFails(p, g) ==
    /\ Now(p, g, "start")
    /\ Fails(g \in running \/ live[g] = NoFile)
    /\ \/ /\ Restored(p, g)
          /\ \/ /\ g \notin running
                /\ running' = running \cup {g}
                /\ GoOn(p, g, "failed") /\ UNCHANGED bak
             \/ running' \in {running, running \cup {g}} /\ End(p, "red")
       \/ Unrestored(p, g)
    /\ Elsewhere
    /\ UNCHANGED staged

Cleanup(p, g) ==
    /\ Now(p, g, "cleanup")
    /\ Set(staged, g, NoFile)
    /\ GoOn(p, g, "done")
    /\ Wrote({p}, g)
    /\ Elsewhere
    /\ UNCHANGED <<live, running, mishap, bak>>

(* The verdict, once every guest had its turn.                             *)
Finish(p) ==
    /\ verdict[p] = "run"
    /\ \A g \in Guest : step[<<p, g>>] \in {"no", "same", "done", "failed"}
    /\ End(p, IF \E g \in Guest : step[<<p, g>>] = "failed" THEN "red" ELSE "green")
    /\ Elsewhere
    /\ UNCHANGED <<siteVars, since, mishap>>

-----------------------------------------------------------------------------
(***************************************************************************)
(* The scheduled synchronisation.                                          *)
(***************************************************************************)
OutsideSync == UNCHANGED <<siteVars, newest, bound, edit, pipeVars, since, tries>>

(* Nothing of an ended run is left but its status.                         *)
SyncEnd(status) ==
    /\ sync' = "idle"
    /\ exit' = status
    /\ tree' = Empty
    /\ moved' = FALSE
    /\ blocks' = {}
    /\ visit' = {}
    /\ listed' = {}
    /\ tripped' = FALSE
    /\ changes' = FALSE

SyncStart ==
    /\ sync = "idle"
    /\ sync' = "run"
    /\ tree' = main
    /\ blocks' = Block
    /\ OutsideSync
    /\ UNCHANGED <<main, mishap, moved, visit, listed, tripped, changes, exit>>

GitVmids(b) == {g \in Guest : BlockOf[g] = b /\ tree[g] # NoFile}
PveVmids(b) == {g \in Guest : BlockOf[g] = b /\ live[g] # NoFile}

TooManyNever(b, pve) == FALSE

(* The deletions that are more than a block may lose.                      *)
TooMany(b, pve) == Cardinality(GitVmids(b) \ pve) > MaxDeletions

(* The guests of a block are listed.  A failed listing is cut short, and   *)
(* a host without a connection is passed over.                             *)
List(b) ==
    /\ sync = "run"
    /\ visit = {}
    /\ b \in blocks
    /\ blocks' = blocks \ {b}
    /\ \/ \E pve \in SUBSET PveVmids(b) :
            /\ Fails(FALSE) \/ (pve = PveVmids(b) /\ UNCHANGED mishap)
            /\ IF TooMany(b, pve)
                 THEN tripped' = TRUE /\ UNCHANGED <<visit, listed>>
                 ELSE /\ visit' = GitVmids(b) \cup pve
                      /\ listed' = pve
                      /\ UNCHANGED tripped
       \/ Mishap /\ UNCHANGED <<visit, listed, tripped>>
    /\ OutsideSync
    /\ UNCHANGED <<main, sync, tree, moved, changes, exit>>

(* What the file of a listed guest becomes: if only the rest differs, it   *)
(* is left alone.                                                          *)
Synced(g) ==
    IF tree[g] # NoFile /\ Settings(tree[g]) = Settings(live[g]) THEN tree[g] ELSE live[g]

VisitKeepsGone(g) ==
    /\ sync = "run"
    /\ g \in visit
    /\ visit' = visit \ {g}
    /\ IF g \notin listed \/ live[g] = NoFile
         THEN UNCHANGED <<tree, changes>>
         ELSE Set(tree, g, Synced(g)) /\ changes' = (changes \/ tree[g] # Synced(g))
    /\ OutsideSync
    /\ UNCHANGED <<main, mishap, sync, moved, blocks, listed, tripped, exit>>

(* One guest: deleted, added, overwritten or left alone.  One that was     *)
(* destroyed after the listing cannot be read, which ends the job.         *)
Visit(g) ==
    /\ sync = "run"
    /\ g \in visit
    /\ LET new == IF g \in listed THEN Synced(g) ELSE NoFile
       IN IF g \in listed /\ live[g] = NoFile
            THEN SyncEnd(1)
            ELSE /\ visit' = visit \ {g}
                 /\ Set(tree, g, new)
                 /\ changes' = (changes \/ tree[g] # new)
                 /\ UNCHANGED <<sync, moved, blocks, listed, tripped, exit>>
    /\ OutsideSync
    /\ UNCHANGED <<main, mishap>>

SyncPushForced ==
    /\ sync = "run"
    /\ visit = {}
    /\ blocks = {}
    /\ main' = IF ~tripped /\ changes THEN tree ELSE main
    /\ SyncEnd(IF tripped THEN 2 ELSE IF changes THEN 1 ELSE 0)
    /\ OutsideSync
    /\ UNCHANGED mishap

(* Nothing is committed after a trip; a rejected push changes nothing.     *)
SyncPush ==
    /\ sync = "run"
    /\ visit = {}
    /\ blocks = {}
    /\ main' = IF ~tripped /\ changes /\ ~moved THEN tree ELSE main
    /\ SyncEnd(IF tripped THEN 2 ELSE IF changes THEN 1 ELSE 0)
    /\ OutsideSync
    /\ UNCHANGED mishap

SyncDie ==
    /\ Mishap
    /\ sync = "run"
    /\ SyncEnd(1)
    /\ OutsideSync
    /\ UNCHANGED main

SyncStep ==
    \/ SyncStart
    \/ \E b \in Block : List(b)
    \/ \E g \in Guest : Visit(g)
    \/ SyncPush
    \/ SyncDie

-----------------------------------------------------------------------------
DeployStep(p, g) ==
    \/ GateCheck(p, g)
    \/ Begin(p, g)
    \/ Backup(p, g)
    \/ Stop(p, g)
    \/ Upload(p, g)
    \/ Replace(p, g)
    \/ Verify(p, g)
    \/ VerifyFails(p, g)
    \/ Start(p, g)
    \/ StartFails(p, g)
    \/ Cleanup(p, g)

GuestNext ==
    \/ \E g \in Guest : HandEdit(g)
    \/ \E p \in Pipe : Push(p) \/ PushDeletion(p) \/ Die(p) \/ Retry(p) \/ Finish(p)
    \/ \E p \in Pipe, g \in Guest : DeployStep(p, g)
    \/ SyncStep

(* The synchronisation is scheduled again and again.                       *)
GuestSpec == GuestInit /\ [][GuestNext]_guestVars /\ WF_guestVars(SyncStep)

-----------------------------------------------------------------------------
(***************************************************************************)
(* Properties.                                                             *)
(***************************************************************************)

(* A guest that ought to run is down only while a pipeline is at work on   *)
(* it, or if a pipeline that was tells of it, or if the job was retried:   *)
(* the second attempt skips a guest that has its new configuration and was *)
(* not started, and may end well.                                          *)
OutageIsTold ==
    \A g \in Guest \ Off :
      live[g] # NoFile /\ g \notin running =>
        \E p \in Pipe :
          \/ verdict[p] # "green" /\ step[<<p, g>>] = "failed"
          \/ verdict[p] # "green" /\ step[<<p, g>>] \in Midway
          \/ tries[p] > 0 /\ step[<<p, g>>] \in {"gate", "todo", "same"}

(* `All configurations deployed': each guest of a pipeline that ends well  *)
(* has the commit's settings, and if it was changed the commit's file, and *)
(* runs with it, unless somebody else wrote to it after the pipeline read  *)
(* it.                                                                     *)
GreenIsDeployed ==
    [][\A p \in Pipe : verdict[p] # "green" /\ verdict'[p] = "green" =>
         \A g \in Guest : <<p, g>> \notin since =>
           /\ step[<<p, g>>] # "no" => Settings(live[g]) = Settings(head[p][g])
           /\ step[<<p, g>>] = "done" => live[g] = head[p][g] /\ g \in running]_guestVars

(* What the deployment replaces and others did not write after it read it  *)
(* is saved on the host, as a whole, unless a request failed; and its      *)
(* settings are saved or in the commit's history unless two did: neither   *)
(* the gate, which lets pass what it cannot read, nor the missing backup   *)
(* loses settings alone.  (A pending change or a snapshot section, which   *)
(* the gate does not see, is lost with a backup that one failed reading    *)
(* prevents.)                                                              *)
LossNeedsFailures ==
    [][\A p \in Pipe, g \in Guest :
         /\ Now(p, g, "replace")
         /\ live'[g] # live[g]
         /\ step'[<<p, g>>] = "verify"
         /\ <<p, g>> \notin since
         => /\ mishap = 0 => live[g] \in {NoFile, bak[<<p, g>>]}
            /\ mishap = 1 => \E c \in {NoFile, bak[<<p, g>>], head[p][g], prev[p][g]} :
                               Settings(live[g]) = Settings(c)]_guestVars

(* However few guests the hosts list and whenever they list them, a        *)
(* synchronisation takes no more than MAX_DELETIONS_PER_RUN of a block's   *)
(* guests out of Git.                                                      *)
SyncDeletesFew ==
    [][sync = "run" /\ sync' = "idle" =>
         \A b \in Block :
           Cardinality({g \in Guest : /\ BlockOf[g] = b
                                      /\ main[g] # NoFile
                                      /\ main'[g] = NoFile}) <= MaxDeletions]_guestVars

MirRun == IF sync = "idle" THEN "idle" ELSE IF moved THEN "void" ELSE "on"

MirStaged ==
    [g \in {h \in Guest : MirRun = "on" /\ tree[h] # main[h]} |-> tree[g]]

Mir == INSTANCE Mirror WITH File <- Guest, Gone <- NoFile, Refused <- {},
         Group <- {{g \in Guest : BlockOf[g] = b} : b \in Block}, Cap <- MaxDeletions,
         repo <- main, source <- live, run <- MirRun, staged <- MirStaged

(* The synchronisation implements Mirror: however many commits it crosses, *)
(* it edits files of main in place, each to a configuration its guest had  *)
(* during the run, and drops a few that no listing shows.                  *)
MirrorsHosts == Mir!MirrorSpec

(* In the end Git has the files of the guests there are, with the settings *)
(* they have, whatever was pushed, edited or destroyed; or the             *)
(* synchronisation stays red because of its cap.                           *)
InGit == \A g \in Guest : /\ main[g] = NoFile <=> live[g] = NoFile
                          /\ Settings(main[g]) = Settings(live[g])

GitFollowsHosts == <>[]InGit \/ <>[](sync = "idle" => exit = 2)
=============================================================================
