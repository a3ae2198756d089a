# A TLA+ model of the infrastructure automation

The repository is the source of truth of a homelab: configuration data for
network devices, hypervisors, Kubernetes and services, and the programs that
keep the real systems and the data in step. The data is declarative and has no
behaviour of its own. The programs have: they run unattended, next to each
other and next to administrators who change the same things by hand, against
machines that do not answer, refuse commands or are rebooted half-way. This
directory models those programs, checks them with TLC and proves the most
important results with TLAPS.

Paths below are relative to the repository.

## 1. Inventory

### Cisco network automation (`ci/cisco.yml`, `network/scripts`)

Two writers keep `network/configs/<type>/<device>` on `main` and the devices in
step, in opposite directions:

* **The push pipeline.** A push to `main` starts the jobs
  `pre_deploy_drift_gate` (is there anything on the device that nobody
  reported?), `validate_cisco_configs`, `generate_deployment_diffs` (what to
  add, what to negate), `deploy_cisco_configs` and `verify_cisco_deployments`.
  Each is a loop over `$CHANGED`, the files of the *last* commit. State: the
  job, HEAD and HEAD^, the diff artifacts (kept for days, used again by a
  retry), a failure flag, the SSH session with a device and the backup taken at
  its beginning. Devices that NAPALM can drive are deployed by
  `deploy_napalm`; ASAs and access points by `deploy_asa`, which rolls back.
  *Correct* when it never destroys what nobody reported, when green means
  deployed, and when partial failures, rollbacks and retries keep a device
  between the old and the new configuration.
* **The drift job.** A schedule runs `detect_drift.py` and, on drift,
  `auto_sync_drift.py`, which copies device configurations into a checkout,
  commits and pushes. `known-unreachable.txt` holds acknowledged outages with
  an expiry date; a whitelist guardrail refuses some firewall configurations.
  State: the checkout, lists of failed, blocked and synced devices, the exit
  status, some values of which `allow_failure` forgives. *Correct* when `main`
  converges to the devices, when green means verified, when outages are not
  hidden, and when it publishes nothing but what a device said.

They share the devices and `main`, and nothing keeps them apart: the lock file
of the deploy job is tested by nobody. Hard: stale gate answers and stale
diffs, administrators between any two steps, concurrent pipelines, lost
sessions, refused commands, rejected pushes.

### SeaweedFS reconciler (`kubernetes/namespaces/seaweedfs`)

An hourly CronJob reclaims deleted data from the object store. It pauses the
master's own vacuum walk, vacuums the volumes with the most garbage, judges the
result by `volume.list`, and resumes the walk. Then it brings the quotas of the
buckets to what Git says and deletes the read-only rules of buckets that no
longer exist. State: the plan and the list it was made from, what was sent,
failures; in the store the walk, its lock, garbage, servers, free space,
buckets, quotas, rules. Hard: requests are refused *without an error* while the
walk holds its lock; SIGTERM at the deadline; missing servers; a listing that
fails looks like a store without buckets. *Correct* when success means that
space was reclaimed and quotas are Git's, when the walk never stays off, and
when the backlog drains and the quotas follow.

### Proxmox guests (`ci/lxc.yml`, `ci/qemu.yml`, `proxmox/scripts`)

Again two writers in opposite directions, over the configurations of containers
and virtual machines. The pipeline of a commit runs `pve_drift_gate.sh`, then
takes the changed guests one by one: back up, stop, upload, replace, verify,
start, clean up, with a rollback to the backup. The scheduled
`pve_sync_drift.sh` lists the guests of each host, copies their configurations
into a checkout, deletes files of guests that are gone (up to a cap), commits
and pushes. State: live configurations, which guests run, a staging file for
each guest on its host, the backups, `main`, and where each job is. Hard: a
request may fail anywhere, in some places `set -e` ends the job there and in
others the script takes the failure for an answer (an unreachable host has no
drift, a short listing is a deletion); pipelines overlap on the same staging
file; a failed job is started again half-way. *Correct* when no guest is left
down untold, when green means deployed, when no single failure loses a guest's
settings, and when Git follows the hosts without losing many files to a short
listing.

### CNPG janitor (`kubernetes/_core/cnpg-janitor`)

An hourly job deletes the `Backup` objects that keep a schedule of a
CloudNativePG cluster waiting for good (latched in a failed state, or under way
for too long) and fails when a schedule has not fired or a cluster has not
succeeded lately. The operator, the schedules, people and other janitors change
the same objects between any two of its requests. *Correct* when it deletes
only what is stuck at that moment, never what has ended or is still young, when
nothing stays stuck, and when its
colour tells whether backups still happen.

### Zigbee auto-heal (`ansible/playbooks/iot/files/zigbee_*.sh`)

The radio of a Zigbee coordinator hangs now and then. On every node of a
Pacemaker cluster a watchdog (a timer) and an alert (called by Pacemaker for
failed starts and monitors) run the same reset: check a cooldown file, write
it, cut the power of the coordinator's switch port, restore it, wait for the
bridge, clear Pacemaker's failure counts; the watchdog then restarts
Zigbee2MQTT. State: the coordinator, where Zigbee2MQTT runs, bans, the lock
file of each node, the log lines the scripts look for. Hard: check and write of
the lock are two steps of two callers, the lock is one *per node* while the
port is one for all, alerts in a cooldown are dropped, each other alert detaches
a helper of its own. *Correct* when the power always comes back, when the power
is not cut again and again, and when hangs heal or are given up visibly.

### Not modelled

| part | what it is | why not |
|---|---|---|
| Galera backup (`dbcluster/*/bin`) | prune, check the disk, back up, prune | sequential, no other actor but the disk; candidate below |
| Cisco validators, `post_validate.py`, `sync_from_device.py` | text checks of one file; read-only report; a workstation tool that ends in a push | change nothing, or are a `Push` |
| other CI jobs | single calls of docker compose, Atlantis, kaniko, git | no decisions of their own |
| canaries, layout assertions, lints | write, read, compare, report | share no state |
| Ansible playbooks, Terraform, Helm values, alert rules, service data | declarations and idempotent tasks | no program |

Of the modelled parts, jobs that change nothing are left out:
`verify_cisco_deployments` and the verify jobs of guests (the latter always end
green), and `pve_detect_drift.sh`, which only reports. Validation appears as one
outcome of a pipeline.

## 2. Modules

| module | models | extends |
|---|---|---|
| `NetworkFleet` | `main`, the running and saved configurations, edits over SSH, reloads, commits | |
| `Rollout` | abstract specification: what a push promises its devices | |
| `Mirror` | abstract specification: what a scheduled synchronisation promises `main` | |
| `PushPipeline` | the push pipeline | `NetworkFleet`; instance of `Rollout` |
| `DriftSync` | the drift job | `NetworkFleet`; instance of `Mirror` |
| `CiscoNetwork` | the two together | `PushPipeline`, `DriftSync` |
| `BucketQuotas` | buckets, quotas and read-only rules, and the job's steps on them | |
| `SeaweedReconciler` | the reclaim job and the vacuum walk | `BucketQuotas` |
| `ProxmoxGuests` | deployment of guests and the synchronisation | instance of `Mirror` |
| `BackupSlots` | abstract specification: what the janitor promises | |
| `CnpgJanitor` | the janitor, the operator, schedules | instance of `BackupSlots` |
| `ZigbeeAutoheal` | watchdog, alert and reset on every node, Pacemaker, coordinator | |
| `MCPush` | symmetry for the runs of `PushPipeline` | `PushPipeline` |
| `MCReclaim`, `MCGuests`, `MCZigbee` | scenarios for the runs | `SeaweedReconciler`, `ProxmoxGuests`, `ZigbeeAutoheal` |
| `PushPipeline_proofs` | theorems about `PushPipeline` | `PushPipeline`, `TLAPS` |
| `DriftSync_proofs` | theorems about `DriftSync` | `DriftSync`, `TLAPS` |
| `CiscoNetwork_proofs` | theorems about the two together | `CiscoNetwork`, both proof modules |
| `SeaweedReconciler_proofs`, `ProxmoxGuests_proofs`, `CnpgJanitor_proofs`, `ZigbeeAutoheal_proofs` | theorems about these components | the component, `TLAPS` |

### Configurations (`NetworkFleet`)

A configuration is a set of lines: the lines in which versions differ. Order,
indentation and dynamic lines (timestamps, checksums) are abstracted; sections
survive as the constant `Repeated` (below). `recorded` accumulates every line
any commit of `main` held: what is *not* in it was never reported by anybody.
`startup` is what a reload goes back to.

### Push pipeline

| variable | in the code |
|---|---|
| `stage[p]` | the job of the pipeline; `blocked`, `nodiff` and `retry` are a gate, a diff job and a deploy job that failed |
| `head[p]`, `prev[p]` | HEAD and HEAD^ of the pipeline's checkout |
| `todo[p]` | what is left of the loop over `$CHANGED` |
| `flag[p]` | `DRIFT_DETECTED`, `DIFF_FAILED` or `DEPLOYMENT_FAILED` |
| `base[p][d]` | the live configuration `generate_diff.py` made the artifact of `d` from |
| `sess[p][d]` | where `deploy.py` for `d` is between two exchanges with the device |
| `backup[p]` | the configuration `deploy_asa` read before it applied anything |

A push carries one or more commits (`mid` is the tree below the last one); if
the last commit changes no device, or is a merge, the pipeline does nothing.
The gate is one step for each device: `GateCheck` for statuses 0 and 2,
`GateError` for status 1, which the job waves through. The remediation of a
device is `ToAdd` and `ToRemove` against `base`, applied to whatever the device
runs *by then*. `deploy_asa` is connect and backup, apply, then either save or
rollback; the variants `AsaApplyRefused`, `AsaRollbackRefused` and `AsaLost`
leave any subset of the commands in effect. `deploy_napalm` is compare and
commit, with an exception before, in the middle of or after the commit.

Each job that fails may be run again: `GateRetry` looks at the devices anew,
`DiffRetry` makes the artifacts anew although the gate is long over, and
`DeployRetry` applies the artifacts there are. `Abandon` is the end of the
retries. GitLab also lets people run a job again that has *passed*; a deployment
repeated that way, hours after its diff, is not modelled.

The gate works on the set of stripped lines of a file, the diff on its
sections. `Repeated` names lines whose text also stands in another section of
every version: to the gate they are always known.

`Rollout` is the pipeline without anything half done: devices arrive at the
commit one by one, none that has arrived leaves it again, and the push succeeds
when all have. In terms of the pipeline (`RollVerdict`, `RollScope`,
`RollThere`) a push is rolled out from the start of its deploy job, to
`Changed(p)`. A device has arrived when it `Holds` the commit: it runs what
HEAD says, and no open session has a backup to bring back more than that. A
commit that the gate, the validation or the diff stops, and a deployment nobody
retries, is given up.

### Drift job

`cloned` is the commit that was checked out, `tree` the checkout with what is
staged, `tip` whether it still is the tip
of `main` (a push from elsewhere falsifies it, and `git push` is then refused).
`seen[d]` is what the job last read from `d`; it is not a variable of one
script but what its two scripts were told, in order. `DetectVerdict` and
`SyncVerdict` are the ends of the two scripts with the job's `if` chains over
their statuses: 0 verified, 1 manual review, 2 blocked, 3 unreachable, 4
crashed; 1 and 2 are forgiven. `DetectCrash` and `SyncCrash` are uncaught
exceptions and git errors, also ones after the push reached `main`. Outages,
recoveries, acknowledgments and pushes by others happen between any two steps.
The guardrail for firewalls is a script outside of the repository, and what it
refuses a constant (`Uncovered`); `GuardrailTimeout` is one that does not answer,
which refuses, and a missing script is the case where it refuses everything.
An acknowledgment is given between two jobs: a running job has its own checkout
of the file. It may expire at any moment.

`Mirror` is what the drift job and the synchronisation of guests have in
common, without checkouts: a run stages texts as their systems hold them at
that moment, and then edits just these files in `main` as `main` is by then, or
none. Others may commit at any time. For the drift job what is staged is the
checkout of the devices in `synced`, what is refused is what the guardrail
refuses, and no file may be dropped. For the guests what is staged is what the
work tree has and `main` has not; the files of one block (a host's containers,
or its virtual machines) may be dropped up to the cap when their guests are not
listed; a run that a commit overtook is `void`, since its push will be rejected.

### Both together

`CiscoNetwork` interleaves all of it. A pipeline step that needs an answer
needs the device to be up. Commits of the drift job start no deployment: the
rules of the deploying jobs skip their author. `Push` (in `PushPipeline`) makes
the drift job's checkout stale.

### Reclaim job and quotas

`pc` walks through `main()`: disable, plan, prime and probe in a loop, send,
verify, resend, judge, `finally`, housekeeping with the quota step. A request is one shell command
with its silent refusal (`walk # "off"`), its check of free space at the time
it is *served*, its error and its one retry. `Halved` is `vacuum_effect` on the
two lists. The walk begins, picks volumes, compacts them and ends; it notices
`volume.vacuum.disable` only between two volumes. `SigTerm` distinguishes the
code inside `try`, where SystemExit leads to `finally`, from the code before it
and inside `finally`, where the process ends at once; `SigKill` ends it
anywhere. `compacted` and `blind` are history variables for the properties.

`BucketQuotas` holds the buckets (`exists`, `quota`, `ruled`) and what the job
read of them (`seen`, `listed`, `orphans`); `ListBuckets`, `ReadRules`,
`DeleteRule` and `Apply` are the commands of `quota_step`, between which people
and SeaweedFS change buckets (`Appear`, `SetByHand`, `Enforce`). An output may
lack anything: its errors are not looked at. `misread` and `touched` are
history.

Simplifications: every volume has a copy on every server with the same garbage,
in units of the eligibility threshold (so a list without one of two servers
shows exactly half); which volumes the disks may be too full for is a bound
(`Shortages`); batches after the first are of one volume, which only adds
interleavings; `max_count` (200) is not reached; the environment variables that
switch parts off are left at their defaults. What `volume.deleteEmpty`,
`s3.clean.uploads` and the comparison of the drift check do is left out: each is
a step that succeeds or fails.

### Guests

A configuration is a pair. Its `Settings` are the lines that
`pve_normalize_config.sh` keeps; its `Rest` are those it drops: the
`[pve:pending]` and `[snapshot-...]` sections with their contents, `lock`,
`parent`, `snaptime`, comments. Both are numbered as they appear. The scripts
compare in three ways, and the model does as they do: the gate and the
synchronisation compare settings, and a file whose rest alone differs is neither
drift nor synchronised (`Synced`); the deploy job drops only comments, blank
lines and the *headers* of sections, so of the rest it compares some
(`Judged`); what is copied, verified and restored is the raw file. A commit
changes settings and leaves the rest of the file as it was; one that changes
only the rest, or only moves lines between sections, is not modelled. An
administrator changes either part (a snapshot, a change that waits for a
reboot), or creates or destroys a guest. `NoFile` is a guest, or a file, that
does not exist. `live`, `running` and `staged` are the hosts; `step[p, g]` says where
pipeline `p` is with guest `g` and `bak` is the backup it made. Each action is
one request: the one for `pct` and `qm` is the same, since the two CI files are
the same script with another command. `Die` is a command that fails under
`set -e`, and a runner that dies; failures the scripts handle are disjuncts of
the action they strike (`GateCheck` that cannot read, `Begin` that takes an
unreadable guest for a new one, `Stop`, `Upload`, `VerifyFails`, `StartFails`).
`Retry` is the button of GitLab: the failed job starts over, which is the gate
if it stopped the pipeline and otherwise the deployment alone. `PushDeletion` is
a commit that only deletes files; its pipeline fails in the validation.

The synchronisation is `SyncStart` (checkout), `List` (one host's containers or
virtual machines, with the cap), `Visit` (one guest: deleted, added, overwritten
or left alone) and `SyncPush`, which GitLab refuses if `main` moved. `since` is
history: the guests others wrote to after a pipeline read them.

### Janitor

A `Backup` object has a phase and an age; `child` are those a schedule made and
waits for. The code compares resource versions for equality only, with the
listed ones, so they are represented by `intact`, the listed objects nobody has
written since. A deleted object is `released` if the janitor did it and
`absent` otherwise, which is all `BackupSlots` needs to tell its own deletions
(`Release`) from those of others (`Forget`). `List`, `Reread`, `Delete` and
`DeleteFails` are the requests of
`release_stuck`, `ReadSchedules` and `Verdict` those of the freshness check; an
error may be one after the deletion took effect (`DeleteFails`, `Die`). Hours
matter only in comparisons with the thresholds and saturate behind them
(`Cap`); `late` is the hour that may end during a run. `judged` are the
schedules that were too old for the allowance when they were read, `present` the
clusters that exist; `Renew` and `Appear` replace a schedule and delete or
create a cluster at any moment. One limit stands for all schedules (an
annotation may give one its own), and `DRY_RUN` is off.

### Zigbee

`pc` is where each reset of each node is: the one of the watchdog, which waits
for it, and those its alerts have detached, of which each alert starts one
without waiting. Lock files are time stamps in the code and count down here; a
`Tick` is the three minutes of the watchdog's log window and re-entry guard. No
script lives through two: the helper's waits add up to less, and the watchdog's,
which may take longer where the bridge never comes up, are cut off by systemd
(`TimeoutStartSec=300`, `Kill`); it leaves the lock fresh and the restart undone.
`Freeze`, `Crash`, scripts that die or hang elsewhere, failing commands of the
switch and of `crm` and a lock that cannot be written (`Write`; the helper goes
on) are troubles; a missed log line is one of the alert's. `StartZ2m` and
`MonitorFails` are Pacemaker, with the alert they call. That a coordinator which
rebooted behind Zigbee2MQTT's back does not answer it is `fit`. What `crm
resource restart` leaves behind when it is killed half-way is not modelled.

## 3. Runs

| run | instance | checks | states |
|---|---|---|---|
| `push_quiet` | 1 ASA, 2 lines, 2 pipelines, 1 edit | `PushTypeOK`, `NoUnreportedLoss` | 1.9 M |
| `push_retry` | an ASA and a router, 2 lines, 1 pipeline, 1 edit | `GreenMeansDeployed`, `DeployStaysBetween`, `SessionStaysBetween`, `RollsForward` | 1.5 M |
| `sync_job` | a firewall and a router, 2 lines, 1 edit, 2 mishaps | `SyncTypeOK`, `Converges`, `ForgottenAckReRaises`, `GreenMeansVerified`, `PublishesOnlyDrift`, `MirrorsDevices` | 1.1 M |
| `network` | 1 firewall, 1 line, 2 pipelines, 1 edit, the drift job, 1 outage | `NetworkConverges` | 2.9 M |
| `reclaim` | 3 volumes (one sealed, one stuck), 2 servers, 2 mishaps; or 2 buckets, 2 changes, 1 mishap | `SeaTypeOK`, `GreenMeansReclaimed`, `WalkResumes`, `BacklogDrains`, `QuotasFollowGit`, `GreenMeansQuotas`, `UnrulesOnlyUnknown` | 0.9 M |
| `janitor` | 1 cluster, 2 backup names, 1 mishap | `CnpgTypeOK`, `ReleasesOnlyStuck`, `GreenMeansFresh`, `DeadScheduleIsRed` | 0.5 M |
| `guests` | 2 guests (one kept off), the four scenarios of `MCGuests` | `GuestTypeOK`, `OutageIsTold`, `GreenIsDeployed`, `LossNeedsFailures`, `SyncDeletesFew`, `MirrorsHosts`, `GitFollowsHosts` | 2.3 M |
| `zigbee` | 2 nodes, cooldown of 4 ticks, the scenarios of `MCZigbee` | `ZigbeeTypeOK`, `DownInHand`, `OneHangHeals`, `HealsOrIsGivenUp` | 0.9 M |

Four more runs expect a violation and stand for disagreements between the code
and what it says of itself; each is described under `findings` in
`PROJECT.json`:

* `repeated_line`: the gate overlooks a line whose text stands in another
  section, and the deployment negates it.
* `sync_red`: a blocked device or a git error hides an unreachable one behind
  a forgiven exit status.
* `quota_listing`: when the listing of the buckets fails, the job takes its
  error text for a store without buckets and deletes the read-only rules of
  buckets that exist.
* `double_cut`: two resets of a node look at its lock before either has written
  it, and both cut the power, where the scripts promise one cut in ten minutes
  and a watchdog and an alert that "never double-cycle the hardware".

### What the properties say

* `NoUnreportedLoss`: no deploy step takes a line off a device that no commit
  ever held. It needs the gate's verdict, made two jobs earlier, still to be
  true when the negations are entered, while other pipelines deploy and roll
  back the same device.
* `GreenMeansDeployed`, `DeployStaysBetween`: the net effect of any sequence of
  attempts. They are what makes retrying an old artifact sound.
* `SessionStaysBetween`: the net effect of one session with a device, however
  it ends, against what it found there (not against the diff's base, which may
  be older). Of the ASA's rollback it says what holds: all that was found is
  back. It is no return to "pre-deploy state" (`deploy.py:229`), since the
  rollback (`deploy.py:103-168`) negates nothing: additions the ASA accepted
  before it refused another command stay, and are saved.
* `RollsForward`: a refinement. Through refused commands, lost sessions,
  rollbacks and retries with old diffs the pipeline is a `Rollout`: no device
  that reached the commit is taken off it by a later attempt, and the pipeline
  passes only when every device is there.
* `Converges`: `main` ends up holding what a device holds, for good, although
  single jobs fail, other devices are down or blocked and pushes are refused.
* `NetworkConverges`: the same next to pipelines, which push to the files the
  drift job writes and change what it reads: once nobody starts a failed deploy
  job again. Without that proviso a device may go back and forth for as long as
  somebody retries, with `main` behind it. That the drift job publishes what a
  deployment has left half-done, and may revert a commit whose deployment is
  still to come, is no violation: to it the device is right.
* `ForgottenAckReRaises`: an outage nobody acknowledges any more turns the job
  red for good. The proviso that the guardrail refuses no device is the hole
  `sync_red` shows.
* `GreenMeansVerified`: exit status 0 means that the commit on `main` is what
  the devices said, except for acknowledged outages.
* `PublishesOnlyDrift`: it compares `main` before and after a push with the
  commit the job cloned (`cloned`) and with what the devices said: `main` was
  still that commit, so nobody else's commit is overwritten, and a file changes
  only to what its device said, if the guardrail accepts it.
* `MirrorsDevices`, `MirrorsHosts`: refinements. Although it works on a checkout
  that grows old, crashes and is overtaken by commits, a synchronisation is a
  `Mirror`: what it publishes are edits of single files of `main` as `main` is
  at that moment, each to a text that its device, or guest, had during the run;
  no other commit is undone.
* `GreenMeansReclaimed`: a run that chose volumes and ended OK compacted one
  of them, whether its requests were refused or the walk was faster. The
  proviso `~blind` is a hole of the code: a server missing from the later list
  looks like reclaimed garbage.
* `WalkResumes`, `BacklogDrains`: the walk is on again and again; every volume
  that can be compacted is, once servers are up and have room. SIGTERM just
  before the `try` statement, or inside `finally`, leaves the walk off; a later
  run heals that.
* `GreenMeansQuotas`: after a run that ends OK each bucket nobody touched since
  the listing has Git's quota, and no rule of a deleted bucket is left.
  `QuotasFollowGit`: the same in the long run, however runs fail and whatever
  people change meanwhile.
* `UnrulesOnlyUnknown`: a read-only rule that is deleted belongs to no bucket,
  although the command that listed the buckets is long past; excepted are
  buckets that changed since and outputs that lacked something, which are what
  `quota_listing` shows.
* `OutageIsTold`: a guest that ought to run is down only while a pipeline is at
  work on it or under a red one. The third disjunct is the one hole there is: a
  job dies between the replacement and the start, is retried, finds the
  configuration equal, skips the guest with "no restart needed"
  (`ci/lxc.yml:255`) and may end green.
* `GreenIsDeployed` (guests): with overlapping pipelines installing what another
  one uploaded, the proviso is about writes by others *since the pipeline read
  the guest*; a guest it skips as already equal need not run.
* `LossNeedsFailures`: the gate lets pass what it cannot read, and a guest that
  cannot be read is "new" and not backed up. As long as no request fails, what
  a deployment replaces is saved whole; either failure alone loses none of the
  guest's settings, both together do. A pending change or a snapshot section
  takes one failure only, the second one: the gate does not look at them, and
  the raw copy overwrites them.
* `SyncDeletesFew`, `GitFollowsHosts`: the cap holds whatever is listed, edited
  and pushed meanwhile, and does not keep Git from following, unless it stays
  red.
* `ReleasesOnlyStuck`: a refinement. Listing, second reading and conditional
  deletion together implement one step of `BackupSlots` that deletes a backup
  stuck at that very moment (`Release`): one that has ended, or came under the
  same name, is left alone, whatever answer was lost. Every other step is one of
  the abstract operator's or none; and, by `BackupSlots`' fairness, no backup
  stays stuck.
* `GreenMeansFresh`, `DeadScheduleIsRed`: schedules and clusters are read apart
  and judged by one clock, backups made on demand refresh one but not the other,
  and a schedule or a cluster may be made anew in between.
* `DownInHand`: the bridge is never down without a reset at hand that brings it
  back, although resets of two nodes work on one port.
* `OneHangHeals`, `HealsOrIsGivenUp`: `[]<>` and not `<>[]`, since the lock is
  per node: two nodes may reset in turn. How often one node cuts the power in a
  cooldown has no bound that the scripts guarantee (`double_cut`): each reset
  that looks at the lock before the first has written it, or after it could not
  be written, is one cut more.

### Bounds, and why they are enough

`MaxSsh` and `MaxMishap` bound what goes wrong in one behaviour, not when. One
edit suffices to make a gate's answer or a diff stale, since a stale answer is
about one line; the initial states already contain every configuration. Two
mishaps let an outage meet a crash, a refused push an acknowledgment, a killed
run a failed `enable`. In `network` an outage is the
only mishap (the others are in `sync_job`), the gate script does not fail (it
does in `push_retry`) and there is one line; two pipelines at once and the drift
job are three writers of it, which may each put it back where another took it
off, and what is left of the rest is their interleaving. There a deployment that
was cut short has changed all of the line or nothing; sessions cut short between
two lines are in `push_quiet` and `push_retry`. In the other runs two lines
distinguish what is added from what is removed in the same deployment; a third
would behave like one of the two, since every operation on configurations works
line by line. One device for each of the two deploy paths suffices for
`push_retry`, because a pipeline's devices meet only in `todo`, `flag` and the
verdicts. Two pipelines are the least for one to invalidate the other's gate;
the theorems hold for any number. Three volumes are the least for a head of two
with a stuck volume in it and one left over; the code's head has three.
`HeadSize` has to exceed the number of stuck volumes for `BacklogDrains`: with
three or more volumes that never compact, the head of the code would be stuck
too. The disks have room for every volume or not for the ordinary one
(`Shortages`), so a plan finds room for all, for some or for none of the
volumes with garbage.

`MCReclaim`, `MCGuests` and `MCZigbee` bound scenarios rather than everything at once: a
behaviour draws one of a few combinations of bounds in its initial state.
`Volumes` has mishaps and no buckets, `Tenants` buckets and no garbage, because
the two parts of the run share nothing but the order, `exit` and the signals. In
`MCGuests` commits to both guests meet an edit and a failure (`AllFiles`), a
commit to one guest an edit and two failures (`OneFile`), two pipelines one
another and a failure (`Overlap`), and a pipeline that is retried an edit and a
failure (`Again`); the synchronisation runs in all of them. A cap of one with
two guests makes it both trip and not. Two names of one cluster let one backup
be replaced while another waits; clusters meet only in the loop and the exit
status. The janitor's thresholds 0 and 1 are the least that keep "young", "old
enough if latched" and "old" apart; a limit of one hour, with a schedule that
fires every hour, has the states just within and just beyond it, and the hour
that may end during the run is there. Two nodes are the least for two locks on
one port; a cooldown of four ticks outlasts the log window
(`ZigbeeAssumption`), as 600 seconds do. In `MCZigbee` two troubles meet one
detached reset of a node at a time, or one trouble two of them, which next to the
watchdog's own is enough for the race on the lock; further alerts while all of a
node's resets are at work are not followed. `MaxCuts` saturates beyond what
`OneCutPerCooldown` allows.

`push_quiet` and `push_retry` check no deadlock because a behaviour may end
when every pipeline has.

### Assumptions stated as constants

* `Quiet`: nobody touches a device between the push and the end of its
  pipeline. `NoUnreportedLoss` is false without it by the gate's design (it
  looks once). `network` assumes it as well, to bound its states: there edits
  meet the drift job, and pipelines meet both, but no edit falls into a pipeline.
* `Serial`: pushes wait for one another. The lock file suggests it and nothing
  enforces it; `push_quiet` and the theorem about loss do without.
* `Pipefail`: the status of `deploy.py | tee` is that of `deploy.py`. The
  comment at `ci/cisco.yml:44-45` warns that it is not unless the shell is told
  so; GitLab's runner shell sets `pipefail` where it is bash.
* `Faults`: which jobs meet failures. `push_quiet` excludes failing gates,
  which are waved through.
* `ASA_ERROR_PATTERNS` is assumed to know every refusal.

### Fairness

The schedule starts the drift job again and again and a started job goes on:
`WF(JobStep)`; with outages and failures any number of single runs may fail.
The CronJob likewise. Its prime loop has a deadline, so it cannot go round for
ever: `SF(PrimeTimeout)`. That deadline (360 s) is meant to outlast the one
volume a disabled walk may be compacting; giving up in that situation counts as
a mishap, so it does not happen for ever. The walk goes on: `WF(WalkStep)`.
The janitor is a CronJob as well and time passes: `WF(JobStep)`, `WF(Hour)`. The
synchronisation of guests is scheduled: `WF(SyncStep)`; pipelines, retries and
administrators are not fair. For the healing the coordinator boots, its symptoms
get into the logs, timers fire, scripts run to their end, Pacemaker does what it
has to do and time passes: weak fairness of `Boot`, `Storm`, `Detect` and
`ScriptStep` of each process, `Pacemaker` and `Tick`. Nothing obliges the radio
to stay well. In every one of these, how often things fail is bounded, when is
not.

Pipelines have no fairness: no property asks them to finish, and a pipeline
that hangs may keep `Busy`. Device recovery is never assumed: liveness
properties are conditional on the device staying reachable.

## 4. Proofs

`PushPipeline_proofs` proves, for any sets of devices, lines and pipelines:

* `TypeCorrect`: `PushSpec => []PushTypeOK`.
* `NothingUnreportedIsLost`: `PushSpec => NoUnreportedLoss`, assuming `Quiet`,
  `Repeated = {}` and a gate that does not fail.
* `DeployIsBounded` and `SessionIsBounded`: `PushSpec => []DeployStaysBetween`
  and `PushSpec => SessionStaysBetween`, assuming `Quiet` and `Serial`.
* `GreenIsDeployed` and `PushRollsForward`: `PushSpec => GreenMeansDeployed` and
  `PushSpec => RollsForward`, assuming `Quiet`, `Serial` and `Pipefail`.
* `DeviceLosesNothing`, `DeviceIsDeployed` and `DeviceIsBounded` say the same of
  a single device, and ask of the site no more than what concerns that device,
  in the behaviour at hand: nobody edits it while a pipeline works on it
  (`HandsOff`), the gate script does not fail on it (`Gated`), no two pipelines
  work on it at once (`Alone`). Elsewhere anything may happen. The first needs
  no `Alone`, and allows for `Repeated` lines by name; the third no `Pipefail`.

`DriftSync_proofs` proves, for any devices, lines and mishaps and without any
assumption on the site:

* `SyncTypeCorrect`: `SyncSpec => []SyncTypeOK`.
* `PushesOnlyDrift`: `SyncSpec => PublishesOnlyDrift`.
* `GreenIsVerified`: `SyncSpec => GreenMeansVerified`.
* `SyncMirrors`: `SyncSpec => MirrorsDevices`.

`CiscoNetwork_proofs` carries all of this over to the composition, each result
under the assumptions it has above: `NetworkTypeCorrect`; of the drift job
`NetworkPushesOnlyDrift`, `NetworkGreenIsVerified` and `NetworkMirrors`; of the
pipelines `NetworkLosesNothing`, `NetworkIsBounded`, `NetworkSessionIsBounded`, `NetworkGreenIsDeployed` and
`NetworkRollsForward`; of a single device `NetworkDeviceLosesNothing` and
`NetworkDeviceIsDeployed`.

`SeaweedReconciler_proofs`, for any volumes, servers, buckets, quotas and
mishaps: `SeaTypeCorrect`; `GreenHasReclaimed`: `SeaSpec => GreenMeansReclaimed`;
`GreenHasQuotas`: `SeaSpec => GreenMeansQuotas`; `RulesOfTheUnknown`:
`SeaSpec => UnrulesOnlyUnknown`.

`ProxmoxGuests_proofs`, for any finite sets of guests and pipelines and any
bounds: `GuestTypeCorrect`; `OutagesAreTold`: `GuestSpec => []OutageIsTold`;
`LossesNeedFailures`: `GuestSpec => LossNeedsFailures`; `GreenHasDeployed`:
`GuestSpec => GreenIsDeployed`; `FewAreDeleted`: `GuestSpec => SyncDeletesFew`;
`HostsAreMirrored`: `GuestSpec => MirrorsHosts`.

`CnpgJanitor_proofs`, for any clusters, backups and thresholds:
`CnpgTypeCorrect`; `ReleasesOnlyStuckSafely`: `CnpgSpec => Slots!SlotsSafe`, the
refinement of `BackupSlots` without its fairness; `GreenProvesFresh`:
`CnpgSpec => GreenMeansFresh`.

`ZigbeeAutoheal_proofs`, for any nodes, cooldown and number of troubles:
`ZigbeeTypeCorrect`; `PowerComesBack`: `ZigbeeSpec => []DownInHand`.

About the pipeline everything rests on how jobs go through their devices
(`LoopInv`): what a job has left to do are devices of its commit, and a pipeline
has one session at most, with a device its deploy job is not through with. The
invariants are then stated for one device, and hold of the site because they
hold of each device.

The argument for loss (`RecordedInv(d)`): `running[d] \subseteq recorded[d]`
cannot be an invariant, since edits break it, and the property alone says
nothing of the verdict a deployment relies on. What is inductive has three
parts. A pipeline at work has only recorded lines in HEAD and HEAD^
(`HeadRecorded`). If the gate has cleared the device, it holds only known lines
(`ClearedKnown`); cleared means looked at with no drift found so far, or the
gate is over. The backup of an open session holds only known lines
(`BackupKnown`). It is preserved because hands are off such a device, because
any session, of whatever pipeline, adds only lines of its HEAD or of its backup,
and because `recorded` only grows.

The argument for the deployment (`DeployInv(d)`): as long as the diff job met
no failure, the live configuration of a device it has handled still is its
`base` (`Diffed`), so the deploy job starts at one end of the band between
`base` and HEAD (`Banded`, which is `DeployStaysBetween`). The backup of a
session holds no line that neither of the two holds, the session stays between
its backup and HEAD, and one about to save is at HEAD exactly (`InSession`). The
band is closed under taking off lines that are only in `base`, adding lines that
are only in HEAD, and adding back such a backup, which is why partial
application, rollback by addition and retry all stay inside; applying the
*whole* remediation anywhere inside the band arrives at HEAD (`EnteredBetween`).
Finally a device handled in a job whose flag is down is at HEAD (`Settled`), and
the flag records every other outcome, which is where `Pipefail` is needed. All
this is about a device that one pipeline at a time works on (`Alone`); with
`Serial` that is every device (`AloneInv`).

The refinement of `Rollout` takes these invariants. At the device a step of a
pipeline is an arrival or changes nothing (`RollDevice`), because a device that
`Holds` the commit keeps it (`HoldsStays`): partial effects are made of lines
HEAD has or lacks already, and the backup of a session that finds the device at
HEAD brings back nothing else. A verdict is a beginning, a success or a giving
up (`RollJobs`); it is a success only with every device there, by `Settled`.

The argument for the drift job (`JobInv`) has two parts. As long as the
checkout is the tip of `main`, `main` is the commit that was cloned, and the
checkout differs from it only where the second script has handled a device and got an acceptable text from it (`PublishInv`);
a push from elsewhere falsifies the premise at the moment it would falsify the
conclusion, and `git push` is accepted only while the premise holds. And what a
script has handled is either noted as failed, blocked or drifted, or is in the
checkout as it was read (`VerifyInv`); status 0 leaves none of the former but
acknowledged failures.

The refinement of `Mirror` by the drift job needs the part of this that is about
`main` (`StagedInv`): while the checkout is the tip, it differs from `main` only
in what is staged, so a push that is accepted publishes just that. Handling a
device is `Take` or nothing (`MirrorDevice`), since what is copied is read in
the same exchange. Around the job a step moves `main` (`Others`) or devices
(`Change`), never both (`OneSideMoves`).

The argument for reclaiming (`ReclaimInv`): while no list lacked a server, a
volume that was not compacted has at least the garbage the plan was made from
(`StillThere`), so one that is seen halved was compacted; and only the sight of
one lets the job go on from the head to the rest and end without a failure
(`SeenHalved`). For quotas (`QuotaInv`): what nobody touched since the
listing is as it was listed (`ListingIsTrue`), a rule of a bucket that is gone
is among those to be deleted while the deletion lasts (`RulesWillGo`) and
afterwards is not there, and once the commands are given the quotas are Git's
(`QuotasAreSet`). `UnrulesOnlyUnknown` follows from `ListingIsTrue`, since what
is to be deleted was never in the listing.

The argument for outages (`ToldInv`): `OutageIsTold` itself is not inductive,
since a pipeline gives a guest up by moving on. The strengthening says which
steps leave a guest accounted for (`Accounts`), and that a pipeline nobody
started yet accounts for nothing (`NewPipes`). For loss and deployment
(`SafeInv`): what a pipeline knows of a guest that nobody else wrote to since is
true at each of its steps, or a request has failed. For the cap (`CapInv`):
while the checkout is the tip of `main`, the files the job has deleted or will
delete of a block (`Doomed`) are at most `MaxDeletions`, because they are fixed
when the block is listed. The same bound is the one on `Publish` in the
refinement of `Mirror`, where a visit to a guest is `Take` when it was listed,
`Drop` when it was not, or the end of the run; that a run starts with an
up-to-date checkout is `FreshInv`.

The janitor's refinement needs that an object in `intact` is stuck
(`IntactIsStuck`): a write takes it out of the set, and age alone makes nothing
less stuck. Freshness needs that what was read of the schedules still holds when
the clusters are read (`FiredInTime`): those let off as new still are new, or
newer; `late` is the distance from the clock the run started with.

The power of the coordinator (`HandInv`): as long as no command failed, a port that is off has a reset
that is about to switch it on, and a radio that boots has one that waits for it.

In the composition a step is a step of the pipelines, of the drift job or of
their surroundings (`NetworkStep`). The drift job leaves the variables of the
pipelines alone and never takes a line out of `recorded`, which is all the
pipeline's invariants know of `main`; a pipeline's step leaves the drift job
alone except that a push falsifies `tip` (`PipelineMovesTip`). So either
invariant survives the other's steps.

Only model-checked: everything about liveness (`Converges`,
`ForgottenAckReRaises`, `NetworkConverges`, `WalkResumes`, `BacklogDrains`,
`QuotasFollowGit`, `DeadScheduleIsRed`, `GitFollowsHosts`, `OneHangHeals`,
`HealsOrIsGivenUp` and the fairness half of `ReleasesOnlyStuck`): fairness and
ENABLED are beyond the proof system.

Every property has a mutant in `PROJECT.json`: a definition next to the one it
replaces, with a plausible bug, under which the property fails in its run.

## 5. Plan

Done: `NetworkFleet`, `PushPipeline`, `DriftSync`, `CiscoNetwork` with `Rollout`
and `Mirror`; `SeaweedReconciler` with `BucketQuotas`; `ProxmoxGuests` with
`Mirror`; `CnpgJanitor` with `BackupSlots`; `ZigbeeAutoheal`; for each the
theorems of section 4, which are all its safety properties that hold.

Left, in this order:

1. A specification like `Rollout` for the deployment of guests. It is weaker
   there, since overlapping pipelines may install what another one uploaded:
   `GreenIsDeployed` speaks only of guests nobody else wrote to.
2. A deployment of a commit run again after it passed, with its old artifacts:
   what is left of `RollsForward` and `NoUnreportedLoss` then.
3. The Galera backup script, if it turns out to have enough behaviour.
