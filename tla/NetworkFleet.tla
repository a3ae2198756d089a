---------------------------- MODULE NetworkFleet ----------------------------
(***************************************************************************)
(* The state the Cisco automation acts on: the device configurations kept  *)
(* on origin/main (network/configs/<type>/<device>) and the configurations *)
(* the devices hold.  The push pipeline (PushPipeline) writes the devices  *)
(* from Git, the scheduled drift job (DriftSync) writes Git from the       *)
(* devices, and administrators change both sides by hand.                  *)
(*                                                                         *)
(* A configuration is the set of its lines that differ between versions;   *)
(* the lines every version shares are left out, so {} is not an empty      *)
(* file.  Lines the dynamic-content filter strips are left out too.        *)
(***************************************************************************)
EXTENDS Naturals

CONSTANTS
    Dev,        \* devices with a file under network/configs
    Line,       \* configuration lines
    Firewall,   \* devices under network/configs/Firewall
    Uncovered,  \* lines check-whitelist-membership.py refuses in them
    MaxSsh      \* bound: manual edits over SSH in one behaviour

ASSUME FleetAssumption ==
    /\ Firewall \subseteq Dev
    /\ Uncovered \subseteq Line
    /\ MaxSsh \in Nat

VARIABLES
    main,       \* device configurations at the tip of origin/main
    recorded,   \* every line any commit of main ever held, per device
    tip,        \* TRUE while the drift job's checkout is the tip of main
    running,    \* running-config of each device
    startup,    \* startup-config of each device (survives a reload)
    ssh         \* manual edits still to come

gitVars   == <<main, recorded, tip>>
deviceVars == <<running, startup>>
fleetVars == <<main, recorded, tip, running, startup, ssh>>

Config == SUBSET Line
Tree   == [Dev -> Config]

(* The values Git and the devices may hold.                                *)
FleetTypeOK ==
    /\ main \in Tree
    /\ recorded \in Tree
    /\ tip \in BOOLEAN
    /\ running \in Tree
    /\ startup \in Tree
    /\ ssh \in 0..MaxSsh

(* Everything starts synchronised: Git, running and saved configurations.  *)
FleetInit ==
    /\ main \in Tree
    /\ recorded = main
    /\ tip = FALSE
    /\ running = main
    /\ startup = main
    /\ ssh = MaxSsh

(* check-whitelist-membership.py on the text of a device's file.  Jobs run *)
(* it for firewalls only.                                                  *)
WhitelistRefuses(d, cfg) == d \in Firewall /\ cfg \cap Uncovered # {}

(* Commits `old' (the earlier commits of a push) and then `new' on main.   *)
Commit(old, new) ==
    /\ main' = new
    /\ recorded' = [d \in Dev |-> recorded[d] \cup old[d] \cup new[d]]

(***************************************************************************)
(* What people and power do to a device.                                   *)
(***************************************************************************)

(* An administrator adds or removes one line over SSH, and may save.       *)
SshEdit(d) ==
    /\ ssh > 0
    /\ ssh' = ssh - 1
    /\ \E l \in Line :
         running' = [running EXCEPT ![d] = IF l \in @ THEN @ \ {l} ELSE @ \cup {l}]
    /\ \/ startup' = [startup EXCEPT ![d] = running'[d]]
       \/ UNCHANGED startup
    /\ UNCHANGED gitVars

(* A reload starts from the saved configuration.                           *)
Reload(d) ==
    /\ running[d] # startup[d]
    /\ running' = [running EXCEPT ![d] = startup[d]]
    /\ UNCHANGED <<startup, ssh, gitVars>>
=============================================================================
