---------------------------- MODULE BackupSlots -----------------------------
(***************************************************************************)
(* What cnpg_janitor.py promises about the Backup objects of CloudNativePG *)
(* clusters, as if it saw and acted in one step.  A backup is under way    *)
(* until it is done, or is stuck in a state it does not leave.  What the   *)
(* janitor releases is stuck at that very moment, never done or under way; *)
(* others remove what is done or stuck, for reasons of their own.          *)
(***************************************************************************)
CONSTANT Backup

VARIABLE slot   \* what has become of each backup

SlotState == {"gone", "released", "done", "busy", "stuck"}

SlotsInit == slot \in [Backup -> {"gone"}]

(* A schedule or an administrator asks for a backup.                       *)
Request(b) ==
    /\ slot[b] \in {"gone", "released", "done"}
    /\ slot' = [slot EXCEPT ![b] = "busy"]

(* Some backups under way turn out to be stuck.                            *)
Wedge == \E W \in SUBSET {b \in Backup : slot[b] = "busy"} :
    slot' = [b \in Backup |-> IF b \in W THEN "stuck" ELSE slot[b]]

Finish(b) ==
    /\ slot[b] \in {"busy", "stuck"}
    /\ slot' = [slot EXCEPT ![b] = "done"]

(* Retention, an administrator or another janitor removes it.              *)
Forget(b) ==
    /\ slot[b] \in {"done", "stuck"}
    /\ slot' = [slot EXCEPT ![b] = "gone"]

(* The janitor removes it.                                                 *)
Release(b) ==
    /\ slot[b] = "stuck"
    /\ slot' = [slot EXCEPT ![b] = "released"]

SlotsNext ==
    \/ Wedge
    \/ \E b \in Backup : Request(b) \/ Finish(b) \/ Forget(b) \/ Release(b)

SlotsSafe == SlotsInit /\ [][SlotsNext]_slot

(* No backup stays stuck.                                                  *)
Unstick(b) == slot[b] = "stuck" /\ SlotsNext /\ slot'[b] # "stuck"

SlotsSpec == SlotsSafe /\ \A b \in Backup : WF_slot(Unstick(b))
=============================================================================
