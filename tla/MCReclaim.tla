------------------------------ MODULE MCReclaim -----------------------------
(* Three volumes, one of them sealed and one that never compacts, with two *)
(* mishaps at any moment; or two buckets, one with a quota in Git, changed *)
(* twice, with one mishap.  The disks have room for every volume, or not   *)
(* for the ordinary one: for some or none of those with garbage.           *)
EXTENDS SeaweedReconciler

CONSTANTS b1, v1

GitQuotas == [b \in Bucket |-> IF b = b1 THEN 1 ELSE 0]

Volumes == [mishap |-> 2, change |-> 0, garbage |-> 2, buckets |-> {}]
Tenants == [mishap |-> 1, change |-> 2, garbage |-> 0, buckets |-> Bucket]

Disks == {{}, {v1}}

StoreBudgets  == {Volumes, Tenants}
TenantBudgets == {Tenants}
=============================================================================
