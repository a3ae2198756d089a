------------------------------- MODULE Rollout ------------------------------
(***************************************************************************)
(* What a push to main promises the devices of its commit, as if nothing   *)
(* were ever half done: devices arrive at the commit one after the other,  *)
(* none that has arrived leaves it again, and only when all have arrived   *)
(* does the push succeed.  deploy_cisco_configs of ci/cisco.yml keeps it   *)
(* with deploy.py processes that are refused, cut off, rolled back and     *)
(* retried.                                                                *)
(***************************************************************************)
CONSTANTS
    Release,    \* pushes to main
    Target      \* devices

VARIABLES
    verdict,    \* how each push stands
    scope,      \* the devices a push is being rolled out to
    there       \* those of them that are at its commit

rolloutVars == <<verdict, scope, there>>

RolloutInit ==
    /\ verdict = [p \in Release |-> "none"]
    /\ scope = [p \in Release |-> {}]
    /\ there = [p \in Release |-> {}]

(* The roll-out begins; some devices may hold the commit already.          *)
Begin(p) ==
    /\ verdict[p] = "none"
    /\ verdict' = [verdict EXCEPT ![p] = "running"]
    /\ \E S \in SUBSET Target, A \in SUBSET Target :
         /\ A \subseteq S
         /\ scope' = [scope EXCEPT ![p] = S]
         /\ there' = [there EXCEPT ![p] = A]

(* A device arrives, to stay.                                              *)
Arrive(p, d) ==
    /\ verdict[p] = "running"
    /\ d \in scope[p] \ there[p]
    /\ there' = [there EXCEPT ![p] = @ \cup {d}]
    /\ UNCHANGED <<verdict, scope>>

Succeed(p) ==
    /\ verdict[p] = "running"
    /\ there[p] = scope[p]
    /\ verdict' = [verdict EXCEPT ![p] = "passed"]
    /\ UNCHANGED <<scope, there>>

(* Before or during the roll-out: it promises nothing any more.            *)
GiveUp(p) ==
    /\ verdict[p] \in {"none", "running"}
    /\ verdict' = [verdict EXCEPT ![p] = "failed"]
    /\ scope' = [scope EXCEPT ![p] = {}]
    /\ there' = [there EXCEPT ![p] = {}]

RolloutNext ==
    \E p \in Release :
      \/ Begin(p)
      \/ \E d \in Target : Arrive(p, d)
      \/ Succeed(p)
      \/ GiveUp(p)

RolloutSpec == RolloutInit /\ [][RolloutNext]_rolloutVars
=============================================================================
