-------------------------------- MODULE Mirror -------------------------------
(***************************************************************************)
(* What a scheduled synchronisation of main with the systems it describes  *)
(* promises, as if it had no checkout that can grow old.  While it runs,   *)
(* it stages the texts of files as their systems hold them, and in one     *)
(* step, or not at all, it edits just these files in main as main is at    *)
(* that moment: no commit is undone by it, and no text is put there that   *)
(* its system did not have while the run lasted.                           *)
(*                                                                         *)
(* Both auto_sync_drift.py and pve_sync_drift.sh keep this promise, with a *)
(* checkout, a commit made in it, and a push that is rejected if main has  *)
(* moved.                                                                  *)
(***************************************************************************)
EXTENDS Naturals, FiniteSets

CONSTANTS
    File,       \* files of main, each describing a system
    Gone,       \* the text of a file that is not there
    Refused,    \* pairs of a file and a text that must not be published
    Group,      \* groups of files, from which those may be dropped whose
                \* systems do not show up in a listing ...
    Cap         \* ... but no more than this many in one run

VARIABLES
    repo,       \* main
    source,     \* what the systems hold
    run,        \* idle, on, or void: on, but it will publish nothing
    staged      \* the texts of the files it has staged, a function on these

mirrorVars == <<repo, source, run, staged>>

Nothing == [f \in {} |-> Gone]

MirrorInit ==
    /\ run = "idle"
    /\ staged = Nothing

(* The systems change at any time.                                         *)
Change == UNCHANGED <<repo, run, staged>>

(* Someone else commits; a run may have to give in to that.                *)
Others ==
    /\ \/ UNCHANGED <<run, staged>>
       \/ run = "on" /\ run' = "void" /\ staged' = Nothing
    /\ UNCHANGED source

Begin ==
    /\ run = "idle"
    /\ run' = "on"
    /\ UNCHANGED <<repo, source, staged>>

(* f gets the text t in main, unless that is what main has anyway.         *)
Stage(f, t) ==
    /\ run = "on"
    /\ \/ staged' = [g \in DOMAIN staged \cup {f} |-> IF g = f THEN t ELSE staged[g]]
       \/ t = repo[f] /\ staged' = [g \in DOMAIN staged \ {f} |-> staged[g]]
    /\ UNCHANGED <<repo, source, run>>

Take(f) ==
    /\ <<f, source[f]>> \notin Refused
    /\ Stage(f, source[f])

Drop(f) ==
    /\ f \in UNION Group
    /\ Stage(f, Gone)

Dropped(G) == {f \in G \cap DOMAIN staged : repo[f] # Gone /\ staged[f] = Gone}

Publish ==
    /\ run = "on"
    /\ \A G \in Group : Cardinality(Dropped(G)) <= Cap
    /\ repo' = [f \in File |-> IF f \in DOMAIN staged THEN staged[f] ELSE repo[f]]
    /\ run' = "idle"
    /\ staged' = Nothing
    /\ UNCHANGED source

(* There is nothing to publish, something is in the way, or it fails.      *)
GiveUp ==
    /\ run # "idle"
    /\ run' = "idle"
    /\ staged' = Nothing
    /\ UNCHANGED <<repo, source>>

MirrorNext ==
    \/ Change
    \/ Others
    \/ Begin
    \/ \E f \in File : Take(f) \/ Drop(f)
    \/ Publish
    \/ GiveUp

MirrorSpec == MirrorInit /\ [][MirrorNext]_mirrorVars
=============================================================================
