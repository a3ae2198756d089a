------------------------------- MODULE MCGuests -----------------------------
(* One host whose guests are all of one kind.  Commits to both guests meet *)
(* an edit and a failure, a commit to one guest an edit and two failures;  *)
(* two pipelines for one guest meet one another and a failure; one that is *)
(* retried meets an edit and a failure.                                    *)
EXTENDS ProxmoxGuests

CONSTANTS b1, g1, p1

SameBlock == [g \in Guest |-> b1]

AllFiles == [edit |-> 1, mishap |-> 1, tries |-> 0, pipes |-> {p1}, files |-> Guest]
OneFile  == [edit |-> 1, mishap |-> 2, tries |-> 0, pipes |-> {p1}, files |-> {g1}]
Overlap  == [edit |-> 0, mishap |-> 1, tries |-> 0, pipes |-> Pipe, files |-> {g1}]
Again    == [edit |-> 1, mishap |-> 1, tries |-> 1, pipes |-> {p1}, files |-> {g1}]

GuestBounds == {AllFiles, OneFile, Overlap, Again}
=============================================================================
