------------------------------- MODULE MCPush -------------------------------
(* Model checking of PushPipeline: lines, and pipelines, are interchangeable. *)
EXTENDS PushPipeline, TLC

Interchangeable == Permutations(Line) \cup Permutations(Pipe)
=============================================================================
