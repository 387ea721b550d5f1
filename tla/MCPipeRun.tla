------------------------------ MODULE MCPipeRun ------------------------------
(* PipeRun for TLC: two messages, two stops and a deletion.                *)
EXTENDS PipeRun

CONSTANTS x1, x2, s1, s2, d1

MCSends   == {x1, x2}
MCStops   == {s1, s2}
MCDeletes == {d1}
=============================================================================
