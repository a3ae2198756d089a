------------------------------ MODULE MCZigbee ------------------------------
(* Two troubles and one reset of a node's alerts at a time, or one trouble *)
(* and two resets.                                                         *)
EXTENDS ZigbeeAutoheal

ZigbeeBounds == {[trouble |-> 2, alerts |-> 1], [trouble |-> 1, alerts |-> 2]}
=============================================================================
