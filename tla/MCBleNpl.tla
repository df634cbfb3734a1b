------------------------------ MODULE MCBleNpl ------------------------------
EXTENDS BleNpl

CONSTANTS q1, e1, c1, c2

(* The callouts share a queue, which the plain event can be put on as well.*)
MCHome == [c \in Callout |-> q1]
=============================================================================
