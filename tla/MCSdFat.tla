------------------------------- MODULE MCSdFat ------------------------------
(* A small card for TLC: two files, one of them with a long name, in       *)
(* sectors of 2 bytes and 4 slots and clusters of 2 sectors.               *)
EXTENDS SdFat
CONSTANTS short, long
=============================================================================
