----------------------------- MODULE MCI2sStream ----------------------------
(* Instances of I2sStream for TLC: the constants are in the .cfg files.    *)
EXTENDS I2sStream
=============================================================================
