------------------------------ MODULE MCSdCard ------------------------------
(* Small instances of SdCard for TLC: two sectors and two contents; every  *)
(* answer may be missing, every wait may run out and every error happen.   *)
EXTENDS SdCard

AllSpiFails == {"command", "token", "response", "programming", "init"}
AllMmcFails == {"idle", "taken", "reset", "accept", "data", "response", "transfer", "identify"}
=============================================================================
