---------------------------- MODULE MCSdFatRead -----------------------------
(* A file with a short name and one with a long name, for TLC.             *)
EXTENDS SdFatRead

CONSTANTS short, long
=============================================================================
