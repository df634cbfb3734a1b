---------------------------- MODULE MCHostedCtrl ----------------------------
EXTENDS HostedCtrl

(* A feature request, whose answer names the feature, and the request that *)
(* also changes the link.                                                  *)
MCKind == {"btInit", "disconnect"}
MCMsg == [k \in MCKind |-> IF k \in Feature THEN "feature" ELSE "wifi"]
=============================================================================
