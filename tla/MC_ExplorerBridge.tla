--------------------------- MODULE MC_ExplorerBridge ---------------------------
(* Model-checking root for ExplorerBridge; constants come from the cfgs.   *)
EXTENDS ExplorerBridge
====
