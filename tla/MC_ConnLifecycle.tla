--------------------------- MODULE MC_ConnLifecycle ---------------------------
(* Model-checking root of ConnLifecycle; the constants are set in the     *)
(* ConnLifecycle*.cfg files, time is bounded by the constraint TimeBound.  *)
EXTENDS ConnLifecycle
==============================================================================
