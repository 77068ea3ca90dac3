-------------------------- MODULE MC_FramePipeline --------------------------
(* FramePipeline with the thresholds of rdpd_slice (4 and 1), a write     *)
(* buffer that is at alert after two frames, a codec that holds up to two  *)
(* frames, two display orientations and enough frames to cross the pause  *)
(* threshold, come back under the resume threshold and cross it again.    *)
EXTENDS FramePipeline
=============================================================================
