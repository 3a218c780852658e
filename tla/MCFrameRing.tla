---------------------------- MODULE MCFrameRing ----------------------------
(* Instances of FrameRing small enough for TLC. *)
EXTENDS FrameRing
=============================================================================
