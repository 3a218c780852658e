---------------------------- MODULE MCAdbStreams ----------------------------
(* AdbStreams on small instances; the bounds are in the configurations.     *)
EXTENDS AdbStreams
=============================================================================
