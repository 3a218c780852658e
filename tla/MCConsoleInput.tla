---------------------------- MODULE MCConsoleInput ----------------------------
(* ConsoleInput on small instances; the bounds are in the configurations. *)
EXTENDS ConsoleInput
=============================================================================
