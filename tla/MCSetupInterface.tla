------------------------ MODULE MCSetupInterface ------------------------
(* SetupInterface on a small instance; the bounds are in the configuration. *)
EXTENDS SetupInterface
=============================================================================
