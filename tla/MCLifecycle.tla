---------------------------- MODULE MCLifecycle ----------------------------
(* All options; nothing is bounded.                                          *)
EXTENDS Lifecycle
=============================================================================
