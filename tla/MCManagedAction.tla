--------------------------- MODULE MCManagedAction ---------------------------
(* ManagedAction has one small constant: its runs need no definitions.     *)
EXTENDS ManagedAction
=============================================================================
