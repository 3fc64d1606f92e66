---------------------------- MODULE MCRuntimeStore ----------------------------
(* Small instances of RuntimeStore for TLC. *)
EXTENDS RuntimeStore, TLC

CONSTANTS u1, u2, u3, v1, t1, t2
===============================================================================
