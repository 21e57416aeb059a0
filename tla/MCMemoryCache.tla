---------------------------- MODULE MCMemoryCache ----------------------------
(* A small instance of MemoryCache for TLC.                                *)
EXTENDS MemoryCache

CONSTANTS p1, p2, v1
=============================================================================
