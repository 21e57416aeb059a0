------------------------------ MODULE MCSessions ------------------------------
(* Small instances of Sessions for TLC.                                    *)
EXTENDS Sessions, TLC

CONSTANTS r1, r2, ann, s1, s2
=============================================================================
