----------------------------- MODULE MCFileStore ------------------------------
(* Small instances of FileStore for TLC.                                   *)
EXTENDS FileStore, TLC

CONSTANTS p1, p2, ann

\* Two tabs of one user, whose uploads can share a key.
TwoTabs == p1 :> ann @@ p2 :> ann

TabSymmetry == Permutations({p1, p2})
=============================================================================
