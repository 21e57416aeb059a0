------------------------------ MODULE MCCluster ------------------------------
(* A small instance of Cluster for TLC.                                    *)
EXTENDS Cluster, TLC

CONSTANTS s1, s2

ServerSymmetry == Permutations({s1, s2})
=============================================================================
