---------------------------- MODULE MCZyphraNode ----------------------------
(* Small instances of the node network.                                    *)
EXTENDS ZyphraNode, TLC

NodeSymmetry == Permutations(Nodes)
=============================================================================
