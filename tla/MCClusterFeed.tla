--------------------------- MODULE MCClusterFeed ---------------------------
(* TLC instances of ClusterFeed. *)
EXTENDS ClusterFeed, TLC

CONSTANTS w1, w2, c1, c2, n1
=============================================================================
