---------------------------- MODULE MCStaleDirs ----------------------------
(* Instances of StaleDirs for TLC: which process each thread belongs to.   *)
EXTENDS StaleDirs, TLC

CONSTANTS t1, t2, h1, h2

\* Two processes of one thread each.
TwoHosts == t1 :> h1 @@ t2 :> h2
\* One process of two threads.
OneHost == t1 :> h1 @@ t2 :> h1

Symmetry == Permutations(Dirs)
=============================================================================
