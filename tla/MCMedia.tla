----------------------------- MODULE MCMedia -----------------------------
(***************************************************************************)
(* Instances of MediaRequirements for TLC.                                 *)
(***************************************************************************)
EXTENDS MediaRequirements, TLC

CONSTANTS p1, p2, t1, t2, x1, x2, k1, k2

(* Peers, transports, producers and consumers are interchangeable.         *)
Symmetry == Permutations({p1, p2}) \cup Permutations({t1, t2})
            \cup Permutations({x1, x2}) \cup Permutations({k1, k2})
==========================================================================
