---------------------------- MODULE MCAutoDeploy ----------------------------
(* Values of the constants of AutoDeploy for TLC.                          *)
EXTENDS AutoDeploy, TLC

CONSTANTS m1, m2, t1, t2, t3, r1, a1, a2

Symmetry == Permutations(Mutations) \union Permutations(Tasks)
            \union Permutations(Admins) \union Permutations(Configs)
=============================================================================
