----------------------------- MODULE MCDirCache -----------------------------
(* Symmetry of the sweeps of module DirCache, which has no liveness; and    *)
(* what the directory has at the start, which changes lead away from: all   *)
(* names, or a gap where one may be put between two others.                 *)
EXTENDS DirCache, TLC

SweepSymmetry == Permutations(Sweep)

MCInit == Init /\ remote \in {Name, Name \ {2}}
MCSpec == MCInit /\ [][Next]_vars

=============================================================================
