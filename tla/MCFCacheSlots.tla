---------------------------- MODULE MCFCacheSlots ----------------------------
(***************************************************************************)
(* FCacheSlots for TLC: files, inodes and addresses are interchangeable.   *)
(***************************************************************************)
EXTENDS FCacheSlots, TLC

Symmetry == Permutations(Files) \cup Permutations(Inodes) \cup Permutations(Objs)

=============================================================================
