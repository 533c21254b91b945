---------------------------- MODULE MCAtomicWrite ----------------------------
(***************************************************************************)
(* AtomicWrite for TLC.                                                    *)
(***************************************************************************)
EXTENDS AtomicWrite, TLC

Symmetry == Permutations(Call) \cup Permutations(Proc)
==============================================================================
