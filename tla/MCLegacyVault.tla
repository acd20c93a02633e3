---------------------------- MODULE MCLegacyVault ----------------------------
(***************************************************************************)
(* LegacyVault for TLC: guardians, and heirs, are interchangeable, so      *)
(* permuting either set maps behaviours to behaviours.                     *)
(***************************************************************************)
EXTENDS LegacyVault, TLC

Symmetry == Permutations(Guardians) \cup Permutations(Heirs)
=============================================================================
