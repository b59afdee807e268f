-------------------------- MODULE MC_VaultSession --------------------------
(* Small instances of VaultSession.                                         *)
EXTENDS VaultSession, TLC

\* The pages behave alike, and so do the vaults that are all synced or not.
PageSymmetry == Permutations(Pages)

PageAndVaultSymmetry == Permutations(Pages) \union Permutations(Vaults)
=============================================================================
