-------------------------- MODULE MCBiometricQueue --------------------------
(***************************************************************************)
(* Instances of BiometricQueue for TLC.                                    *)
(***************************************************************************)
EXTENDS BiometricQueue, TLC

Interchangeable == Permutations(Submissions) \cup Permutations(Nonces)
=============================================================================
