---------------------------- MODULE MCCertTrust -----------------------------
(* CertTrust instantiated for TLC.                                          *)

EXTENDS CertTrust, TLC

Symmetry == Permutations(Certs)

=============================================================================
