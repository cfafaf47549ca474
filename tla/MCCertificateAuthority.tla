----------------------- MODULE MCCertificateAuthority -----------------------
(***************************************************************************)
(* Two callers and two sockets over three runs of the program.             *)
(***************************************************************************)
EXTENDS CertificateAuthority

CONSTANTS a, b, s1, s2

=============================================================================
