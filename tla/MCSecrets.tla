------------------------------ MODULE MCSecrets ------------------------------
(* A small instance of Secrets for TLC. *)
EXTENDS Secrets

CONSTANTS jwt, dsn

\* The required secret first, then the optional one
RequiredFirst == <<jwt, dsn>>
=============================================================================
