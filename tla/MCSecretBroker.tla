--------------------------- MODULE MCSecretBroker ---------------------------
(* Small instances of SecretBroker for TLC. *)
EXTENDS SecretBroker
=============================================================================
