--------------------------- MODULE MCSecretsList ----------------------------
(* SecretsListHistory with the constants of MCSecretsManager.              *)
EXTENDS MCSecretsManager, SecretsListHistory
=============================================================================
