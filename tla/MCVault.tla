------------------------------ MODULE MCVault ------------------------------
(* The command line changes the passphrase; a window, or an agent's server, *)
(* opens the same vault.                                                    *)
EXTENDS Vault
CONSTANTS cli, window, old, new, typo
=============================================================================
