---------------------------- MODULE MCWalletStore ----------------------------
(* An instance of WalletStore for TLC: a listener and a command on one database *)
EXTENDS WalletStore
=============================================================================
