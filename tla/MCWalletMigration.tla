------------------------- MODULE MCWalletMigration -------------------------
(* An instance of WalletMigration for TLC. *)
EXTENDS WalletMigration
=============================================================================
