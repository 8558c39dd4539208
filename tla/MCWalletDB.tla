----------------------------- MODULE MCWalletDB -----------------------------
(* Two users of wallet.dat, two rewrites and a backup. *)
EXTENDS WalletDB
=============================================================================
