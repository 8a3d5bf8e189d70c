------------------------------- MODULE MCSweep -------------------------------
(***************************************************************************)
(* Small instances of CloseSweep beside those of Vault: the account list   *)
(* of a close, for every table the vault reaches.                          *)
(***************************************************************************)
EXTENDS MCVault, CloseSweep

CONSTANT Silver

=============================================================================
