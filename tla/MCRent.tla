------------------------------- MODULE MCRent -------------------------------
(* A small instance of LedgerRent, with MCVault's constants.               *)
EXTENDS MCVault, LedgerRent

=============================================================================
