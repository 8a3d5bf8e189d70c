------------------------------- MODULE MCVault -------------------------------
(***************************************************************************)
(* Small instances of Vault.  Each specification below keeps the whole     *)
(* state of Vault and takes the instructions one question is about.        *)
(***************************************************************************)
EXTENDS Vault

CONSTANTS Alice, House, Gold, Game

(* House is the Game's PDA; any other PDA belongs to another program.      *)
MCProgramOf == [p \in Pdas |-> IF p = House THEN Game ELSE CHOOSE g \in Programs : g # Game]

(* Alice brings one unit of gold, everybody else nothing.                  *)
GoldPurse == [o \in Owners |-> [m \in Mints |-> IF o = Alice /\ m = Gold THEN 1 ELSE 0]]

(* Alice brings four lamports, the rent floor among them, and a unit of    *)
(* every token.                                                            *)
MixedPurse == [o \in Owners |-> [m \in Mints |->
                  IF o # Alice THEN 0 ELSE IF m = Sol THEN 4 ELSE 1]]

EmptyPurse == [o \in Owners |-> [m \in Mints |-> 0]]

(* Value on two chains, with nothing said of privacy or sessions.          *)
CustodySpec == Init /\ [][OpenNext \/ ValueNext \/ DonateNext \/ DelegationNext]_vars

(* Value on one chain, for the slots it takes and the rent it rests on.    *)
SlotsSpec == Init /\ [][OpenNext \/ ValueNext \/ DonateNext]_vars

(* Value and session keys.                                                 *)
ConsentSpec == Init /\ [][OpenNext \/ ValueNext \/ SessionNext]_vars

----------------------------------------------------------------------------
(* What the documents say and the code does not do: the run expects the    *)
(* property to be violated.                                                *)

(* vault-program-spec.md:144, tokens(M).amount >= the sum over all ledgers *)
(* of entry(M).amount, for a Token-2022 mint that keeps a fee of every     *)
(* transfer: deposit credits what was sent, not what arrived.              *)
SolventWithFees == Solvent

=============================================================================
