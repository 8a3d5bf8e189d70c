----------------------------- MODULE Addresses -----------------------------
(***************************************************************************)
(* The public keys the vault tells apart, and what it can prove of one     *)
(* (utils/pda.rs).  A key is a point of the curve, which a person or a     *)
(* client can sign with, or it is not, and then it is an address derived   *)
(* by exactly one program, which alone can sign for it.                    *)
(***************************************************************************)
EXTENDS Naturals, FiniteSets

CONSTANTS
    Wallets,      \* on-curve keys that own ledgers
    Pdas,         \* off-curve keys that own ledgers
    SessionKeys,  \* on-curve keys a client mints and holds
    ZeroKey,      \* Pubkey::default()
    Programs,     \* the member programs
    ProgramOf     \* the program whose seeds derive each PDA

Owners == Wallets \cup Pdas
OnCurve == Wallets \cup SessionKeys
Keys == OnCurve \cup Pdas

ASSUME AddressesAssumption ==
    /\ IsFiniteSet(Owners)
    /\ OnCurve \cap Pdas = {}
    /\ ZeroKey \notin Keys \cup Programs
    /\ ProgramOf \in [Pdas -> Programs]

(* The curve test: a key no one can hold a private key for.                *)
IsPda(k) == k \in Pdas

\* Mutation of VerifyPdaOwner: any off-curve owner will do.
AnyPda(owner, program) == IsPda(owner)

(* The seeds passed with a call derive the owner's address under `program`.*)
VerifyPdaOwner(owner, program) == IsPda(owner) /\ ProgramOf[owner] = program

=============================================================================
