---------------------------- MODULE VaultClaims ----------------------------
(***************************************************************************)
(* What the vault promises, with no slots, chains, sessions or accounts:   *)
(* each owner has a claim in each mint, one reserve per mint backs them    *)
(* all, and value enters and leaves only against its owner's own claim     *)
(* while claims move only where a program is on one side.                  *)
(*                                                                         *)
(* The sum of the claims in a mint is counted unit by unit: unit k of      *)
(* owner o stands for the k-th token o is owed.                            *)
(***************************************************************************)
EXTENDS Naturals, FiniteSets

CONSTANTS Wallets, Pdas, Mints, MaxU64

VARIABLES
    claims,   \* claims[o][m]: what owner o is owed of mint m
    reserve   \* reserve[m]: what the vault can pay out of mint m

vars == <<claims, reserve>>

Owners == Wallets \cup Pdas
Amount == 0..MaxU64

Units(c, m) == {u \in Owners \X (1..MaxU64) : u[2] <= c[u[1]][m]}
Total(c, m) == Cardinality(Units(c, m))

(* Claims are u64 amounts and reserves are never overdrawn.                *)
TypeOK ==
    /\ claims \in [Owners -> [Mints -> Amount]]
    /\ reserve \in [Mints -> Nat]

(* Solvency: the reserve of a mint covers every claim on it.               *)
Solvent == \A m \in Mints : Total(claims, m) <= reserve[m]

Init ==
    /\ claims = [o \in Owners |-> [m \in Mints |-> 0]]
    /\ reserve = [m \in Mints |-> 0]

Deposit(w, m, a) ==
    /\ claims[w][m] + a <= MaxU64
    /\ claims' = [claims EXCEPT ![w][m] = @ + a]
    /\ reserve' = [reserve EXCEPT ![m] = @ + a]

Withdraw(w, m, a) ==
    /\ a <= claims[w][m]
    /\ a <= reserve[m]
    /\ claims' = [claims EXCEPT ![w][m] = @ - a]
    /\ reserve' = [reserve EXCEPT ![m] = @ - a]

Move(src, dst, m, a) ==
    /\ src # dst
    /\ {src, dst} \cap Pdas # {}
    /\ a <= claims[src][m]
    /\ claims[dst][m] + a <= MaxU64
    /\ claims' = [claims EXCEPT ![src][m] = @ - a, ![dst][m] = @ + a]
    /\ UNCHANGED reserve

(* Closing pays an owner everything it is owed.                            *)
Redeem(o) ==
    /\ \A m \in Mints : claims[o][m] <= reserve[m]
    /\ claims' = [claims EXCEPT ![o] = [m \in Mints |-> 0]]
    /\ reserve' = [m \in Mints |-> reserve[m] - claims[o][m]]

(* Anybody may add to a reserve without a claim.                           *)
Receive(m, a) ==
    /\ reserve' = [reserve EXCEPT ![m] = @ + a]
    /\ UNCHANGED claims

Next ==
    \/ \E w \in Wallets, m \in Mints, a \in Amount : Deposit(w, m, a) \/ Withdraw(w, m, a)
    \/ \E src, dst \in Owners, m \in Mints, a \in Amount : Move(src, dst, m, a)
    \/ \E o \in Owners : Redeem(o)
    \/ \E m \in Mints, a \in Amount : Receive(m, a)

Spec == Init /\ [][Next]_vars

=============================================================================
