------------------------------ MODULE Intents ------------------------------
(***************************************************************************)
(* What a receipt promises, with no accounts, rent, tasks or slots: an     *)
(* intent is proposed, and is then carried out at most once or forgotten;  *)
(* carrying it out touches the claims of its parties alone, one person     *)
(* among them at most, by what its movements add up to, whatever their     *)
(* order.                                                                  *)
(***************************************************************************)
EXTENDS Naturals, Sequences, FiniteSets

CONSTANTS Wallets, Pdas, Mints, Places, Terms, None

VARIABLES
    pending,  \* pending[a]: None, or the terms proposed at a
    claims    \* claims[o][m]: what owner o is owed of mint m

vars == <<pending, claims>>

Owners == Wallets \cup Pdas
Parties(t) == {t.owners[i] : i \in 1..Len(t.owners)}

(* The sums of a list's parts, from none of them to all.                   *)
Sums(s) ==
    LET sum[i \in 0..Len(s)] == IF i = 0 THEN 0 ELSE sum[i - 1] + s[i]
    IN  sum

(* What `o` has given and got of a mint after each movement.               *)
Given(t, o, m) ==
    Sums([i \in 1..Len(t.movements) |->
             IF t.owners[t.movements[i].from] = o /\ t.movements[i].mint = m
             THEN t.movements[i].amount ELSE 0])

Got(t, o, m) ==
    Sums([i \in 1..Len(t.movements) |->
             IF t.owners[t.movements[i].to] = o /\ t.movements[i].mint = m
             THEN t.movements[i].amount ELSE 0])

Init ==
    /\ pending = [a \in Places |-> None]
    /\ claims \in [Owners -> [Mints -> Nat]]

Propose(a) ==
    /\ pending[a] = None
    /\ \E t \in Terms : pending' = [pending EXCEPT ![a] = t]
    /\ UNCHANGED claims

CarryOut(a) ==
    /\ pending[a] # None
    /\ pending' = [pending EXCEPT ![a] = None]
    /\ LET t == pending[a]
           last == Len(t.movements)
       IN  /\ \A v, w \in Parties(t) \cap Wallets : v = w
           /\ \A o \in Owners, m \in Mints :
                 claims'[o][m] + Given(t, o, m)[last] = claims[o][m] + Got(t, o, m)[last]

(* Time passes over everything proposed.                                   *)
Forget ==
    /\ pending' = [a \in Places |-> None]
    /\ UNCHANGED claims

(* Claims also move outside receipts: one owner's, or a program's and      *)
(* another owner's.                                                        *)
Pay(src, dst) ==
    /\ UNCHANGED pending
    /\ src = dst \/ src \in Pdas \/ dst \in Pdas
    /\ \A o \in Owners \ {src, dst} : claims'[o] = claims[o]

Next ==
    \/ \E a \in Places : Propose(a) \/ CarryOut(a)
    \/ Forget
    \/ \E src, dst \in Owners : Pay(src, dst)

Spec == Init /\ [][Next]_vars

=============================================================================
