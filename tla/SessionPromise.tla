--------------------------- MODULE SessionPromise ---------------------------
(***************************************************************************)
(* What a wallet is promised about its session keys, with no slots, zero   *)
(* keys or accounts: per program a queue of at most Ring distinct          *)
(* persisted keys, oldest first, and at most one key lent until a time.    *)
(***************************************************************************)
EXTENDS Naturals, SequencesExt

CONSTANTS
    Wallets, Programs, Ring,
    Grantable,  \* the keys a wallet may grant
    Times,      \* the times a loan may end at
    Nobody      \* no key is lent

VARIABLES
    held,  \* held[w][p]: the persisted keys, oldest first
    lent,  \* lent[w][p]: Nobody, or the temporary key and when it dies
    time

vars == <<held, lent, time>>

Has(w, p, k) == \E i \in 1..Len(held[w][p]) : held[w][p][i] = k

Init ==
    /\ held = [w \in Wallets |-> [p \in Programs |-> <<>>]]
    /\ lent = [w \in Wallets |-> [p \in Programs |-> Nobody]]
    /\ time = 0

(* A new key joins at the end; one more than Ring and the oldest goes.     *)
Persist(w, p, k) ==
    /\ ~Has(w, p, k)
    /\ held' = [held EXCEPT ![w][p] = Append(IF Len(@) = Ring THEN Tail(@) ELSE @, k)]
    /\ UNCHANGED <<lent, time>>

Lend(w, p, k, t) ==
    /\ t > time
    /\ lent' = [lent EXCEPT ![w][p] = [key |-> k, until |-> t]]
    /\ UNCHANGED <<held, time>>

(* A forgotten key is gone both ways, the younger ones moving up.          *)
Forget(w, p, k) ==
    /\ IF Has(w, p, k)
       THEN \E i \in 1..Len(held[w][p]) :
               /\ held[w][p][i] = k
               /\ held' = [held EXCEPT ![w][p] = RemoveAt(@, i)]
       ELSE UNCHANGED held
    /\ lent' = [lent EXCEPT ![w][p] = IF @ # Nobody /\ @.key = k THEN Nobody ELSE @]
    /\ UNCHANGED time

DropProgram(w, p) ==
    /\ held' = [held EXCEPT ![w][p] = <<>>]
    /\ lent' = [lent EXCEPT ![w][p] = Nobody]
    /\ UNCHANGED time

Leave(w) ==
    /\ held' = [held EXCEPT ![w] = [p \in Programs |-> <<>>]]
    /\ lent' = [lent EXCEPT ![w] = [p \in Programs |-> Nobody]]
    /\ UNCHANGED time

Pass == time' = time + 1 /\ UNCHANGED <<held, lent>>

Next ==
    \/ \E w \in Wallets, p \in Programs :
        \/ \E k \in Grantable :
            \/ Persist(w, p, k)
            \/ \E t \in Times : Lend(w, p, k, t)
            \/ Forget(w, p, k)
        \/ DropProgram(w, p)
    \/ \E w \in Wallets : Leave(w)
    \/ Pass

Spec == Init /\ [][Next]_vars

=============================================================================
