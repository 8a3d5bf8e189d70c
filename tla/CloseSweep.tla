----------------------------- MODULE CloseSweep -----------------------------
(***************************************************************************)
(* How close_ledger pays a ledger's tokens out: one list of accounts,      *)
(* walked by one cursor, in step with the table's entries.  An entry takes *)
(* the vault's reserve of its mint and an account of the owner's, and a    *)
(* third account, the mint itself, under Token-2022; an entry that is free *)
(* or holds nothing takes none.                                            *)
(*                                                                         *)
(* `t` is the table past SOL's slot, as a sequence of entries; `list` the  *)
(* accounts after the named ones; `held` what each reserve holds; `named`  *)
(* the token programs found anywhere among the accounts.                   *)
(***************************************************************************)
EXTENDS Vault, Sequences

CONSTANTS
    Checked,    \* the mints of Token-2022, whose transfers are checked
    ListBound   \* bound on the accounts of one close

ASSUME CloseSweepAssumption == Checked \subseteq Mints \ {Sol} /\ ListBound \in Nat

TokenPrograms == {"Token", "Token-2022"}
TokenProgram(m) == IF m \in Checked THEN "Token-2022" ELSE "Token"

(* What an account of the list can be to the sweep: the vault's canonical  *)
(* token account of a mint, one of the owner's, the mint, or none of these.*)
Stray == [kind |-> "stray", mint |-> Sol]
Accounts == [kind : {"reserve", "own"}, mint : Mints \ {Sol}]
                \cup [kind : {"mint"}, mint : Checked] \cup {Stray}

Unswept == [at |-> 1, ok |-> TRUE, paid |-> [m \in Mints |-> 0]]

(* The account `k` places on from the cursor; past the end there is none.  *)
Account(list, s, k) == IF s.at + k <= Len(list) THEN list[s.at + k] ELSE Stray

Skipped(e) == e.mint = Sol \/ e.amount = 0

(* require_reserve, token_fields and the mint's own check, entry by entry. *)
Admits(e, list, s, held, named) ==
    LET from == Account(list, s, 0)
        to == Account(list, s, 1)
    IN  /\ from = [kind |-> "reserve", mint |-> e.mint]
        /\ e.amount <= held[e.mint]
        /\ to = [kind |-> "own", mint |-> e.mint]
        /\ TokenProgram(e.mint) \in named
        /\ e.mint \in Checked => Account(list, s, 2) = [kind |-> "mint", mint |-> e.mint]

\* Mutation of Width: the cursor is left on a checked mint's account.
PairsOnly(e) == 2

Width(e) == IF e.mint \in Checked THEN 3 ELSE 2

Step(e, list, s, held, named) ==
    IF ~s.ok \/ Skipped(e) THEN s
    ELSE IF ~Admits(e, list, s, held, named) THEN [s EXCEPT !.ok = FALSE]
    ELSE [s EXCEPT !.at = @ + Width(e), !.paid[e.mint] = @ + e.amount]

Swept(t, list, held, named) ==
    LET swept[i \in 0..Len(t)] ==
            IF i = 0 THEN Unswept ELSE Step(t[i], list, swept[i - 1], held, named)
    IN  swept

(* The sweep, and the last look at the table: nothing may be left behind.  *)
Sweep(t, list, held, named) ==
    [Swept(t, list, held, named)[Len(t)] EXCEPT
        !.ok = @ /\ \A i \in 1..Len(t) : t[i].mint = Sol => t[i].amount = 0]

----------------------------------------------------------------------------
(* The list a close is to be given: each entry's accounts, in entry order. *)
Needed(e) ==
    LET reserved == [kind |-> "reserve", mint |-> e.mint]
        owned == [kind |-> "own", mint |-> e.mint]
    IN  IF e.amount = 0 THEN <<>>
        ELSE IF e.mint \in Checked THEN <<reserved, owned, [kind |-> "mint", mint |-> e.mint]>>
        ELSE <<reserved, owned>>

NeededTo(t) ==
    LET list[i \in 0..Len(t)] == IF i = 0 THEN <<>> ELSE list[i - 1] \o Needed(t[i])
    IN  list

Wanted(t) == NeededTo(t)[Len(t)]
Begins(w, list) == Len(w) <= Len(list) /\ \A k \in 1..Len(w) : list[k] = w[k]

(* The reserve and the transaction have what paying an entry out takes.    *)
Covered(e, held, named) == e.amount <= held[e.mint] /\ TokenProgram(e.mint) \in named

(* A ledger's entries, SOL's aside, and a ledger of such entries.          *)
TableOf(l) == [i \in 1..(l.capacity - 1) |-> l.entries[i]]
LedgerFor(t) ==
    [capacity |-> Len(t) + 1,
     entries |-> [i \in 0..Len(t) |-> IF i = 0 THEN EmptyEntry ELSE t[i]]]

Lists == UNION {[1..n -> Accounts] : n \in 0..ListBound}

(* What the reserves and the transaction may lack: a mint or a program.    *)
Enough == [m \in Mints |-> MaxU64]
Settings == ({Enough} \X SUBSET TokenPrograms)
                \cup ({[Enough EXCEPT ![m] = 0] : m \in Mints} \X {TokenPrograms})

(* The sweep of a table goes through exactly when its list begins with the *)
(* one wanted, the programs are there and the reserves are enough, and it  *)
(* then pays the owner each balance, once and in its own mint.             *)
PaysExactly(t, list, held, named) ==
    LET s == Sweep(t, list, held, named)
    IN  /\ s.ok <=> /\ Begins(Wanted(t), list)
                    /\ \A i \in 1..Len(t) : t[i].amount > 0 => Covered(t[i], held, named)
        /\ s.ok => \A m \in Mints \ {Sol} : s.paid[m] = Balance(LedgerFor(t), m)

SweptExactly(t) ==
    \A list \in Lists, set \in Settings : PaysExactly(t, list, set[1], set[2])

(* The tables within the bound are swept once and for all.                 *)
Tables == UNION {[1..n -> Entry] : n \in 0..(CapacityBound - 1)}
Verdicts == {<<t, SweptExactly(t)>> : t \in Tables}

(* close_ledger.rs:64-111: whatever ledger the instructions led to, closing*)
(* it with a list out of step with its entries fails, and with the list in *)
(* step pays each balance once; it takes the table's discipline (a mint in *)
(* one slot, nothing in a free one), or a balance would be paid short.     *)
SweepPaysExactly ==
    \A o \in Owners :
        Exists(o) => \/ <<TableOf(base[o]), TRUE>> \in Verdicts
                     \/ SweptExactly(TableOf(base[o]))

=============================================================================
