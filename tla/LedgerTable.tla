---------------------------- MODULE LedgerTable ----------------------------
(***************************************************************************)
(* The ledger's flat table of (mint, amount) slots and the operations on   *)
(* it (state/ledger.rs).  Slot 0 is SOL by position; any other slot whose  *)
(* mint is the SOL key is free.  The operators take a whole ledger record  *)
(* and return the changed one; a separate guard says when the code returns *)
(* an error instead.                                                       *)
(***************************************************************************)
EXTENDS Naturals

CONSTANTS
    Mints,   \* every asset, SOL included
    Sol,     \* SOL_MINT, the System Program's zero key
    MaxU64   \* the largest u64

ASSUME LedgerTableAssumption == Sol \in Mints /\ MaxU64 \in Nat

Amount == 0..MaxU64
Entry == [mint : Mints, amount : Amount]
EmptyEntry == [mint |-> Sol, amount |-> 0]

(* A ledger of `n` slots, its header naming a rent payer and a program.    *)
LedgerOf(payers, programs, n) ==
    [rentPayer : payers, authorized : programs, capacity : {n}, entries : [0..(n - 1) -> Entry]]

(* `capacity` is the entry count stored in the header.                     *)
Slots(l) == 0..(l.capacity - 1)

(* A table of `n` zeroed slots, slot 0 thereby SOL's.                      *)
ZeroedSlots(n) == [i \in 0..(n - 1) |-> EmptyEntry]

FreeSlots(l) == {i \in Slots(l) : i # 0 /\ l.entries[i].mint = Sol}

(* The slots that answer to `m`: SOL is positional, never a scan.          *)
SlotsOf(l, m) ==
    IF m = Sol THEN {0} ELSE {i \in Slots(l) : l.entries[i].mint = m}

First(S) == CHOOSE i \in S : \A j \in S : i <= j

Has(l, m) == SlotsOf(l, m) # {}
IndexOf(l, m) == First(SlotsOf(l, m))

(* index_or_claim: the mint's own slot, else the first free one.           *)
CanClaim(l, m) == Has(l, m) \/ FreeSlots(l) # {}

\* Mutation of Claim: the claim ignores the slot the mint already has.
ClaimAnother(l, m) ==
    IF FreeSlots(l) = {} THEN l
    ELSE [l EXCEPT !.entries[First(FreeSlots(l))].mint = m]

Claim(l, m) ==
    IF Has(l, m) THEN l
    ELSE [l EXCEPT !.entries[First(FreeSlots(l))].mint = m]

(* debit: checked subtraction; a slot that reaches zero is released.       *)
AmountAt(l, m) == l.entries[IndexOf(l, m)].amount

\* Mutation of CanDebit: more than the slot holds may be taken.
HasSlot(l, m, a) == Has(l, m)

CanDebit(l, m, a) == Has(l, m) /\ a <= AmountAt(l, m)
Debit(l, m, a) ==
    [l EXCEPT !.entries[IndexOf(l, m)] =
        [mint |-> IF @.amount = a /\ IndexOf(l, m) # 0 THEN Sol ELSE @.mint,
         amount |-> @.amount - a]]

(* credit: checked addition into the slot index_or_claim answered.         *)
CanCredit(l, m, a) == CanClaim(l, m) /\ AmountAt(Claim(l, m), m) + a <= MaxU64
Credit(l, m, a) ==
    LET c == Claim(l, m)
    IN  [c EXCEPT !.entries[IndexOf(c, m)].amount = @ + a]

(* ensure_headroom's push of `n` zeroed slots.                             *)
Grow(l, n) ==
    [l EXCEPT !.capacity = @ + n,
              !.entries = [i \in 0..(l.capacity + n - 1) |->
                              IF i < l.capacity THEN l.entries[i] ELSE EmptyEntry]]

(* What a ledger claims of a mint; an address with no ledger claims none.  *)
Balance(l, m) == IF l.capacity > 0 /\ Has(l, m) THEN AmountAt(l, m) ELSE 0

(* The discipline every operation relies on: slot 0 is SOL's, a mint has   *)
(* one slot, a free slot holds nothing.                                    *)
Disciplined(l) ==
    l.capacity > 0 =>
        /\ l.entries[0].mint = Sol
        /\ \A i, j \in Slots(l) \ {0} :
              l.entries[i].mint = l.entries[j].mint /\ l.entries[i].mint # Sol => i = j
        /\ \A i \in FreeSlots(l) : l.entries[i].amount = 0

=============================================================================
