----------------------------- MODULE VaultProofs -----------------------------
(***************************************************************************)
(* The vault's invariants and action properties, for every set of owners,  *)
(* mints and rollups: the shape of every copy of every ledger, who its     *)
(* header names, who may lower, raise and list what, who may read it, and  *)
(* that closing a ledger pays out what it holds.                           *)
(***************************************************************************)
EXTENDS CloseSweep, TablesProofs, FiniteSetTheorems, SequenceTheorems

Payers == Keys \cup {ZeroKey}
Deriving == Programs \cup {ZeroKey}

(* A ledger record of any size in good order, the absent one included.     *)
Good(l) == l.capacity \in Nat /\ InOrder(Payers, Deriving, l.capacity, l)

(* What an operation on a table leaves alone.                              *)
SameHeader(l, k) ==
    k.rentPayer = l.rentPayer /\ k.authorized = l.authorized /\ k.capacity = l.capacity

(* A good ledger is one of the right type with its slots in order.         *)
LEMMA GoodIsDisciplined ==
    ASSUME NEW l
    PROVE  Good(l) <=> IsLedger(l) /\ Disciplined(l)
BY DEF Good, InOrder, IsLedger, LedgerSized, Payers, Deriving

(* A table in order is good.                                               *)
LEMMA GoodInOrder ==
    ASSUME NEW n \in Nat, NEW l, InOrder(Payers, Deriving, n, l)
    PROVE  Good(l) /\ l.capacity = n
<1>1. l.capacity = n
  BY DEF InOrder, LedgerOf
<1> QED BY <1>1 DEF Good

(* The absent ledger is good and owes nothing.                             *)
LEMMA NoLedgerGood ==
    Good(NoLedger) /\ NoLedger.capacity = 0 /\ \A m \in Mints : Balance(NoLedger, m) = 0
<1>1. NoLedger.capacity = 0
  BY DEF NoLedger
<1>2. NoLedger \in LedgerOf(Payers, Deriving, 0)
  BY DEF NoLedger, LedgerOf, ZeroedSlots, Payers, Deriving
<1>3. Disciplined(NoLedger)
  BY <1>1 DEF Disciplined
<1>4. \A m \in Mints : Balance(NoLedger, m) = 0
  BY <1>1 DEF Balance
<1> QED BY <1>1, <1>2, <1>3, <1>4 DEF Good, InOrder

(* A new ledger is good, names who opened it and owes nothing.             *)
LEMMA NewLedgerGood ==
    ASSUME NEW r \in Payers, NEW p \in Deriving, NEW n \in Nat \ {0}
    PROVE  /\ Good(NewLedger(r, p, n))
           /\ NewLedger(r, p, n).capacity = n
           /\ NewLedger(r, p, n).rentPayer = r /\ NewLedger(r, p, n).authorized = p
           /\ \A m \in Mints : Balance(NewLedger(r, p, n), m) = 0
<1>1. /\ InOrder(Payers, Deriving, n, NewLedger(r, p, n))
      /\ \A m \in Mints : Balance(NewLedger(r, p, n), m) = 0
  BY ZeroedInOrder DEF NewLedger
<1>2. NewLedger(r, p, n).rentPayer = r /\ NewLedger(r, p, n).authorized = p
  BY DEF NewLedger
<1> QED BY <1>1, <1>2, GoodInOrder

(* What a good ledger owes on a mint fits a u64.                           *)
LEMMA BalanceIsAmount ==
    ASSUME NEW l, Good(l), NEW m \in Mints
    PROVE  Balance(l, m) \in Amount /\ Balance(l, m) \in Nat
<1>1. CASE l.capacity = 0
  BY <1>1, LedgerTableAssumption DEF Balance, Amount
<1>2. CASE l.capacity # 0
  <2>1. l.capacity \in Nat \ {0} /\ InOrder(Payers, Deriving, l.capacity, l)
    BY <1>2 DEF Good
  <2>2. Balance(l, m) \in Amount
    BY <2>1, BalanceAt
  <2> QED BY <2>2, LedgerTableAssumption DEF Amount
<1> QED BY <1>1, <1>2

(* A credit keeps a ledger good and adds to one mint's balance only.       *)
LEMMA CreditGood ==
    ASSUME NEW l, Good(l), l.capacity > 0, NEW m \in Mints, NEW a \in Amount, CanCredit(l, m, a)
    PROVE  /\ Good(Credit(l, m, a)) /\ SameHeader(l, Credit(l, m, a))
           /\ Balance(Credit(l, m, a), m) = Balance(l, m) + a
           /\ Balance(l, m) + a <= MaxU64
           /\ \A x \in Mints \ {m} : Balance(Credit(l, m, a), x) = Balance(l, x)
<1> PICK n \in Nat \ {0} : n = l.capacity
  BY DEF Good
<1>1. InOrder(Payers, Deriving, n, l) /\ a \in Nat
  BY LedgerTableAssumption DEF Good, Amount
<1>2. /\ InOrder(Payers, Deriving, n, Credit(l, m, a))
      /\ Credit(l, m, a).rentPayer = l.rentPayer
      /\ Credit(l, m, a).authorized = l.authorized
      /\ Balance(Credit(l, m, a), m) = Balance(l, m) + a
      /\ Balance(l, m) + a <= MaxU64
      /\ \A x \in Mints \ {m} : Balance(Credit(l, m, a), x) = Balance(l, x)
  BY <1>1, CreditAdds
<1>3. Good(Credit(l, m, a)) /\ Credit(l, m, a).capacity = l.capacity
  BY <1>1, <1>2, GoodInOrder
<1> QED BY <1>2, <1>3 DEF SameHeader

(* A debit keeps a ledger good and takes from one mint's balance only.     *)
LEMMA DebitGood ==
    ASSUME NEW l, Good(l), l.capacity > 0, NEW m \in Mints, NEW a \in Amount, CanDebit(l, m, a)
    PROVE  /\ Good(Debit(l, m, a)) /\ SameHeader(l, Debit(l, m, a))
           /\ Balance(Debit(l, m, a), m) = Balance(l, m) - a
           /\ a <= Balance(l, m)
           /\ \A x \in Mints \ {m} : Balance(Debit(l, m, a), x) = Balance(l, x)
<1> PICK n \in Nat \ {0} : n = l.capacity
  BY DEF Good
<1>1. InOrder(Payers, Deriving, n, l)
  BY DEF Good
<1>2. /\ InOrder(Payers, Deriving, n, Debit(l, m, a))
      /\ Debit(l, m, a).rentPayer = l.rentPayer
      /\ Debit(l, m, a).authorized = l.authorized
      /\ a <= Balance(l, m)
      /\ Balance(Debit(l, m, a), m) = Balance(l, m) - a
      /\ \A x \in Mints \ {m} : Balance(Debit(l, m, a), x) = Balance(l, x)
  BY <1>1, DebitTakes, SMTT(20)
<1>3. Good(Debit(l, m, a)) /\ Debit(l, m, a).capacity = l.capacity
  BY <1>1, <1>2, GoodInOrder
<1> QED BY <1>2, <1>3 DEF SameHeader

(* Keeping the free band moves no balance and no header.                   *)
LEMMA HeadroomGood ==
    ASSUME NEW l, Good(l), l.capacity > 0, NEW p, NEW f, NEW inc \in Nat,
           CanEnsureHeadroom(l, p, f, inc)
    PROVE  /\ Good(EnsureHeadroom(l, f, inc)) /\ EnsureHeadroom(l, f, inc).capacity > 0
           /\ EnsureHeadroom(l, f, inc).rentPayer = l.rentPayer
           /\ EnsureHeadroom(l, f, inc).authorized = l.authorized
           /\ \A m \in Mints : Balance(EnsureHeadroom(l, f, inc), m) = Balance(l, m)
<1>1. CASE HasHeadroom(l, f)
  BY <1>1 DEF EnsureHeadroom
<1>2. CASE ~HasHeadroom(l, f)
  <2> PICK n \in Nat \ {0} : n = l.capacity
    BY DEF Good
  <2>1. InOrder(Payers, Deriving, n, l)
    BY DEF Good
  <2>2. /\ n + inc \in Nat \ {0}
        /\ InOrder(Payers, Deriving, n + inc, Grow(l, inc))
        /\ Grow(l, inc).rentPayer = l.rentPayer /\ Grow(l, inc).authorized = l.authorized
        /\ \A m \in Mints : Balance(Grow(l, inc), m) = Balance(l, m)
    BY <2>1, GrowKeepsBalances
  <2>3. Good(Grow(l, inc)) /\ Grow(l, inc).capacity > 0
    BY <2>2, GoodInOrder
  <2> QED BY <1>2, <2>2, <2>3 DEF EnsureHeadroom
<1> QED BY <1>1, <1>2

----------------------------------------------------------------------------
(* The shape of the copies of the ledgers, owner by owner: b is the copy   *)
(* on basenet, r the one on a rollup, c the chain of the live one.         *)
HeadOf(o, b) ==
    /\ o \in Pdas => b.authorized = ProgramOf[o]
    /\ o \in Wallets => b.rentPayer = o /\ b.authorized = ZeroKey

Sound(o, b, r, c) ==
    /\ Good(b) /\ Good(r) /\ c \in Chains
    /\ b.capacity > 0 => HeadOf(o, b)
    /\ c # Basenet => b.capacity > 0 /\ SameHeader(b, r)
    /\ c = Basenet => r = NoLedger

Copies ==
    /\ DOMAIN base = Owners /\ DOMAIN rollup = Owners
    /\ where \in [Owners -> Chains]
    /\ returning \subseteq {o \in Owners : where[o] # Basenet}
    /\ \A o \in Owners : Sound(o, base[o], rollup[o], where[o])

(* The inductive invariant implies the invariants it is there for.         *)
LEMMA CopiesAreSound == Copies => LedgerTypes /\ SlotDiscipline /\ HeadersFixed
<1> SUFFICES ASSUME Copies
             PROVE  LedgerTypes /\ SlotDiscipline /\ HeadersFixed
  OBVIOUS
<1>1. ASSUME NEW o \in Owners
      PROVE  /\ IsLedger(base[o]) /\ Disciplined(base[o])
             /\ IsLedger(rollup[o]) /\ Disciplined(rollup[o])
  BY GoodIsDisciplined DEF Copies, Sound
<1>2. LedgerTypes
  BY <1>1 DEF Copies, LedgerTypes
<1>3. SlotDiscipline
  BY <1>1 DEF SlotDiscipline
<1>4. HeadersFixed
  BY DEF Copies, Sound, HeadOf, SameHeader, HeadersFixed, Exists
<1> QED BY <1>2, <1>3, <1>4

(* What owner o is owed of mint m, on whichever chain.                     *)
Due(o, m) == Balance(Live(o), m)

(* A claim is what is due on the live copy.                                *)
LEMMA ClaimsAreDue == \A o \in Owners, m \in Mints : Claims[o][m] = Due(o, m)
BY DEF Claims, Due

(* The live copy of a ledger is good, and basenet's unless delegated.      *)
LEMMA LiveIsGood ==
    ASSUME Copies, NEW o \in Owners
    PROVE  /\ Good(Live(o)) /\ (Exists(o) => Live(o).capacity > 0)
           /\ where[o] = Basenet => Live(o) = base[o]
           /\ ~Exists(o) => where[o] = Basenet
           /\ \A m \in Mints : Due(o, m) \in Amount /\ Due(o, m) \in Nat
<1>1. Sound(o, base[o], rollup[o], where[o])
  BY DEF Copies
<1>2. Good(Live(o)) /\ (Exists(o) => Live(o).capacity > 0)
  BY <1>1 DEF Sound, Live, Exists, SameHeader
<1>3. /\ where[o] = Basenet => Live(o) = base[o]
      /\ ~Exists(o) => where[o] = Basenet
  BY <1>1 DEF Sound, Live, Exists
<1>4. \A m \in Mints : Due(o, m) \in Amount /\ Due(o, m) \in Nat
  BY <1>2, BalanceIsAmount DEF Due
<1> QED BY <1>2, <1>3, <1>4

(* A step that touches one owner's copies.                                 *)
Elsewhere(w) ==
    /\ DOMAIN base' = Owners /\ DOMAIN rollup' = Owners /\ DOMAIN where' = Owners
    /\ where' \in [Owners -> Chains]
    /\ \A o \in Owners \ {w} :
          base'[o] = base[o] /\ rollup'[o] = rollup[o] /\ where'[o] = where[o]

(* A step that writes one owner's copies soundly keeps all of them.        *)
LEMMA OneOwner ==
    ASSUME Copies, NEW w \in Owners, Elsewhere(w),
           Sound(w, base'[w], rollup'[w], where'[w]),
           returning' \subseteq {o \in Owners : where'[o] # Basenet}
    PROVE  Copies' /\ \A o \in Owners \ {w}, m \in Mints : Due(o, m)' = Due(o, m)
<1>1. Copies'
  BY DEF Copies, Elsewhere
<1>2. \A o \in Owners \ {w}, m \in Mints : Due(o, m)' = Due(o, m)
  BY DEF Elsewhere, Due, Live
<1> QED BY <1>1, <1>2

(* A step that touches no copy.                                            *)
LEMMA NoOwner ==
    ASSUME Copies, UNCHANGED <<base, rollup, where, returning>>
    PROVE  Copies' /\ \A o \in Owners, m \in Mints : Due(o, m)' = Due(o, m)
BY DEF Copies, Due, Live

(* Who is an owner, a payer, a key and a deriving program.                 *)
LEMMA Constants ==
    /\ \A w \in Wallets : w \in Owners /\ w \notin Pdas /\ w \in Payers /\ w \in Keys
    /\ \A o \in Pdas : o \in Owners /\ o \notin Wallets /\ ProgramOf[o] \in Deriving
    /\ \A p \in Sponsors : p \in Payers /\ p \in Keys
    /\ ZeroKey \in Deriving /\ Programs \subseteq Deriving /\ Basenet \in Chains
    /\ \A o \in Owners : o \in Keys
BY AddressesAssumption, VaultAssumption
   DEF Owners, OnCurve, Keys, Payers, Deriving, Chains

----------------------------------------------------------------------------
(* The instructions, one by one: copies stay sound, and what is owed       *)
(* changes as the abstract vault would have it.                            *)

(* A ledger at home is rewritten.                                          *)
LEMMA HomeWrite ==
    ASSUME Copies, NEW w \in Owners, where[w] = Basenet, NEW b,
           base' = [base EXCEPT ![w] = b], UNCHANGED <<rollup, where, returning>>,
           Good(b), b.capacity > 0 => HeadOf(w, b)
    PROVE  /\ Copies'
           /\ \A o \in Owners \ {w}, m \in Mints : Due(o, m)' = Due(o, m)
           /\ \A m \in Mints : Due(w, m) = Balance(base[w], m) /\ Due(w, m)' = Balance(b, m)
<1>1. Elsewhere(w) /\ base'[w] = b
  BY DEF Elsewhere, Copies
<1>2. Sound(w, base[w], rollup[w], where[w])
  BY DEF Copies
<1>3. Sound(w, base'[w], rollup'[w], where'[w])
  BY <1>1, <1>2 DEF Sound
<1>4. /\ Copies'
      /\ \A o \in Owners \ {w}, m \in Mints : Due(o, m)' = Due(o, m)
  BY <1>1, <1>3, OneOwner DEF Copies
<1>5. \A m \in Mints : Due(w, m) = Balance(base[w], m) /\ Due(w, m)' = Balance(b, m)
  BY <1>1 DEF Due, Live
<1> QED BY <1>4, <1>5

(* An address with no ledger is owed nothing.                              *)
LEMMA NothingThere ==
    ASSUME Copies, NEW o \in Owners, ~Exists(o)
    PROVE  /\ where[o] = Basenet
           /\ \A m \in Mints : Balance(base[o], m) = 0
BY DEF Copies, Sound, Exists, Balance

(* open_wallet_ledger: copies stay sound and nobody is owed less or more.  *)
LEMMA OpenWalletEffect ==
    ASSUME Copies, NEW w \in Wallets, NEW n, NEW S, OpenWalletLedger(w, n, S)
    PROVE  Copies' /\ \A o \in Owners, m \in Mints : Due(o, m)' = Due(o, m)
<1> DEFINE new == NewLedger(w, ZeroKey, n)
<1>1. w \in Owners /\ w \notin Pdas /\ w \in Payers /\ ZeroKey \in Deriving
  BY Constants
<1>2. n \in Nat \ {0}
  BY VaultAssumption DEF OpenWalletLedger
<1>3. /\ base' = [base EXCEPT ![w] = new] /\ UNCHANGED <<rollup, where, returning>>
      /\ ~Exists(w)
  BY DEF OpenWalletLedger
<1>4. /\ Good(new) /\ new.capacity = n /\ new.rentPayer = w /\ new.authorized = ZeroKey
      /\ \A m \in Mints : Balance(new, m) = 0
  BY <1>1, <1>2, NewLedgerGood
<1> HIDE DEF new
<1>5. HeadOf(w, new)
  BY <1>1, <1>4 DEF HeadOf
<1>6. /\ Copies'
      /\ \A o \in Owners \ {w}, m \in Mints : Due(o, m)' = Due(o, m)
      /\ \A m \in Mints : Due(w, m) = Balance(base[w], m) /\ Due(w, m)' = Balance(new, m)
  BY <1>1, <1>3, <1>4, <1>5, HomeWrite, NothingThere
<1> QED BY <1>1, <1>3, <1>4, <1>6, NothingThere

(* open_pda_ledger: the same.                                              *)
LEMMA OpenPdaEffect ==
    ASSUME Copies, NEW o \in Owners, NEW p \in Sponsors, NEW g \in Programs, NEW n, NEW S,
           OpenPdaLedger(o, p, g, n, S)
    PROVE  Copies' /\ \A x \in Owners, m \in Mints : Due(x, m)' = Due(x, m)
<1> DEFINE new == NewLedger(p, g, n)
<1>1. p \in Payers /\ g \in Deriving /\ o \in Pdas /\ o \notin Wallets /\ ProgramOf[o] = g
  BY Constants DEF OpenPdaLedger, VerifyPdaOwner, IsPda
<1>2. n \in Nat \ {0}
  BY VaultAssumption DEF OpenPdaLedger
<1>3. /\ base' = [base EXCEPT ![o] = new] /\ UNCHANGED <<rollup, where, returning>>
      /\ ~Exists(o)
  BY DEF OpenPdaLedger
<1>4. /\ Good(new) /\ new.capacity = n /\ new.rentPayer = p /\ new.authorized = g
      /\ \A m \in Mints : Balance(new, m) = 0
  BY <1>1, <1>2, NewLedgerGood
<1> HIDE DEF new
<1>5. HeadOf(o, new)
  BY <1>1, <1>4 DEF HeadOf
<1>6. /\ Copies'
      /\ \A x \in Owners \ {o}, m \in Mints : Due(x, m)' = Due(x, m)
      /\ \A m \in Mints : Due(o, m) = Balance(base[o], m) /\ Due(o, m)' = Balance(new, m)
  BY <1>3, <1>4, <1>5, HomeWrite, NothingThere
<1> QED BY <1>3, <1>4, <1>6, NothingThere

(* grow_pda_ledger: the same.                                              *)
LEMMA GrowEffect ==
    ASSUME Copies, NEW o \in Owners, NEW p, NEW f, NEW inc \in Nat, NEW S,
           GrowPdaLedger(o, p, f, inc, S)
    PROVE  Copies' /\ \A x \in Owners, m \in Mints : Due(x, m)' = Due(x, m)
<1> DEFINE new == EnsureHeadroom(base[o], f, inc)
<1>1. /\ base' = [base EXCEPT ![o] = new] /\ UNCHANGED <<rollup, where, returning>>
      /\ CanEnsureHeadroom(base[o], p, f, inc) /\ where[o] = Basenet /\ base[o].capacity > 0
  BY DEF GrowPdaLedger, Home, Exists, Copies
<1>2. Good(base[o]) /\ HeadOf(o, base[o])
  BY <1>1 DEF Copies, Sound
<1>3. /\ Good(new) /\ new.capacity > 0
      /\ new.rentPayer = base[o].rentPayer /\ new.authorized = base[o].authorized
      /\ \A m \in Mints : Balance(new, m) = Balance(base[o], m)
  BY <1>1, <1>2, HeadroomGood
<1> HIDE DEF new
<1>4. HeadOf(o, new)
  BY <1>2, <1>3 DEF HeadOf
<1>5. /\ Copies'
      /\ \A x \in Owners \ {o}, m \in Mints : Due(x, m)' = Due(x, m)
      /\ \A m \in Mints : Due(o, m) = Balance(base[o], m) /\ Due(o, m)' = Balance(new, m)
  BY <1>1, <1>3, <1>4, HomeWrite
<1> QED BY <1>3, <1>5

(* Nothing is owed differently but one mint to one owner.                  *)
OthersKept(w, m) ==
    \A o \in Owners, n \in Mints : o # w \/ n # m => Due(o, n)' = Due(o, n)

(* deposit: the wallet is owed `a` more of one mint, within a u64.         *)
LEMMA DepositEffect ==
    ASSUME Copies, NEW w \in Wallets, NEW m \in Mints, NEW a \in Amount, NEW f,
           NEW inc \in Nat, NEW S, Deposit(w, m, a, f, inc, S)
    PROVE  /\ Copies' /\ OthersKept(w, m)
           /\ Due(w, m)' = Due(w, m) + a /\ Due(w, m) + a <= MaxU64
           /\ Exists(w)'
<1> DEFINE found == FoundOrCreated(w)
           roomy == EnsureHeadroom(found, f, inc)
           new == Credit(roomy, m, a)
<1>1. w \in Owners /\ w \notin Pdas /\ w \in Payers /\ ZeroKey \in Deriving
  BY Constants
<1>2. /\ base' = [base EXCEPT ![w] = new] /\ UNCHANGED <<rollup, where, returning>>
      /\ where[w] = Basenet
      /\ CanEnsureHeadroom(found, w, f, inc) /\ CanCredit(roomy, m, a)
  BY DEF Deposit
<1>3. /\ Good(found) /\ found.capacity > 0 /\ HeadOf(w, found)
      /\ \A n \in Mints : Balance(found, n) = Balance(base[w], n)
  <2>1. CASE Exists(w)
    <3>1. found = base[w]
      BY <2>1 DEF FoundOrCreated
    <3>2. Sound(w, base[w], rollup[w], where[w])
      BY <1>1 DEF Copies
    <3> QED BY <2>1, <3>1, <3>2 DEF Sound, Exists
  <2>2. CASE ~Exists(w)
    <3>1. found = NewLedger(w, ZeroKey, DefaultSlots)
      BY <2>2 DEF FoundOrCreated
    <3>2. DefaultSlots \in Nat \ {0}
      BY VaultAssumption
    <3>3. /\ Good(found) /\ found.capacity = DefaultSlots
          /\ found.rentPayer = w /\ found.authorized = ZeroKey
          /\ \A n \in Mints : Balance(found, n) = 0
      BY <1>1, <3>1, <3>2, NewLedgerGood
    <3>4. found.capacity > 0
      BY <3>2, <3>3
    <3> QED BY <1>1, <2>2, <3>3, <3>4, NothingThere DEF HeadOf
  <2> QED BY <2>1, <2>2
<1> HIDE DEF found
<1>4. /\ Good(roomy) /\ roomy.capacity > 0
      /\ roomy.rentPayer = found.rentPayer /\ roomy.authorized = found.authorized
      /\ \A n \in Mints : Balance(roomy, n) = Balance(found, n)
  BY <1>2, <1>3, HeadroomGood
<1> HIDE DEF roomy
<1>5. /\ Good(new) /\ SameHeader(roomy, new)
      /\ Balance(new, m) = Balance(roomy, m) + a
      /\ Balance(roomy, m) + a <= MaxU64
      /\ \A x \in Mints \ {m} : Balance(new, x) = Balance(roomy, x)
  BY <1>2, <1>4, CreditGood
<1> HIDE DEF new
<1>6. HeadOf(w, new)
  BY <1>3, <1>4, <1>5 DEF HeadOf, SameHeader
<1>7. /\ Copies'
      /\ \A o \in Owners \ {w}, n \in Mints : Due(o, n)' = Due(o, n)
      /\ \A n \in Mints : Due(w, n) = Balance(base[w], n) /\ Due(w, n)' = Balance(new, n)
  BY <1>1, <1>2, <1>5, <1>6, HomeWrite
<1>8. Due(w, m)' = Due(w, m) + a /\ Due(w, m) + a <= MaxU64
  BY <1>3, <1>4, <1>5, <1>7
<1>9. OthersKept(w, m)
  BY <1>3, <1>4, <1>5, <1>7 DEF OthersKept
<1>10. Exists(w)'
  BY <1>1, <1>2, <1>4, <1>5 DEF Exists, SameHeader, Copies
<1> QED BY <1>7, <1>8, <1>9, <1>10

(* withdraw: the wallet is owed `a` less of one mint.                      *)
LEMMA WithdrawEffect ==
    ASSUME Copies, NEW w \in Wallets, NEW m \in Mints, NEW a \in Amount, NEW S,
           Withdraw(w, m, a, S)
    PROVE  /\ Copies' /\ OthersKept(w, m)
           /\ Due(w, m)' = Due(w, m) - a /\ a <= Due(w, m)
<1> DEFINE new == Debit(base[w], m, a)
<1>1. w \in Owners
  BY Constants
<1>2. /\ base' = [base EXCEPT ![w] = new] /\ UNCHANGED <<rollup, where, returning>>
      /\ where[w] = Basenet /\ base[w].capacity > 0
      /\ CanDebit(base[w], m, a)
  BY <1>1 DEF Withdraw, Home, Exists, Copies
<1>3. Good(base[w]) /\ HeadOf(w, base[w])
  BY <1>1, <1>2 DEF Copies, Sound
<1>4. /\ Good(new) /\ SameHeader(base[w], new)
      /\ Balance(new, m) = Balance(base[w], m) - a
      /\ a <= Balance(base[w], m)
      /\ \A x \in Mints \ {m} : Balance(new, x) = Balance(base[w], x)
  BY <1>2, <1>3, DebitGood
<1> HIDE DEF new
<1>5. HeadOf(w, new)
  BY <1>3, <1>4 DEF HeadOf, SameHeader
<1>6. /\ Copies'
      /\ \A o \in Owners \ {w}, n \in Mints : Due(o, n)' = Due(o, n)
      /\ \A n \in Mints : Due(w, n) = Balance(base[w], n) /\ Due(w, n)' = Balance(new, n)
  BY <1>1, <1>2, <1>4, <1>5, HomeWrite
<1>7. Due(w, m)' = Due(w, m) - a /\ a <= Due(w, m)
  BY <1>4, <1>6
<1>8. OthersKept(w, m)
  BY <1>4, <1>6 DEF OthersKept
<1> QED BY <1>6, <1>7, <1>8

(* close_ledger: the owner is owed nothing any more.                       *)
LEMMA CloseEffect ==
    ASSUME Copies, NEW o \in Owners, NEW p, NEW S, CloseLedger(o, p, S)
    PROVE  /\ Copies'
           /\ \A x \in Owners \ {o}, m \in Mints : Due(x, m)' = Due(x, m)
           /\ \A m \in Mints : Due(o, m) = Balance(base[o], m) /\ Due(o, m)' = 0
<1>1. /\ base' = [base EXCEPT ![o] = NoLedger] /\ UNCHANGED <<rollup, where, returning>>
      /\ where[o] = Basenet
  BY DEF CloseLedger, Home
<1>2. /\ Good(NoLedger) /\ (NoLedger.capacity > 0 => HeadOf(o, NoLedger))
      /\ \A m \in Mints : Balance(NoLedger, m) = 0
  BY NoLedgerGood
<1>3. /\ Copies'
      /\ \A x \in Owners \ {o}, m \in Mints : Due(x, m)' = Due(x, m)
      /\ \A m \in Mints : Due(o, m) = Balance(base[o], m)
                          /\ Due(o, m)' = Balance(NoLedger, m)
  BY <1>1, <1>2, HomeWrite
<1> QED BY <1>2, <1>3

(* Rewriting the live copy where it is, with its header.                   *)
LEMMA LiveWrite ==
    ASSUME NEW o \in Owners, NEW b, NEW r, NEW c, Sound(o, b, r, c), b.capacity > 0,
           NEW l, NEW k, l = (IF c = Basenet THEN b ELSE r), Good(k), SameHeader(l, k)
    PROVE  /\ c = Basenet => Sound(o, k, r, c)
           /\ c # Basenet => Sound(o, b, k, c)
<1>1. CASE c = Basenet
  BY <1>1 DEF Sound, SameHeader, HeadOf
<1>2. CASE c # Basenet
  BY <1>2 DEF Sound, SameHeader
<1> QED BY <1>1, <1>2

(* settle: `a` passes from one owner to another, one of them a PDA.        *)
LEMMA SettleEffect ==
    ASSUME Copies, NEW src \in Owners, NEW dst \in Owners, NEW m \in Mints,
           NEW a \in Amount, NEW S, Settle(src, dst, m, a, S)
    PROVE  /\ Copies'
           /\ src # dst /\ (src \in Pdas \/ dst \in Pdas)
           /\ Due(src, m)' = Due(src, m) - a /\ a <= Due(src, m)
           /\ Due(dst, m)' = Due(dst, m) + a /\ Due(dst, m) + a <= MaxU64
           /\ \A o \in Owners, n \in Mints :
                 n # m \/ o \notin {src, dst} => Due(o, n)' = Due(o, n)
<1> DEFINE paid == Debit(Live(src), m, a)
           got == Credit(Live(dst), m, a)
<1>1. /\ src # dst /\ (src \in Pdas \/ dst \in Pdas)
      /\ Exists(src) /\ Exists(dst) /\ where[src] = where[dst]
      /\ CanDebit(Live(src), m, a) /\ CanCredit(Live(dst), m, a)
      /\ UNCHANGED <<where, returning>>
  BY DEF Settle, Together, Mediated, IsPda
<1>2. /\ where[src] = Basenet =>
            base' = [base EXCEPT ![src] = paid, ![dst] = got] /\ UNCHANGED rollup
      /\ where[src] # Basenet =>
            rollup' = [rollup EXCEPT ![src] = paid, ![dst] = got] /\ UNCHANGED base
  BY DEF Settle
<1>3. /\ Good(Live(src)) /\ Live(src).capacity > 0
      /\ Good(Live(dst)) /\ Live(dst).capacity > 0
  BY <1>1, LiveIsGood
<1>4. /\ Good(paid) /\ SameHeader(Live(src), paid)
      /\ Balance(paid, m) = Balance(Live(src), m) - a
      /\ a <= Balance(Live(src), m)
      /\ \A n \in Mints \ {m} : Balance(paid, n) = Balance(Live(src), n)
  BY <1>1, <1>3, DebitGood
<1>5. /\ Good(got) /\ SameHeader(Live(dst), got)
      /\ Balance(got, m) = Balance(Live(dst), m) + a
      /\ Balance(Live(dst), m) + a <= MaxU64
      /\ \A n \in Mints \ {m} : Balance(got, n) = Balance(Live(dst), n)
  BY <1>1, <1>3, CreditGood
<1> HIDE DEF paid, got
<1>6. /\ DOMAIN base = Owners /\ DOMAIN rollup = Owners
      /\ \A o \in Owners : Sound(o, base[o], rollup[o], where[o])
  BY DEF Copies
<1>7. /\ where[src] = Basenet => Sound(src, paid, rollup[src], where[src])
      /\ where[src] # Basenet => Sound(src, base[src], paid, where[src])
  BY <1>1, <1>4, <1>6, LiveWrite DEF Live, Exists
<1>8. /\ where[dst] = Basenet => Sound(dst, got, rollup[dst], where[dst])
      /\ where[dst] # Basenet => Sound(dst, base[dst], got, where[dst])
  BY <1>1, <1>5, <1>6, LiveWrite DEF Live, Exists
<1>9. /\ Live(src)' = paid /\ Live(dst)' = got
      /\ \A o \in Owners \ {src, dst} : Live(o)' = Live(o)
  <2>1. CASE where[src] = Basenet
    BY <1>1, <1>2, <1>6, <2>1 DEF Live
  <2>2. CASE where[src] # Basenet
    BY <1>1, <1>2, <1>6, <2>2 DEF Live
  <2> QED BY <2>1, <2>2
<1>10. /\ DOMAIN base' = Owners /\ DOMAIN rollup' = Owners
       /\ \A o \in Owners : Sound(o, base'[o], rollup'[o], where'[o])
  <2>1. CASE where[src] = Basenet
    <3>1. /\ DOMAIN base' = Owners /\ rollup' = rollup /\ where' = where
          /\ base'[src] = paid /\ base'[dst] = got
          /\ \A o \in Owners \ {src, dst} : base'[o] = base[o]
      BY <1>1, <1>2, <1>6, <2>1
    <3> QED BY <1>1, <1>6, <1>7, <1>8, <2>1, <3>1
  <2>2. CASE where[src] # Basenet
    <3>1. /\ DOMAIN rollup' = Owners /\ base' = base /\ where' = where
          /\ rollup'[src] = paid /\ rollup'[dst] = got
          /\ \A o \in Owners \ {src, dst} : rollup'[o] = rollup[o]
      BY <1>1, <1>2, <1>6, <2>2
    <3> QED BY <1>1, <1>6, <1>7, <1>8, <2>2, <3>1
  <2> QED BY <2>1, <2>2
<1>11. Copies'
  BY <1>1, <1>10 DEF Copies
<1>12. /\ Due(src, m)' = Due(src, m) - a /\ a <= Due(src, m)
       /\ Due(dst, m)' = Due(dst, m) + a /\ Due(dst, m) + a <= MaxU64
  BY <1>4, <1>5, <1>9 DEF Due
<1>13. ASSUME NEW o \in Owners, NEW n \in Mints, n # m \/ o \notin {src, dst}
       PROVE  Due(o, n)' = Due(o, n)
  BY <1>4, <1>5, <1>9, <1>13 DEF Due
<1> QED BY <1>1, <1>11, <1>12, <1>13

(* delegate_ledger: the rollup owes what basenet owed.                     *)
LEMMA DelegateEffect ==
    ASSUME Copies, NEW o \in Owners, NEW v \in Validators, NEW S, DelegateLedger(o, v, S)
    PROVE  Copies' /\ \A x \in Owners, m \in Mints : Due(x, m)' = Due(x, m)
<1>1. /\ base' = base /\ rollup' = [rollup EXCEPT ![o] = base[o]]
      /\ where' = [where EXCEPT ![o] = v] /\ returning' = returning
      /\ where[o] = Basenet /\ base[o].capacity > 0
      /\ v # Basenet /\ v \in Chains
  BY VaultAssumption DEF DelegateLedger, Home, Exists, Chains
<1>2. Elsewhere(o) /\ rollup'[o] = base[o] /\ where'[o] = v /\ base'[o] = base[o]
  BY <1>1 DEF Copies, Elsewhere
<1>3. Sound(o, base[o], base[o], v)
  BY <1>1 DEF Copies, Sound, SameHeader
<1>4. returning' \subseteq {x \in Owners : where'[x] # Basenet}
  BY <1>1 DEF Copies
<1>5. Copies' /\ \A x \in Owners \ {o}, m \in Mints : Due(x, m)' = Due(x, m)
  BY <1>2, <1>3, <1>4, OneOwner
<1>6. \A m \in Mints : Due(o, m)' = Due(o, m)
  BY <1>1, <1>2 DEF Due, Live
<1> QED BY <1>5, <1>6

(* undelegate, and a commit that fails: nothing changes hands.             *)
LEMMA UndelegateEffect ==
    ASSUME Copies, NEW o \in Owners, NEW p, NEW S, Undelegate(o, p, S) \/ CommitFails(o)
    PROVE  Copies' /\ \A x \in Owners, m \in Mints : Due(x, m)' = Due(x, m)
<1>1. UNCHANGED <<base, rollup, where>> /\ returning' \subseteq returning \cup {o}
      /\ where[o] # Basenet
  BY DEF Undelegate, CommitFails, Copies
<1> QED BY <1>1 DEF Copies, Due, Live

(* A commit that lands: basenet owes what the rollup owed.                 *)
LEMMA CommitEffect ==
    ASSUME Copies, NEW o \in Owners, CommitLands(o)
    PROVE  Copies' /\ \A x \in Owners, m \in Mints : Due(x, m)' = Due(x, m)
<1>1. /\ base' = [base EXCEPT ![o] = rollup[o]]
      /\ rollup' = [rollup EXCEPT ![o] = NoLedger]
      /\ where' = [where EXCEPT ![o] = Basenet] /\ returning' = returning \ {o}
      /\ where[o] # Basenet
  BY DEF CommitLands, Copies
<1>2. /\ Elsewhere(o) /\ rollup'[o] = NoLedger /\ where'[o] = Basenet
      /\ base'[o] = rollup[o]
  BY <1>1, Constants DEF Copies, Elsewhere
<1>3. Sound(o, rollup[o], NoLedger, Basenet)
  BY <1>1, NoLedgerGood, Constants DEF Copies, Sound, SameHeader, HeadOf
<1>4. returning' \subseteq {x \in Owners : where'[x] # Basenet}
  BY <1>1 DEF Copies
<1>5. Copies' /\ \A x \in Owners \ {o}, m \in Mints : Due(x, m)' = Due(x, m)
  BY <1>2, <1>3, <1>4, OneOwner
<1>6. \A m \in Mints : Due(o, m)' = Due(o, m)
  BY <1>1, <1>2 DEF Due, Live
<1> QED BY <1>5, <1>6

----------------------------------------------------------------------------

(* A step that leaves both copies alone leaves what is owed alone.         *)
LEMMA QuietEffect ==
    ASSUME Copies, UNCHANGED custodyVars \/ UNCHANGED <<base, rollup, where, returning>>
    PROVE  Copies' /\ \A o \in Owners, m \in Mints : Due(o, m)' = Due(o, m)
<1>1. UNCHANGED <<base, rollup, where, returning>>
  BY DEF custodyVars
<1> QED BY <1>1, NoOwner

(* Every step keeps every copy sound.                                      *)
LEMMA CopiesStep == Copies /\ [Next]_vars => Copies'
<1> SUFFICES ASSUME Copies, [Next]_vars
             PROVE  Copies'
  OBVIOUS
<1>1. \A i \in 0..(MaxSlotIncrease + 1) : i \in Nat
  BY VaultAssumption
<1>2. CASE OpenNext
  <2>1. ASSUME NEW S \in SignerSets, NEW p \in Wallets, InitializeVault(p, S)
        PROVE  Copies'
    BY <2>1, QuietEffect DEF InitializeVault
  <2>2. ASSUME NEW S \in SignerSets, NEW w \in Wallets, NEW n \in 0..CapacityBound,
               OpenWalletLedger(w, n, S)
        PROVE  Copies'
    BY <2>2, OpenWalletEffect
  <2>3. ASSUME NEW S \in SignerSets, NEW o \in Owners, NEW p \in Sponsors, NEW g \in Programs,
               NEW n \in 0..CapacityBound, OpenPdaLedger(o, p, g, n, S)
        PROVE  Copies'
    BY <2>3, OpenPdaEffect
  <2>4. ASSUME NEW S \in SignerSets, NEW o \in Owners, NEW p \in Sponsors, NEW f \in MinFrees,
               NEW n \in 0..(MaxSlotIncrease + 1), GrowPdaLedger(o, p, f, n, S)
        PROVE  Copies'
    BY <1>1, <2>4, GrowEffect
  <2> QED BY <1>2, <2>1, <2>2, <2>3, <2>4 DEF OpenNext
<1>3. CASE ValueNext
  <2>1. ASSUME NEW S \in SignerSets, NEW m \in Mints, NEW a \in Amount, NEW w \in Wallets,
               NEW f \in MinFrees, NEW n \in 0..(MaxSlotIncrease + 1),
               Deposit(w, m, a, f, n, S)
        PROVE  Copies'
    BY <1>1, <2>1, DepositEffect
  <2>2. ASSUME NEW S \in SignerSets, NEW m \in Mints, NEW a \in Amount, NEW w \in Wallets,
               Withdraw(w, m, a, S)
        PROVE  Copies'
    BY <2>2, WithdrawEffect
  <2>3. ASSUME NEW S \in SignerSets, NEW m \in Mints, NEW a \in Amount, NEW src \in Owners,
               NEW dst \in Owners, Settle(src, dst, m, a, S)
        PROVE  Copies'
    BY <2>3, SettleEffect
  <2>4. ASSUME NEW o \in Owners, NEW p \in Keys, NEW S \in SignerSets, CloseLedger(o, p, S)
        PROVE  Copies'
    BY <2>4, CloseEffect
  <2> QED BY <1>3, <2>1, <2>2, <2>3, <2>4 DEF ValueNext
<1>4. CASE DonateNext
  BY <1>4, QuietEffect DEF DonateNext, Donate
<1>5. CASE DelegationNext
  <2>1. ASSUME NEW o \in Owners, NEW S \in SignerSets, NEW v \in Validators,
               DelegateLedger(o, v, S)
        PROVE  Copies'
    BY <2>1, DelegateEffect
  <2>2. ASSUME NEW o \in Owners, NEW S, NEW p, Undelegate(o, p, S) \/ CommitFails(o)
        PROVE  Copies'
    BY <2>2, UndelegateEffect
  <2>3. ASSUME NEW o \in Owners, CommitLands(o)
        PROVE  Copies'
    BY <2>3, CommitEffect
  <2> QED BY <1>5, <2>1, <2>2, <2>3 DEF DelegationNext
<1>6. CASE PrivacyNext
  BY <1>6, QuietEffect
     DEF PrivacyNext, MakePublic, MakeWalletLedgerPrivate, MakePdaLedgerPrivate, AddPdaCaller
<1>7. CASE SessionNext
  BY <1>7, QuietEffect DEF SessionNext
<1>8. CASE UNCHANGED vars
  BY <1>8, QuietEffect DEF vars
<1> QED BY <1>2, <1>3, <1>4, <1>5, <1>6, <1>7, <1>8 DEF Next

(* No ledger, so every copy is sound.                                      *)
LEMMA CopiesInit == Init => Copies
<1> SUFFICES ASSUME Init
             PROVE  Copies
  OBVIOUS
<1>1. /\ base = [o \in Owners |-> NoLedger] /\ rollup = [o \in Owners |-> NoLedger]
      /\ where = [o \in Owners |-> Basenet] /\ returning = {}
  BY DEF Init
<1>2. \A o \in Owners : Sound(o, NoLedger, NoLedger, Basenet)
  BY NoLedgerGood, Constants DEF Sound
<1> QED BY <1>1, <1>2, Constants DEF Copies

(* In every behaviour every copy of every ledger, live, stale or on its    *)
(* way home, keeps its slots in order: the vault's lookups and its closing *)
(* sweep never meet a mint twice or value in a free slot.                  *)
THEOREM SlotsInOrder == Spec => []SlotDiscipline
<1>1. Spec => []Copies
  BY CopiesInit, CopiesStep, PTL DEF Spec
<1> QED BY <1>1, CopiesAreSound, PTL

(* A ledger comes home from a rollup the size it left, naming the payer and*)
(* the program it named; those are the owner's own.                        *)
THEOREM HeadersNeverMove == Spec => []HeadersFixed
<1>1. Spec => []Copies
  BY CopiesInit, CopiesStep, PTL DEF Spec
<1> QED BY <1>1, CopiesAreSound, PTL

(* Only an owner's own signature lowers what it is owed.                   *)
LEMMA DebitStep ==
    Copies /\ [Next]_vars =>
        \A o \in Owners, m \in Mints : Due(o, m)' < Due(o, m) => o \in signed'
<1> SUFFICES ASSUME Copies, [Next]_vars, NEW o \in Owners, NEW m \in Mints,
                    Due(o, m)' < Due(o, m)
             PROVE  o \in signed'
  OBVIOUS
<1>1. Copies' /\ Due(o, m) \in Nat /\ Due(o, m)' # Due(o, m)
  BY CopiesStep, LiveIsGood
<1>2. ~UNCHANGED <<base, rollup, where, returning>>
  BY <1>1, QuietEffect
<1>3. \A i \in 0..(MaxSlotIncrease + 1) : i \in Nat
  BY VaultAssumption
<1>4. ~OpenNext
  <2>1. ASSUME NEW S, NEW p, InitializeVault(p, S)
        PROVE  FALSE
    BY <1>2, <2>1 DEF InitializeVault
  <2>2. ASSUME NEW S, NEW w \in Wallets, NEW n, OpenWalletLedger(w, n, S)
        PROVE  FALSE
    BY <1>1, <2>2, OpenWalletEffect
  <2>3. ASSUME NEW S, NEW x \in Owners, NEW p \in Sponsors, NEW g \in Programs, NEW n,
               OpenPdaLedger(x, p, g, n, S)
        PROVE  FALSE
    BY <1>1, <2>3, OpenPdaEffect
  <2>4. ASSUME NEW S, NEW x \in Owners, NEW p, NEW f, NEW n \in Nat, GrowPdaLedger(x, p, f, n, S)
        PROVE  FALSE
    BY <1>1, <2>4, GrowEffect
  <2> QED BY <1>3, <2>1, <2>2, <2>3, <2>4 DEF OpenNext
<1>5. CASE ValueNext
  <2>1. ASSUME NEW S, NEW n \in Mints, NEW a \in Amount, NEW w \in Wallets, NEW f,
               NEW i \in Nat, Deposit(w, n, a, f, i, S)
        PROVE  FALSE
    <3>1. w \in Owners /\ a >= 0
      BY Constants, LedgerTableAssumption DEF Amount
    <3>2. OthersKept(w, n) /\ Due(w, n)' = Due(w, n) + a
      BY <2>1, DepositEffect
    <3>3. o = w /\ m = n
      BY <1>1, <3>2 DEF OthersKept
    <3> QED BY <1>1, <3>1, <3>2, <3>3, LedgerTableAssumption DEF Amount
  <2>2. ASSUME NEW S, NEW n \in Mints, NEW a \in Amount, NEW w \in Wallets, Withdraw(w, n, a, S)
        PROVE  o \in signed'
    <3>1. OthersKept(w, n)
      BY <2>2, WithdrawEffect
    <3>2. o = w
      BY <1>1, <3>1 DEF OthersKept
    <3> QED BY <2>2, <3>2 DEF Withdraw
  <2>3. ASSUME NEW S, NEW n \in Mints, NEW a \in Amount, NEW src \in Owners, NEW dst \in Owners,
               Settle(src, dst, n, a, S)
        PROVE  o \in signed'
    <3>1. /\ Due(dst, n)' = Due(dst, n) + a
          /\ \A x \in Owners, y \in Mints : y # n \/ x \notin {src, dst} => Due(x, y)' = Due(x, y)
      BY <2>3, SettleEffect
    <3>2. m = n /\ o \in {src, dst}
      BY <1>1, <3>1
    <3>3. o # dst
      BY <1>1, <3>1, <3>2, LedgerTableAssumption DEF Amount
    <3> QED BY <2>3, <3>2, <3>3 DEF Settle, DebitedSideSigns
  <2>4. ASSUME NEW x \in Owners, NEW p, NEW S, CloseLedger(x, p, S)
        PROVE  o \in signed'
    <3>1. o = x
      BY <1>1, <2>4, CloseEffect
    <3> QED BY <2>4, <3>1 DEF CloseLedger
  <2> QED BY <1>3, <1>5, <2>1, <2>2, <2>3, <2>4 DEF ValueNext
<1>6. ~DonateNext
  BY <1>2 DEF DonateNext, Donate
<1>7. ~DelegationNext
  <2>1. ASSUME NEW x \in Owners, NEW S, NEW v \in Validators, DelegateLedger(x, v, S)
        PROVE  FALSE
    BY <1>1, <2>1, DelegateEffect
  <2>2. ASSUME NEW x \in Owners, NEW S, NEW p, Undelegate(x, p, S) \/ CommitFails(x)
        PROVE  FALSE
    BY <1>1, <2>2, UndelegateEffect
  <2>3. ASSUME NEW x \in Owners, CommitLands(x)
        PROVE  FALSE
    BY <1>1, <2>3, CommitEffect
  <2> QED BY <2>1, <2>2, <2>3 DEF DelegationNext
<1>8. ~PrivacyNext
  BY <1>2
     DEF PrivacyNext, MakePublic, MakeWalletLedgerPrivate, MakePdaLedgerPrivate, AddPdaCaller
<1>9. ~SessionNext /\ ~UNCHANGED vars
  BY <1>2 DEF SessionNext, custodyVars, vars
<1> QED BY <1>4, <1>5, <1>6, <1>7, <1>8, <1>9 DEF Next

(* Whatever a program, a validator's commit or another wallet does, and on *)
(* whichever chain: a step that lowers what an owner is owed carries that  *)
(* owner's signature.                                                      *)
THEOREM DebitsAreSigned == Spec => DebitNeedsOwner
<1>1. Spec => []Copies
  BY CopiesInit, CopiesStep, PTL DEF Spec
<1>2. Copies /\ [Next]_vars =>
        [\A o \in Owners, m \in Mints : Claims'[o][m] < Claims[o][m] => o \in signed']_vars
  BY DebitStep, ClaimsAreDue DEF Claims, Due
<1> QED BY <1>1, <1>2, PTL DEF Spec, DebitNeedsOwner

----------------------------------------------------------------------------
(* What a transfer delivers is at most what was sent.                      *)
LEMMA DeliveredBounds ==
    ASSUME NEW m, NEW a \in Nat
    PROVE  Delivered(m, a) \in Nat /\ Delivered(m, a) <= a
BY DEF Delivered

(* What can be paid out is never more than is there.                       *)
LEMMA SpendableBounds ==
    ASSUME MoneyTypes, NEW m \in Mints
    PROVE  Spendable(m) \in Nat /\ Spendable(m) <= reserve[m]
<1>1. reserve[m] \in Nat /\ reserve[Sol] \in Nat /\ Floor \in Nat
  BY LedgerTableAssumption, VaultAssumption DEF MoneyTypes
<1> QED BY <1>1 DEF Spendable

(* No step takes more out of a reserve or a purse than it holds.           *)
LEMMA MoneyStep == Copies /\ MoneyTypes /\ [Next]_vars => MoneyTypes'
<1> SUFFICES ASSUME Copies, MoneyTypes, [Next]_vars
             PROVE  MoneyTypes'
  OBVIOUS
<1>1. /\ reserve \in [Mints -> Nat] /\ purse \in [Owners -> [Mints -> Nat]]
      /\ Sol \in Mints /\ Floor \in Nat
      /\ \A w \in Wallets : w \in Owners
      /\ \A a \in Amount : a \in Nat
  BY Constants, LedgerTableAssumption, VaultAssumption DEF MoneyTypes, Amount
<1>2. CASE UNCHANGED <<reserve, purse>>
  BY <1>1, <1>2 DEF MoneyTypes
<1>3. ASSUME NEW w \in Wallets, NEW m \in Mints, NEW r \in Nat, NEW q \in Nat,
             reserve' = [reserve EXCEPT ![m] = r], purse' = [purse EXCEPT ![w][m] = q]
      PROVE  MoneyTypes'
  BY <1>1, <1>3 DEF MoneyTypes
<1>4. ASSUME NEW p \in Wallets, NEW S, InitializeVault(p, S)
      PROVE  MoneyTypes'
  <2>1. reserve[Sol] \in Nat /\ purse[p][Sol] \in Nat
    BY <1>1
  <2>2. purse[p][Sol] - (Floor - reserve[Sol]) \in Nat
    BY <1>1, <1>4, <2>1 DEF InitializeVault
  <2> QED BY <1>1, <1>3, <1>4, <2>2 DEF InitializeVault
<1>5. ASSUME NEW w \in Wallets, NEW m \in Mints, NEW a \in Amount,
             a <= purse[w][m],
             purse' = [purse EXCEPT ![w][m] = @ - a],
             reserve' = [reserve EXCEPT ![m] = @ + Delivered(m, a)]
      PROVE  MoneyTypes'
  <2>1. purse[w][m] \in Nat /\ reserve[m] \in Nat /\ a \in Nat
    BY <1>1
  <2>2. purse[w][m] - a \in Nat /\ reserve[m] + Delivered(m, a) \in Nat
    BY <1>5, <2>1, DeliveredBounds
  <2> QED BY <1>3, <1>5, <2>2
<1>6. ASSUME NEW w \in Wallets, NEW m \in Mints, NEW a \in Amount, NEW S, Withdraw(w, m, a, S)
      PROVE  MoneyTypes'
  <2>1. purse[w][m] \in Nat /\ reserve[m] \in Nat /\ a \in Nat
        /\ a <= Spendable(m) /\ Spendable(m) \in Nat /\ Spendable(m) <= reserve[m]
    BY <1>1, <1>6, SpendableBounds DEF Withdraw
  <2>2. purse[w][m] + Delivered(m, a) \in Nat /\ reserve[m] - a \in Nat
    BY <2>1, DeliveredBounds
  <2> QED BY <1>3, <1>6, <2>2 DEF Withdraw
<1>7. ASSUME NEW o \in Owners, NEW p, NEW S, CloseLedger(o, p, S)
      PROVE  MoneyTypes'
  <2>1. Good(base[o])
    BY DEF Copies, Sound
  <2>2. ASSUME NEW m \in Mints
        PROVE  /\ reserve[m] - Balance(base[o], m) \in Nat
               /\ purse[o][m] + Delivered(m, Balance(base[o], m)) \in Nat
    <3>1. Balance(base[o], m) \in Nat
      BY <2>1, BalanceIsAmount
    <3>2. /\ Balance(base[o], m) <= Spendable(m)
          /\ Spendable(m) \in Nat /\ Spendable(m) <= reserve[m]
      BY <1>7, SpendableBounds DEF CloseLedger
    <3>3. reserve[m] \in Nat /\ purse[o][m] \in Nat
      BY <1>1
    <3> QED BY <3>1, <3>2, <3>3, DeliveredBounds
  <2>3. /\ reserve' = [m \in Mints |-> reserve[m] - Balance(base[o], m)]
        /\ purse' = [purse EXCEPT ![o] =
                        [m \in Mints |-> @[m] + Delivered(m, Balance(base[o], m))]]
    BY <1>7 DEF CloseLedger
  <2> QED BY <1>1, <2>2, <2>3 DEF MoneyTypes
<1>8. CASE OpenNext
  BY <1>2, <1>4, <1>8 DEF OpenNext, OpenWalletLedger, OpenPdaLedger, GrowPdaLedger
<1>9. CASE ValueNext
  <2>1. ASSUME NEW S, NEW m \in Mints, NEW a \in Amount, NEW w \in Wallets, NEW f, NEW n,
               Deposit(w, m, a, f, n, S)
        PROVE  MoneyTypes'
    BY <1>5, <2>1 DEF Deposit
  <2>2. ASSUME NEW S, NEW m, NEW a, NEW src, NEW dst, Settle(src, dst, m, a, S)
        PROVE  MoneyTypes'
    BY <1>2, <2>2 DEF Settle
  <2> QED BY <1>6, <1>7, <1>9, <2>1, <2>2 DEF ValueNext
<1>10. CASE DonateNext
  <2>1. ASSUME NEW w \in Wallets, NEW m \in Mints, NEW a \in Amount, Donate(w, m, a)
        PROVE  MoneyTypes'
    <3>1. a <= purse[w][m]
      BY <1>1, <2>1 DEF Donate
    <3> QED BY <1>5, <2>1, <3>1 DEF Donate
  <2> QED BY <1>10, <2>1 DEF DonateNext
<1>11. CASE DelegationNext
  BY <1>2, <1>11 DEF DelegationNext, DelegateLedger, Undelegate, CommitLands, CommitFails
<1>12. CASE PrivacyNext
  BY <1>2, <1>12
     DEF PrivacyNext, MakePublic, MakeWalletLedgerPrivate, MakePdaLedgerPrivate, AddPdaCaller
<1>13. CASE SessionNext
  BY <1>2, <1>13 DEF SessionNext, custodyVars
<1>14. CASE UNCHANGED vars
  BY <1>2, <1>14 DEF vars, custodyVars
<1> QED BY <1>8, <1>9, <1>10, <1>11, <1>12, <1>13, <1>14 DEF Next

(* Permissions keep naming known principals.                               *)
LEMMA PermissionStep == PermissionTypes /\ [Next]_vars => PermissionTypes'
<1> SUFFICES ASSUME PermissionTypes, [Next]_vars
             PROVE  PermissionTypes'
  OBVIOUS
<1>1. /\ Keys \subseteq Principals /\ Programs \subseteq Principals /\ VaultId \in Principals
      /\ \A w \in Wallets : w \in Owners /\ w \in Keys
  BY Constants DEF Principals
<1>2. CASE UNCHANGED permission
  BY <1>2 DEF PermissionTypes
<1>3. ASSUME NEW o \in Owners, NEW ms \in (SUBSET Principals) \cup {NoPermission},
             permission' = [permission EXCEPT ![o] = ms]
      PROVE  PermissionTypes'
  BY <1>3 DEF PermissionTypes
<1>4. ASSUME NEW w \in Wallets
      PROVE  WalletMembers(w) \in SUBSET Principals
  BY <1>1 DEF WalletMembers
<1>5. ASSUME NEW p \in Sponsors, NEW g \in Programs
      PROVE  PdaMembers(g, p) \in SUBSET Principals
  BY <1>1, Constants DEF PdaMembers
<1>6. CASE OpenNext
  <2>1. ASSUME NEW S, NEW p, InitializeVault(p, S)
        PROVE  PermissionTypes'
    BY <1>2, <2>1 DEF InitializeVault
  <2>2. ASSUME NEW S, NEW w \in Wallets, NEW n, OpenWalletLedger(w, n, S)
        PROVE  PermissionTypes'
    BY <1>1, <1>3, <1>4, <2>2 DEF OpenWalletLedger
  <2>3. ASSUME NEW S, NEW o \in Owners, NEW p \in Sponsors, NEW g \in Programs, NEW n,
               OpenPdaLedger(o, p, g, n, S)
        PROVE  PermissionTypes'
    BY <1>3, <1>5, <2>3 DEF OpenPdaLedger
  <2>4. ASSUME NEW S, NEW o, NEW p, NEW f, NEW n, GrowPdaLedger(o, p, f, n, S)
        PROVE  PermissionTypes'
    BY <1>2, <2>4 DEF GrowPdaLedger
  <2> QED BY <1>6, <2>1, <2>2, <2>3, <2>4 DEF OpenNext
<1>7. CASE ValueNext
  <2>1. ASSUME NEW S, NEW m, NEW a, NEW w \in Wallets, NEW f, NEW n,
               Deposit(w, m, a, f, n, S)
        PROVE  PermissionTypes'
    <3>1. permission' = [permission EXCEPT ![w] =
                            IF @ = NoPermission THEN WalletMembers(w) ELSE @]
      BY <2>1 DEF Deposit
    <3> QED BY <1>1, <1>4, <3>1 DEF PermissionTypes
  <2>2. ASSUME NEW S, NEW o \in Owners, NEW p, CloseLedger(o, p, S)
        PROVE  PermissionTypes'
    BY <1>3, <2>2 DEF CloseLedger
  <2>3. ASSUME NEW S, NEW m, NEW a, NEW w, NEW d, Withdraw(w, m, a, S) \/ Settle(w, d, m, a, S)
        PROVE  PermissionTypes'
    BY <1>2, <2>3 DEF Withdraw, Settle
  <2> QED BY <1>7, <2>1, <2>2, <2>3 DEF ValueNext
<1>8. CASE DonateNext \/ DelegationNext
  BY <1>2, <1>8
     DEF DonateNext, Donate, DelegationNext, DelegateLedger, Undelegate, CommitLands, CommitFails
<1>9. CASE PrivacyNext
  <2>1. ASSUME NEW o \in Owners, NEW p, NEW S, MakePublic(o, p, S)
        PROVE  PermissionTypes'
    BY <1>3, <2>1 DEF MakePublic
  <2>2. ASSUME NEW o \in Owners, NEW S, MakeWalletLedgerPrivate(o, S)
        PROVE  PermissionTypes'
    <3>1. o \in Wallets
      BY <2>2 DEF MakeWalletLedgerPrivate, IsPda, Owners
    <3> QED BY <1>3, <1>4, <2>2, <3>1 DEF MakeWalletLedgerPrivate
  <2>3. ASSUME NEW o \in Owners, NEW p \in Sponsors, NEW g \in Programs, NEW S,
               MakePdaLedgerPrivate(o, p, g, S)
        PROVE  PermissionTypes'
    BY <1>3, <1>5, <2>3 DEF MakePdaLedgerPrivate
  <2>4. ASSUME NEW o \in Owners, NEW g, NEW c \in Programs, NEW S, AddPdaCaller(o, g, c, S)
        PROVE  PermissionTypes'
    <3>1. permission[o] \cup {VaultId, c} \in SUBSET Principals
      BY <1>1, <2>4 DEF AddPdaCaller, PermissionTypes
    <3> QED BY <1>3, <2>4, <3>1 DEF AddPdaCaller
  <2> QED BY <1>9, <2>1, <2>2, <2>3, <2>4 DEF PrivacyNext
<1>10. CASE SessionNext
  BY <1>2, <1>10 DEF SessionNext, custodyVars
<1>11. CASE UNCHANGED vars
  BY <1>2, <1>11 DEF vars, custodyVars
<1> QED BY <1>6, <1>7, <1>8, <1>9, <1>10, <1>11 DEF Next

(* Stores, clock and signers keep their types.                             *)
LEMMA SessionsStep == SessionTypes /\ [Next]_vars => SessionTypes'
<1> SUFFICES ASSUME SessionTypes, [Next]_vars
             PROVE  SessionTypes'
  OBVIOUS
<1>1. /\ store \in Stores /\ now \in Times /\ signed \subseteq Keys
      /\ \A w \in Wallets : w \in Keys
      /\ \A S \in SignerSets : S \subseteq Keys
  BY Constants DEF SessionTypes, Stores, SignerSets
<1>2. CASE UNCHANGED sessionVars /\ signed' \subseteq Keys
  BY <1>2 DEF SessionTypes, sessionVars
<1>3. ASSUME store' \in Stores, now' \in Times, signed' \subseteq Keys
      PROVE  SessionTypes'
  BY <1>3 DEF SessionTypes, Stores
<1>4. CASE OpenNext
  <2>1. ASSUME NEW S \in SignerSets, NEW w \in Wallets, NEW n, OpenWalletLedger(w, n, S)
        PROVE  SessionTypes'
    BY <1>1, <1>3, <2>1, EnsureTyped DEF OpenWalletLedger
  <2>2. ASSUME NEW S \in SignerSets, NEW o, NEW p, NEW g, NEW f, NEW n,
               \/ InitializeVault(p, S)
               \/ OpenPdaLedger(o, p, g, n, S)
               \/ GrowPdaLedger(o, p, f, n, S)
        PROVE  SessionTypes'
    BY <1>1, <1>2, <2>2 DEF InitializeVault, OpenPdaLedger, GrowPdaLedger
  <2> QED BY <1>4, <2>1, <2>2 DEF OpenNext
<1>5. CASE ValueNext
  <2>1. ASSUME NEW S \in SignerSets, NEW m, NEW a, NEW w \in Wallets, NEW f, NEW n,
               Deposit(w, m, a, f, n, S)
        PROVE  SessionTypes'
    BY <1>1, <1>3, <2>1, EnsureTyped DEF Deposit
  <2>2. ASSUME NEW S \in SignerSets, NEW m, NEW a, NEW w, NEW d,
               Withdraw(w, m, a, S) \/ Settle(w, d, m, a, S)
        PROVE  SessionTypes'
    BY <1>1, <1>2, <2>2 DEF Withdraw, Settle
  <2>3. ASSUME NEW S \in SignerSets, NEW o \in Owners, NEW p, CloseLedger(o, p, S)
        PROVE  SessionTypes'
    <3>1. CASE IsPda(o)
      BY <1>1, <1>2, <2>3, <3>1 DEF CloseLedger, sessionVars
    <3>2. CASE ~IsPda(o)
      <4>1. o \in Wallets
        BY <3>2 DEF IsPda, Owners
      <4> QED BY <1>1, <1>3, <2>3, <3>2, <4>1, EnsureTyped DEF CloseLedger
    <3> QED BY <3>1, <3>2
  <2> QED BY <1>5, <2>1, <2>2, <2>3 DEF ValueNext
<1>6. CASE DonateNext
  BY <1>1, <1>2, <1>6 DEF DonateNext, Donate
<1>7. CASE DelegationNext
  BY <1>1, <1>2, <1>7 DEF DelegationNext, DelegateLedger, Undelegate, CommitLands, CommitFails
<1>8. CASE PrivacyNext
  <2>1. ASSUME NEW o, NEW p, NEW S \in SignerSets,
               MakePublic(o, p, S) \/ MakeWalletLedgerPrivate(o, S)
        PROVE  SessionTypes'
    BY <1>1, <1>2, <2>1 DEF MakePublic, MakeWalletLedgerPrivate
  <2>2. ASSUME NEW o, NEW p, NEW g, NEW S \in SignerSets, MakePdaLedgerPrivate(o, p, g, S)
        PROVE  SessionTypes'
    BY <1>1, <1>2, <2>2 DEF MakePdaLedgerPrivate
  <2>3. ASSUME NEW o, NEW g, NEW c, NEW S \in SignerSets, AddPdaCaller(o, g, c, S)
        PROVE  SessionTypes'
    BY <1>1, <1>2, <2>3 DEF AddPdaCaller
  <2> QED BY <1>8, <2>1, <2>2, <2>3 DEF PrivacyNext
<1>9. CASE SessionNext
  <2>1. ASSUME NEW S \in SignerSets, NEW w \in Wallets, NEW p \in Programs,
               NEW k \in Keys \cup {ZeroKey}, NEW t \in Times, AuthorizeSession(w, p, k, t, S)
        PROVE  SessionTypes'
    <3>1. store' \in Stores
      BY <1>1, <2>1, AuthorizeTyped
    <3> QED BY <1>1, <1>3, <2>1, <3>1 DEF AuthorizeSession
  <2>2. ASSUME NEW S \in SignerSets, NEW w \in Wallets, NEW p \in Programs, NEW k,
               RevokeSession(w, p, k, S)
        PROVE  SessionTypes'
    <3>1. store' \in Stores
      BY <1>1, <2>2, RevokeTyped
    <3> QED BY <1>1, <1>3, <2>2, <3>1 DEF RevokeSession
  <2>3. CASE Tick
    BY <1>1, <1>3, <2>3, SessionsAssumption DEF Tick, Times
  <2> QED BY <1>9, <2>1, <2>2, <2>3 DEF SessionNext
<1>10. CASE UNCHANGED vars
  BY <1>1, <1>2, <1>10 DEF vars
<1> QED BY <1>4, <1>5, <1>6, <1>7, <1>8, <1>9, <1>10 DEF Next

(* The initial reserves, purses, permissions and stores have their types.  *)
LEMMA TypesInit == Init => MoneyTypes /\ PermissionTypes /\ SessionTypes
BY VaultAssumption, SessionsAssumption
   DEF Init, MoneyTypes, PermissionTypes, SessionTypes, Times

(* The vault's variables keep their types: amounts stay within a u64, no   *)
(* reserve or purse is overdrawn, stores hold only keys a person can hold. *)
THEOREM TypesKept == Spec => []TypeOK
<1>1. Init => Copies /\ MoneyTypes /\ PermissionTypes /\ SessionTypes
  BY CopiesInit, TypesInit
<1>2. /\ Copies /\ MoneyTypes /\ PermissionTypes /\ SessionTypes /\ [Next]_vars
      => (Copies /\ MoneyTypes /\ PermissionTypes /\ SessionTypes)'
  BY CopiesStep, MoneyStep, PermissionStep, SessionsStep
<1>3. Copies /\ MoneyTypes /\ PermissionTypes /\ SessionTypes => TypeOK
  BY CopiesAreSound DEF TypeOK
<1> QED BY <1>1, <1>2, <1>3, PTL DEF Spec

----------------------------------------------------------------------------
(* A credit lists its own mint and no other; a debit lists none.           *)
LEMMA CreditLists ==
    ASSUME NEW l, Good(l), l.capacity > 0, NEW m \in Mints, NEW a \in Amount, CanCredit(l, m, a),
           NEW x \in Mints \ {Sol, m}, Has(Credit(l, m, a), x)
    PROVE  Has(l, x)
<1> PICK n \in Nat \ {0} : n = l.capacity
  BY DEF Good
<1> DEFINE c == Claim(l, m)
           k == Credit(l, m, a)
           f == First(FreeSlots(l))
           i == IndexOf(c, m)
<1>1. InOrder(Payers, Deriving, n, l) /\ CanClaim(l, m)
  BY DEF Good, CanCredit
<1>2. InOrder(Payers, Deriving, n, c) /\ Has(c, m)
  BY <1>1, ClaimKeepsBalances
<1>3. /\ l \in LedgerOf(Payers, Deriving, n) /\ c \in LedgerOf(Payers, Deriving, n)
      /\ i \in 0..(n - 1)
  BY <1>1, <1>2, OneSlot DEF InOrder
<1>4. /\ Slots(l) = 0..(n - 1) /\ Slots(c) = 0..(n - 1)
      /\ l.entries \in [0..(n - 1) -> Entry] /\ c.entries \in [0..(n - 1) -> Entry]
      /\ c.capacity = n
  BY <1>3, Fields
<1>5. \A j \in 0..(n - 1) : c.entries[j].mint \in {l.entries[j].mint, m}
  <2>1. CASE Has(l, m)
    BY <2>1 DEF Claim
  <2>2. CASE ~Has(l, m)
    <3>1. c.entries = [l.entries EXCEPT ![f].mint = m]
      BY <1>3, <2>2 DEF Claim, LedgerOf
    <3> HIDE DEF c, f
    <3> QED BY <1>4, <3>1 DEF Entry
  <2> QED BY <2>1, <2>2
<1>6. k = [c EXCEPT !.entries[i].amount = @ + a]
  BY DEF Credit
<1> HIDE DEF c, i, k
<1>7. k.capacity = n /\ k.entries = [c.entries EXCEPT ![i].amount = @ + a]
  BY <1>3, <1>4, <1>6 DEF LedgerOf
<1>8. \A j \in 0..(n - 1) : k.entries[j].mint = c.entries[j].mint
  BY <1>3, <1>4, <1>7 DEF Entry
<1>9. PICK j \in 0..(n - 1) : k.entries[j].mint = x
  BY <1>7 DEF Has, SlotsOf, Slots, k
<1>10. l.entries[j].mint = x
  BY <1>5, <1>8, <1>9
<1> QED BY <1>4, <1>10 DEF Has, SlotsOf

(* A debit lists nothing new.                                              *)
LEMMA DebitLists ==
    ASSUME NEW l, Good(l), l.capacity > 0, NEW m \in Mints, NEW a \in Amount, CanDebit(l, m, a),
           NEW x \in Mints \ {Sol}, Has(Debit(l, m, a), x)
    PROVE  Has(l, x)
<1> PICK n \in Nat \ {0} : n = l.capacity
  BY DEF Good
<1> DEFINE k == Debit(l, m, a)
           i == IndexOf(l, m)
<1>1. InOrder(Payers, Deriving, n, l) /\ Has(l, m)
  BY DEF Good, CanDebit
<1>2. l \in LedgerOf(Payers, Deriving, n) /\ i \in 0..(n - 1) /\ l.entries[i].mint = m
  BY <1>1, OneSlot DEF InOrder
<1>3. Slots(l) = 0..(n - 1) /\ l.entries \in [0..(n - 1) -> Entry]
  BY <1>2, Fields
<1>4. k = [l EXCEPT !.entries[i] = [mint |-> IF @.amount = a /\ i # 0 THEN Sol ELSE @.mint,
                                    amount |-> @.amount - a]]
  BY DEF Debit
<1> HIDE DEF k, i
<1>5. /\ k.capacity = n
      /\ k.entries = [l.entries EXCEPT ![i] =
            [mint |-> IF @.amount = a /\ i # 0 THEN Sol ELSE @.mint, amount |-> @.amount - a]]
  BY <1>2, <1>4 DEF LedgerOf
<1>6. \A j \in 0..(n - 1) : k.entries[j].mint \in {l.entries[j].mint, Sol}
  BY <1>2, <1>3, <1>5 DEF Entry
<1>7. PICK j \in 0..(n - 1) : k.entries[j].mint = x
  BY <1>5 DEF Has, SlotsOf, Slots, k
<1>8. l.entries[j].mint = x
  BY <1>6, <1>7
<1> QED BY <1>3, <1>8 DEF Has, SlotsOf

(* A ledger that stays as it is lists what it listed.                      *)
LEMMA SameLive ==
    ASSUME Copies, Copies', NEW o \in Owners, Live(o)' = Live(o)
    PROVE  Listed(o)' = Listed(o)
<1>1. Exists(o) <=> Live(o).capacity > 0
  BY DEF Copies, Sound, Exists, Live, SameHeader
<1>2. Exists(o)' <=> Live(o)'.capacity > 0
  BY DEF Copies, Sound, Exists, Live, SameHeader
<1> QED BY <1>1, <1>2 DEF Listed

(* Leave to list a new mint on a wallet's ledger.                          *)
LeaveToList(w) ==
    \/ w \in signed'
    \/ \E k \in signed', p \in signed' \cap Pdas : MayConsent(w, k, ProgramOf[p])

(* The program named in a PDA's live ledger is its own.                    *)
LEMMA OwnProgram ==
    ASSUME Copies, NEW o \in Pdas, Exists(o)
    PROVE  Live(o).authorized = ProgramOf[o]
<1>1. o \in Owners
  BY Constants
<1>2. Sound(o, base[o], rollup[o], where[o]) /\ base[o].capacity > 0
  BY <1>1 DEF Copies, Exists
<1> QED BY <1>2 DEF Sound, HeadOf, SameHeader, Live

(* settle lists at most the mint it moves, on the taker's ledger.          *)
LEMMA SettleLists ==
    ASSUME Copies, Copies', NEW src \in Owners, NEW dst \in Owners, NEW m \in Mints,
           NEW a \in Amount, NEW S, Settle(src, dst, m, a, S), NEW w \in Wallets
    PROVE  Listed(w)' \subseteq Listed(w) \/ LeaveToList(w)
<1>1. w \in Owners /\ w \notin Pdas /\ src # dst
  BY Constants DEF Settle
<1>2. CASE w = src
  BY <1>2 DEF Settle, DebitedSideSigns, LeaveToList
<1>3. CASE w \notin {src, dst}
  <2>1. Live(w)' = Live(w)
    BY <1>1, <1>3 DEF Settle, Live, Copies
  <2> QED BY <1>1, <2>1, SameLive
<1>4. CASE w = dst
  <2> SUFFICES ASSUME NEW x \in Listed(w)', x \notin Listed(w)
               PROVE  LeaveToList(w)
    OBVIOUS
  <2>1. /\ where[src] = where[dst] /\ where' = where
        /\ CanCredit(Live(dst), m, a)
        /\ Live(dst)' = Credit(Live(dst), m, a)
    BY <1>1 DEF Settle, Together, Live, Copies
  <2>2. Exists(src) /\ Exists(dst) /\ src \in Pdas /\ src \in S /\ signed' = S
    BY <1>1, <1>4 DEF Settle, Together, Mediated, IsPda, DebitedSideSigns
  <2>3. Good(Live(dst)) /\ Live(dst).capacity > 0
    BY <2>2, LiveIsGood
  <2>4. x \in Mints \ {Sol} /\ Has(Live(dst)', x) /\ ~Has(Live(dst), x)
    BY <1>4, <2>2 DEF Listed
  <2>5. x = m
    BY <2>1, <2>3, <2>4, CreditLists
  <2>6. PICK k \in S : MayConsent(dst, k, Live(src).authorized)
    BY <1>1, <1>4, <2>4, <2>5 DEF Settle, MayClaim, IsPda
  <2>7. Live(src).authorized = ProgramOf[src]
    BY <2>2, OwnProgram
  <2> QED BY <1>4, <2>2, <2>6, <2>7 DEF LeaveToList
<1> QED BY <1>2, <1>3, <1>4

(* No step lists a new mint on a wallet's ledger without leave.            *)
LEMMA ListStep ==
    ASSUME Copies, [Next]_vars, NEW w \in Wallets
    PROVE  Listed(w)' \subseteq Listed(w) \/ LeaveToList(w)
<1>1. Copies' /\ w \in Owners /\ w \notin Pdas
  BY CopiesStep, Constants
<1>2. CASE Live(w)' = Live(w)
  BY <1>1, <1>2, SameLive
<1>3. CASE w \in signed'
  BY <1>3 DEF LeaveToList
<1>4. ASSUME NEW o \in Owners, o # w, NEW b, base' = [base EXCEPT ![o] = b],
             UNCHANGED <<rollup, where>>
      PROVE  Live(w)' = Live(w)
  BY <1>1, <1>4 DEF Live, Copies
<1>5. CASE UNCHANGED <<base, rollup, where>>
  BY <1>2, <1>5 DEF Live
<1>6. CASE OpenNext
  <2>1. ASSUME NEW S, NEW p, InitializeVault(p, S)
        PROVE  UNCHANGED <<base, rollup, where>>
    BY <2>1 DEF InitializeVault
  <2>2. ASSUME NEW S, NEW v \in Wallets, NEW n, OpenWalletLedger(v, n, S)
        PROVE  Live(w)' = Live(w) \/ w \in signed'
    <3>1. v \in Owners
      BY Constants
    <3> QED BY <1>4, <2>2, <3>1 DEF OpenWalletLedger
  <2>3. ASSUME NEW S, NEW o \in Owners, NEW p, NEW g, NEW n, OpenPdaLedger(o, p, g, n, S)
        PROVE  Live(w)' = Live(w)
    <3>1. o # w
      BY <1>1, <2>3 DEF OpenPdaLedger, VerifyPdaOwner, IsPda
    <3> QED BY <1>4, <2>3, <3>1 DEF OpenPdaLedger
  <2>4. ASSUME NEW S, NEW o \in Owners, NEW p, NEW f, NEW n, GrowPdaLedger(o, p, f, n, S)
        PROVE  Live(w)' = Live(w)
    <3>1. o # w
      BY <1>1, <2>4 DEF GrowPdaLedger, IsPda
    <3>2. base' = [base EXCEPT ![o] = EnsureHeadroom(base[o], f, n)]
      BY <2>4 DEF GrowPdaLedger, Copies
    <3> QED BY <1>4, <2>4, <3>1, <3>2 DEF GrowPdaLedger
  <2> QED BY <1>2, <1>3, <1>5, <1>6, <2>1, <2>2, <2>3, <2>4 DEF OpenNext
<1>7. CASE ValueNext
  <2>1. ASSUME NEW S, NEW m, NEW a, NEW v \in Wallets, NEW f, NEW i, Deposit(v, m, a, f, i, S)
        PROVE  Live(w)' = Live(w) \/ w \in signed'
    <3>1. v \in Owners
      BY Constants
    <3> QED BY <1>4, <2>1, <3>1 DEF Deposit
  <2>2. ASSUME NEW S, NEW m, NEW a, NEW v \in Wallets, Withdraw(v, m, a, S)
        PROVE  Live(w)' = Live(w) \/ w \in signed'
    <3>1. v \in Owners
      BY Constants
    <3>2. base' = [base EXCEPT ![v] = Debit(base[v], m, a)]
      BY <2>2, <3>1 DEF Withdraw, Copies
    <3> QED BY <1>4, <2>2, <3>1, <3>2 DEF Withdraw
  <2>3. ASSUME NEW S, NEW m \in Mints, NEW a \in Amount, NEW src \in Owners, NEW dst \in Owners,
               Settle(src, dst, m, a, S)
        PROVE  Listed(w)' \subseteq Listed(w) \/ LeaveToList(w)
    BY <1>1, <2>3, SettleLists
  <2>4. ASSUME NEW o \in Owners, NEW p, NEW S, CloseLedger(o, p, S)
        PROVE  Live(w)' = Live(w) \/ w \in signed'
    BY <1>4, <2>4 DEF CloseLedger
  <2> QED BY <1>2, <1>3, <1>7, <2>1, <2>2, <2>3, <2>4 DEF ValueNext
<1>8. CASE DonateNext
  BY <1>5, <1>8 DEF DonateNext, Donate
<1>9. CASE DelegationNext
  <2>1. ASSUME NEW o \in Owners, NEW S, NEW v \in Validators, DelegateLedger(o, v, S)
        PROVE  Live(w)' = Live(w)
    BY <1>1, <2>1, VaultAssumption DEF DelegateLedger, Home, Live, Copies
  <2>2. ASSUME NEW o \in Owners, NEW S, NEW p, Undelegate(o, p, S) \/ CommitFails(o)
        PROVE  UNCHANGED <<base, rollup, where>>
    BY <2>2 DEF Undelegate, CommitFails
  <2>3. ASSUME NEW o \in Owners, CommitLands(o)
        PROVE  Live(w)' = Live(w)
    BY <1>1, <2>3 DEF CommitLands, Live, Copies
  <2> QED BY <1>2, <1>5, <1>9, <2>1, <2>2, <2>3 DEF DelegationNext
<1>10. CASE PrivacyNext
  BY <1>5, <1>10
     DEF PrivacyNext, MakePublic, MakeWalletLedgerPrivate, MakePdaLedgerPrivate, AddPdaCaller
<1>11. CASE SessionNext \/ UNCHANGED vars
  BY <1>5, <1>11 DEF SessionNext, custodyVars, vars
<1> QED BY <1>6, <1>7, <1>8, <1>9, <1>10, <1>11 DEF Next

(* A program cannot fill a person's table with mints of its choosing: a    *)
(* wallet's ledger lists a new one only if the wallet signed, or a key it  *)
(* granted to the paying program (settle.rs:53-70).                        *)
THEOREM NewMintsNeedConsent == Spec => ClaimNeedsConsent
<1>1. Spec => []Copies
  BY CopiesInit, CopiesStep, PTL DEF Spec
<1>2. Copies /\ [Next]_vars =>
        [\A w \in Wallets : Listed(w)' \subseteq Listed(w)
            \/ w \in signed'
            \/ \E k \in signed', p \in signed' \cap Pdas : MayConsent(w, k, ProgramOf[p])]_vars
  BY ListStep DEF LeaveToList
<1> QED BY <1>1, <1>2, PTL DEF Spec, ClaimNeedsConsent

----------------------------------------------------------------------------
(* What an owner holds and is owed, over the live copies.                 *)
Worth(o, m) == purse[o][m] + Due(o, m)

(* No step makes a wallet richer unless a program's PDA signed it.         *)
LEMMA WorthStep ==
    Copies /\ MoneyTypes /\ [Next]_vars =>
        \A w \in Wallets, m \in Mints : Worth(w, m)' > Worth(w, m) => signed' \cap Pdas # {}
<1> SUFFICES ASSUME Copies, MoneyTypes, [Next]_vars, NEW w \in Wallets, NEW m \in Mints,
                    Worth(w, m)' > Worth(w, m), signed' \cap Pdas = {}
             PROVE  FALSE
  OBVIOUS
<1>1. /\ w \in Owners /\ w \notin Pdas /\ Due(w, m) \in Nat
      /\ purse[w][m] \in Nat /\ purse'[w][m] \in Nat
  BY Constants, CopiesStep, LiveIsGood, MoneyStep DEF MoneyTypes
<1>2. /\ ~(Due(w, m)' = Due(w, m) /\ purse'[w][m] <= purse[w][m])
      /\ ~(Due(w, m)' = Due(w, m) /\ purse' = purse)
  BY <1>1 DEF Worth
<1>3. ~UNCHANGED custodyVars /\ ~(UNCHANGED <<base, rollup, where, returning, purse>>)
  BY <1>1, <1>2, QuietEffect DEF custodyVars
<1>4. \A i \in 0..(MaxSlotIncrease + 1) : i \in Nat
  BY VaultAssumption
<1>5. \A a \in Amount : a \in Nat
  BY LedgerTableAssumption DEF Amount
<1>6. ASSUME NEW p \in Wallets, NEW n \in Mints, NEW x \in Nat,
             purse' = [purse EXCEPT ![p][n] = @ - x]
      PROVE  /\ purse'[w][m] <= purse[w][m]
             /\ w = p /\ m = n => purse'[w][m] = purse[w][m] - x
  BY <1>1, <1>6, Constants DEF MoneyTypes
<1>7. ~OpenNext
  <2>1. ASSUME NEW S, NEW p \in Wallets, InitializeVault(p, S)
        PROVE  FALSE
    <3>1. Floor - reserve[Sol] \in Nat /\ Sol \in Mints
      BY <2>1, VaultAssumption, LedgerTableAssumption DEF InitializeVault, MoneyTypes
    <3>2. purse'[w][m] <= purse[w][m]
      BY <1>6, <2>1, <3>1 DEF InitializeVault
    <3> QED BY <1>2, <2>1, <3>2, QuietEffect, <1>1 DEF InitializeVault
  <2>2. ASSUME NEW S, NEW v \in Wallets, NEW n, OpenWalletLedger(v, n, S)
        PROVE  FALSE
    <3>1. Due(w, m)' = Due(w, m)
      BY <1>1, <2>2, OpenWalletEffect
    <3>2. purse' = purse
      BY <2>2 DEF OpenWalletLedger
    <3> QED BY <1>2, <3>1, <3>2
  <2>3. ASSUME NEW S, NEW x \in Owners, NEW p \in Sponsors, NEW g \in Programs, NEW n,
               OpenPdaLedger(x, p, g, n, S)
        PROVE  FALSE
    <3>1. Due(w, m)' = Due(w, m)
      BY <1>1, <2>3, OpenPdaEffect
    <3>2. purse' = purse
      BY <2>3 DEF OpenPdaLedger
    <3> QED BY <1>2, <3>1, <3>2
  <2>4. ASSUME NEW S, NEW x \in Owners, NEW p, NEW f, NEW n \in Nat, GrowPdaLedger(x, p, f, n, S)
        PROVE  FALSE
    <3>1. Due(w, m)' = Due(w, m)
      BY <1>1, <2>4, GrowEffect
    <3>2. purse' = purse
      BY <2>4 DEF GrowPdaLedger
    <3> QED BY <1>2, <3>1, <3>2
  <2> QED BY <1>4, <2>1, <2>2, <2>3, <2>4 DEF OpenNext
<1>8. ~ValueNext
  <2>1. ASSUME NEW S, NEW n \in Mints, NEW a \in Amount, NEW v \in Wallets, NEW f,
               NEW i \in Nat, Deposit(v, n, a, f, i, S)
        PROVE  FALSE
    <3>1. OthersKept(v, n) /\ Due(v, n)' = Due(v, n) + a
      BY <2>1, DepositEffect
    <3>2. purse' = [purse EXCEPT ![v][n] = @ - a]
      BY <2>1 DEF Deposit
    <3>3. w = v /\ m = n
      BY <1>1, <1>2, <1>5, <1>6, <3>1, <3>2 DEF OthersKept
    <3>4. purse'[w][m] = purse[w][m] - a
      BY <1>5, <1>6, <3>2, <3>3
    <3> QED BY <1>1, <1>5, <3>1, <3>3, <3>4 DEF Worth
  <2>2. ASSUME NEW S, NEW n \in Mints, NEW a \in Amount, NEW v \in Wallets, Withdraw(v, n, a, S)
        PROVE  FALSE
    <3>1. OthersKept(v, n) /\ Due(v, n)' = Due(v, n) - a /\ a <= Due(v, n)
      BY <2>2, WithdrawEffect
    <3>2. purse' = [purse EXCEPT ![v][n] = @ + Delivered(n, a)]
      BY <2>2 DEF Withdraw
    <3>3. Delivered(n, a) \in Nat /\ Delivered(n, a) <= a
      BY <1>5, DeliveredBounds
    <3>4. ~(w = v /\ m = n) => purse'[w][m] = purse[w][m]
      BY <1>1, <3>2, Constants DEF MoneyTypes
    <3>5. w = v /\ m = n
      BY <1>1, <1>2, <3>1, <3>4 DEF OthersKept
    <3>6. purse'[w][m] = purse[w][m] + Delivered(n, a)
      BY <1>1, <3>2, <3>5 DEF MoneyTypes
    <3> QED BY <1>1, <1>5, <3>1, <3>3, <3>5, <3>6 DEF Worth
  <2>3. ASSUME NEW S, NEW n \in Mints, NEW a \in Amount, NEW src \in Owners, NEW dst \in Owners,
               Settle(src, dst, n, a, S)
        PROVE  FALSE
    <3>1. /\ src \in signed' /\ purse' = purse
      BY <2>3 DEF Settle, DebitedSideSigns
    <3>2. src \notin Pdas
      BY <1>3, <3>1, <1>2
    <3>3. /\ dst \in Pdas /\ a \in Nat
          /\ Due(src, n)' = Due(src, n) - a
          /\ \A x \in Owners, y \in Mints : y # n \/ x \notin {src, dst} => Due(x, y)' = Due(x, y)
      BY <1>5, <2>3, <3>2, SettleEffect
    <3> QED BY <1>1, <3>1, <3>3 DEF Worth
  <2>4. ASSUME NEW o \in Owners, NEW p, NEW S, CloseLedger(o, p, S)
        PROVE  FALSE
    <3>1. o \in signed'
      BY <2>4 DEF CloseLedger
    <3>2. o \notin Pdas
      BY <3>1
    <3>3. purse' = [purse EXCEPT ![o] =
                       [n \in Mints |-> @[n] + Delivered(n, Balance(base[o], n))]]
      BY <2>4 DEF CloseLedger
    <3>4. /\ \A x \in Owners \ {o}, n \in Mints : Due(x, n)' = Due(x, n)
          /\ \A n \in Mints : Due(o, n) = Balance(base[o], n) /\ Due(o, n)' = 0
      BY <2>4, CloseEffect
    <3>5. w # o => purse'[w][m] = purse[w][m]
      BY <1>1, <3>3 DEF MoneyTypes
    <3>6. w = o
      BY <1>1, <1>2, <3>4, <3>5
    <3>7. purse'[w][m] = purse[w][m] + Delivered(m, Due(w, m)) /\ Due(w, m)' = 0
      BY <1>1, <3>3, <3>4, <3>6 DEF MoneyTypes
    <3>8. Delivered(m, Due(w, m)) \in Nat /\ Delivered(m, Due(w, m)) <= Due(w, m)
      BY <1>1, DeliveredBounds
    <3> QED BY <1>1, <3>7, <3>8 DEF Worth
  <2> QED BY <1>4, <2>1, <2>2, <2>3, <2>4 DEF ValueNext
<1>9. ~DonateNext
  <2>1. ASSUME NEW p \in Wallets, NEW n \in Mints, NEW a \in Amount, Donate(p, n, a)
        PROVE  FALSE
    <3>1. purse'[w][m] <= purse[w][m]
      BY <1>5, <1>6, <2>1 DEF Donate
    <3> QED BY <1>1, <1>2, <2>1, <3>1, QuietEffect DEF Donate
  <2> QED BY <2>1 DEF DonateNext
<1>10. ~DelegationNext
  <2>1. ASSUME NEW x \in Owners, NEW S, NEW v \in Validators, DelegateLedger(x, v, S)
        PROVE  FALSE
    <3>1. Due(w, m)' = Due(w, m)
      BY <1>1, <2>1, DelegateEffect
    <3>2. purse' = purse
      BY <2>1 DEF DelegateLedger
    <3> QED BY <1>2, <3>1, <3>2
  <2>2. ASSUME NEW x \in Owners, NEW S, NEW p, Undelegate(x, p, S) \/ CommitFails(x)
        PROVE  FALSE
    <3>1. Due(w, m)' = Due(w, m)
      BY <1>1, <2>2, UndelegateEffect
    <3>2. purse' = purse
      BY <2>2 DEF Undelegate, CommitFails
    <3> QED BY <1>2, <3>1, <3>2
  <2>3. ASSUME NEW x \in Owners, CommitLands(x)
        PROVE  FALSE
    <3>1. Due(w, m)' = Due(w, m)
      BY <1>1, <2>3, CommitEffect
    <3>2. purse' = purse
      BY <2>3 DEF CommitLands
    <3> QED BY <1>2, <3>1, <3>2
  <2> QED BY <2>1, <2>2, <2>3 DEF DelegationNext
<1>11. ~PrivacyNext
  BY <1>3
     DEF PrivacyNext, MakePublic, MakeWalletLedgerPrivate, MakePdaLedgerPrivate, AddPdaCaller
<1>12. ~SessionNext /\ ~UNCHANGED vars
  BY <1>3 DEF SessionNext, vars
<1> QED BY <1>7, <1>8, <1>9, <1>10, <1>11, <1>12 DEF Next

(* Whatever the vault's instructions are strung together into: a step that *)
(* makes a wallet richer, counting what it holds and what it is owed, is   *)
(* one a program's PDA signed.                                             *)
THEOREM NobodyPaysAnother == Spec => NoPaymentRail
<1>1. Spec => [](Copies /\ MoneyTypes)
  <2>1. Init => Copies /\ MoneyTypes
    BY CopiesInit, TypesInit
  <2>2. (Copies /\ MoneyTypes) /\ [Next]_vars => (Copies /\ MoneyTypes)'
    BY CopiesStep, MoneyStep
  <2> QED BY <2>1, <2>2, PTL DEF Spec
<1>2. (Copies /\ MoneyTypes) /\ [Next]_vars =>
        [\A w \in Wallets, m \in Mints :
            Wealth(w, m)' > Wealth(w, m) => signed' \cap Pdas # {}]_vars
  <2>1. \A w \in Wallets, m \in Mints : Wealth(w, m) = Worth(w, m) /\ Wealth(w, m)' = Worth(w, m)'
    BY Constants DEF Wealth, Worth, Claims, Due
  <2> QED BY <2>1, WorthStep
<1> QED BY <1>1, <1>2, PTL DEF Spec, NoPaymentRail

----------------------------------------------------------------------------
(* No permission without its ledger.                                       *)
Guarded == \A o \in Owners : permission[o] # NoPermission => Exists(o)

(* Whom a permission names when the vault makes it.                        *)
Founders(o, l) == IF o \in Wallets THEN {o} ELSE {ProgramOf[o], l.rentPayer}

(* What a step may do to the permission of one owner's ledger: nothing, as *)
(* the ledger stays or stays away; take it with the ledger; make it anew;  *)
(* let a caller join; give it up.                                          *)
Left(o) ==
    /\ permission'[o] = permission[o]
    /\ Exists(o)' <=> Exists(o)
    /\ Exists(o) => base'[o].rentPayer = base[o].rentPayer

Gone(o) == ~Exists(o)' /\ permission'[o] = NoPermission

Founded(o) ==
    Exists(o)' /\ permission'[o] = Founders(o, base'[o]) /\ permission'[o] # NoPermission

Joined(o) ==
    /\ Exists(o) /\ base' = base /\ o \in Pdas /\ permission[o] # NoPermission
    /\ permission[o] \subseteq permission'[o] /\ permission'[o] # NoPermission
    /\ permission'[o] # permission[o] => Cardinality(permission'[o]) <= MaxMembers

Waived(o) ==
    /\ Home(o) /\ base' = base
    /\ {o, base[o].rentPayer} \subseteq signed'
    /\ permission'[o] = NoPermission

Outcome(o) == Left(o) \/ Gone(o) \/ Founded(o) \/ Joined(o) \/ Waived(o)

(* No step does anything else to a permission.                             *)
LEMMA OutcomeStep ==
    Copies /\ PermissionTypes /\ Guarded /\ [Next]_vars => \A o \in Owners : Outcome(o)
<1> SUFFICES ASSUME Copies, PermissionTypes, Guarded, [Next]_vars, NEW o \in Owners
             PROVE  Outcome(o)
  OBVIOUS
<1>1. /\ DOMAIN base = Owners /\ DOMAIN permission = Owners
      /\ permission[o] \in (SUBSET Principals) \cup {NoPermission}
      /\ \A w \in Wallets : w \in Owners /\ w \notin Pdas
      /\ \A x \in Pdas : x \in Owners /\ x \notin Wallets
  BY Constants DEF Copies, PermissionTypes
<1>2. CASE UNCHANGED <<base, permission>>
  BY <1>2 DEF Outcome, Left, Exists
<1>3. ASSUME NEW x \in Owners, NEW k, base' = [base EXCEPT ![x] = k], permission' = permission,
             Exists(x), k.capacity > 0, k.rentPayer = base[x].rentPayer
      PROVE  Outcome(o)
  BY <1>1, <1>3 DEF Outcome, Left, Exists
<1>4. ASSUME NEW x \in Owners, NEW k, NEW ms,
             base' = [base EXCEPT ![x] = k], permission' = [permission EXCEPT ![x] = ms]
      PROVE  /\ o # x => Left(o)
             /\ o = x => base'[o] = k /\ permission'[o] = ms
  BY <1>1, <1>4 DEF Left, Exists
<1>5. ASSUME NEW x \in Owners, NEW ms,
             base' = base, permission' = [permission EXCEPT ![x] = ms]
      PROVE  /\ o # x => Left(o)
             /\ o = x => permission'[o] = ms
  BY <1>1, <1>5 DEF Left, Exists
<1>6. ASSUME NEW w \in Wallets
      PROVE  WalletMembers(w) = {w} /\ {w} # NoPermission
  BY <1>6, VaultAssumption DEF WalletMembers, Keys, OnCurve
<1>7. ASSUME NEW p \in Sponsors, NEW g \in Programs
      PROVE  PdaMembers(g, p) = {g, p} /\ {g, p} # NoPermission
  BY <1>7, Constants, VaultAssumption DEF PdaMembers, Keys, OnCurve
<1>8. \A i \in 0..(MaxSlotIncrease + 1) : i \in Nat
  BY VaultAssumption
<1>9. ASSUME NEW x \in Owners, Home(x)
      PROVE  /\ Good(base[x]) /\ base[x].capacity > 0 /\ where[x] = Basenet
             /\ Live(x) = base[x] /\ HeadOf(x, base[x])
  BY <1>9 DEF Copies, Sound, Home, Exists, Live
<1>10. CASE OpenNext
  <2>1. ASSUME NEW S, NEW p, InitializeVault(p, S)
        PROVE  Outcome(o)
    BY <1>2, <2>1 DEF InitializeVault
  <2>2. ASSUME NEW S, NEW w \in Wallets, NEW n, OpenWalletLedger(w, n, S)
        PROVE  Outcome(o)
    <3>1. /\ base' = [base EXCEPT ![w] = NewLedger(w, ZeroKey, n)] /\ n \in 1..MaxGrowth
          /\ permission' = [permission EXCEPT ![w] = WalletMembers(w)]
      BY <2>2 DEF OpenWalletLedger
    <3>2. NewLedger(w, ZeroKey, n).capacity > 0
      BY <3>1, VaultAssumption DEF NewLedger
    <3> QED BY <1>1, <1>4, <1>6, <3>1, <3>2 DEF Outcome, Founded, Founders, Exists
  <2>3. ASSUME NEW S, NEW x \in Owners, NEW p \in Sponsors, NEW g \in Programs, NEW n,
               OpenPdaLedger(x, p, g, n, S)
        PROVE  Outcome(o)
    <3>1. /\ base' = [base EXCEPT ![x] = NewLedger(p, g, n)] /\ n \in 1..MaxGrowth
          /\ permission' = [permission EXCEPT ![x] = PdaMembers(g, p)]
          /\ x \in Pdas /\ ProgramOf[x] = g
      BY <2>3 DEF OpenPdaLedger, VerifyPdaOwner, IsPda
    <3>2. NewLedger(p, g, n).capacity > 0 /\ NewLedger(p, g, n).rentPayer = p
      BY <3>1, VaultAssumption DEF NewLedger
    <3>3. CASE o = x
      BY <1>1, <1>4, <1>7, <3>1, <3>2, <3>3 DEF Outcome, Founded, Founders, Exists
    <3>4. CASE o # x
      BY <1>1, <1>4, <3>1, <3>4 DEF Outcome, Exists
    <3> QED BY <3>3, <3>4
  <2>4. ASSUME NEW S, NEW x \in Owners, NEW p, NEW f, NEW n \in Nat, GrowPdaLedger(x, p, f, n, S)
        PROVE  Outcome(o)
    <3> DEFINE k == EnsureHeadroom(base[x], f, n)
    <3>1. /\ base' = [base EXCEPT ![x] = k] /\ permission' = permission
          /\ Home(x) /\ CanEnsureHeadroom(base[x], p, f, n)
      BY <2>4 DEF GrowPdaLedger
    <3>2. k.capacity > 0 /\ k.rentPayer = base[x].rentPayer
      BY <1>9, <3>1, HeadroomGood
    <3> QED BY <1>3, <3>1, <3>2 DEF Home
  <2> QED BY <1>8, <1>10, <2>1, <2>2, <2>3, <2>4 DEF OpenNext
<1>11. CASE ValueNext
  <2>1. ASSUME NEW S, NEW m \in Mints, NEW a \in Amount, NEW w \in Wallets, NEW f, NEW n \in Nat,
               Deposit(w, m, a, f, n, S)
        PROVE  Outcome(o)
    <3>1. Copies' /\ Exists(w)' /\ w \in Owners
      BY <1>1, <2>1, DepositEffect
    <3>2. PICK k : base' = [base EXCEPT ![w] = k]
      BY <2>1 DEF Deposit
    <3>3. permission' = [permission EXCEPT ![w] =
                            IF permission[w] = NoPermission THEN WalletMembers(w)
                            ELSE permission[w]]
      BY <2>1 DEF Deposit
    <3>4. o # w => Left(o)
      BY <1>4, <3>1, <3>2, <3>3
    <3>5. CASE o = w /\ permission[w] = NoPermission
      BY <1>1, <1>4, <1>6, <3>1, <3>2, <3>3, <3>5 DEF Outcome, Founded, Founders
    <3>6. CASE o = w /\ permission[w] # NoPermission
      <4>1. Exists(w)
        BY <3>1, <3>6 DEF Guarded
      <4>2. base[w].rentPayer = w
        BY <3>1, <4>1 DEF Copies, Sound, HeadOf, Exists
      <4>3. base'[w].rentPayer = w
        BY <3>1 DEF Copies, Sound, HeadOf, Exists
      <4> QED BY <1>1, <1>4, <3>1, <3>2, <3>3, <3>6, <4>1, <4>2, <4>3 DEF Outcome, Left
    <3> QED BY <3>4, <3>5, <3>6 DEF Outcome
  <2>2. ASSUME NEW S, NEW m \in Mints, NEW a \in Amount, NEW w \in Wallets, Withdraw(w, m, a, S)
        PROVE  Outcome(o)
    <3> DEFINE k == Debit(base[w], m, a)
    <3>1. /\ base' = [base EXCEPT ![w] = k] /\ permission' = permission
          /\ w \in Owners /\ Home(w) /\ CanDebit(base[w], m, a)
      BY <1>1, <2>2 DEF Withdraw
    <3>2. SameHeader(base[w], k)
      BY <1>9, <3>1, DebitGood
    <3> QED BY <1>3, <1>9, <3>1, <3>2 DEF SameHeader, Exists
  <2>3. ASSUME NEW S, NEW m \in Mints, NEW a \in Amount, NEW src \in Owners, NEW dst \in Owners,
               Settle(src, dst, m, a, S)
        PROVE  Outcome(o)
    <3> DEFINE paid == Debit(Live(src), m, a)
               got == Credit(Live(dst), m, a)
    <3>1. /\ permission' = permission /\ Exists(src) /\ Exists(dst)
          /\ where[src] = where[dst]
          /\ CanDebit(Live(src), m, a) /\ CanCredit(Live(dst), m, a)
          /\ where[src] = Basenet => base' = [base EXCEPT ![src] = paid, ![dst] = got]
          /\ where[src] # Basenet => base' = base
      BY <2>3 DEF Settle, Together
    <3>2. CASE where[src] # Basenet
      BY <1>2, <3>1, <3>2
    <3>3. CASE where[src] = Basenet
      <4>1. Home(src) /\ Home(dst)
        BY <3>1, <3>3 DEF Home
      <4>2. SameHeader(base[src], paid) /\ SameHeader(base[dst], got)
        BY <1>9, <3>1, <4>1, DebitGood, CreditGood
      <4> HIDE DEF paid, got
      <4>3. /\ base'[o].rentPayer = base[o].rentPayer
            /\ base'[o].capacity = base[o].capacity
        BY <1>1, <3>1, <3>3, <4>2 DEF SameHeader
      <4> QED BY <3>1, <4>3 DEF Outcome, Left, Exists
    <3> QED BY <3>2, <3>3
  <2>4. ASSUME NEW x \in Owners, NEW p, NEW S, CloseLedger(x, p, S)
        PROVE  Outcome(o)
    <3>1. /\ base' = [base EXCEPT ![x] = NoLedger]
          /\ permission' = [permission EXCEPT ![x] = NoPermission]
      BY <2>4 DEF CloseLedger
    <3>2. NoLedger.capacity = 0
      BY NoLedgerGood
    <3>3. o = x => Gone(o)
      <4>1. o = x => base'[o] = NoLedger /\ permission'[o] = NoPermission
        BY <1>1, <3>1
      <4> QED BY <3>2, <4>1 DEF Gone, Exists
    <3>4. o # x => Left(o)
      BY <1>4, <3>1
    <3> QED BY <3>3, <3>4 DEF Outcome
  <2> QED BY <1>8, <1>11, <2>1, <2>2, <2>3, <2>4 DEF ValueNext
<1>12. CASE DonateNext
  BY <1>2, <1>12 DEF DonateNext, Donate
<1>13. CASE DelegationNext
  <2>1. ASSUME NEW x, NEW S, NEW v, NEW p,
               DelegateLedger(x, v, S) \/ Undelegate(x, p, S) \/ CommitFails(x)
        PROVE  Outcome(o)
    BY <1>2, <2>1 DEF DelegateLedger, Undelegate, CommitFails
  <2>2. ASSUME NEW x \in Owners, CommitLands(x)
        PROVE  Outcome(o)
    <3>1. /\ base' = [base EXCEPT ![x] = rollup[x]] /\ permission' = permission
          /\ where[x] # Basenet
      BY <2>2 DEF CommitLands, Copies
    <3>2. Exists(x) /\ SameHeader(base[x], rollup[x])
      BY <3>1 DEF Copies, Sound, Exists
    <3> QED BY <1>3, <3>1, <3>2 DEF SameHeader, Exists
  <2> QED BY <1>13, <2>1, <2>2 DEF DelegationNext
<1>14. CASE PrivacyNext
  <2>1. ASSUME NEW x \in Owners, NEW p, NEW S, MakePublic(x, p, S)
        PROVE  Outcome(o)
    BY <1>5, <2>1 DEF MakePublic, Outcome, Waived
  <2>2. ASSUME NEW x \in Owners, NEW S, MakeWalletLedgerPrivate(x, S)
        PROVE  Outcome(o)
    <3>1. /\ x \in Wallets /\ Exists(x)
          /\ base' = base /\ permission' = [permission EXCEPT ![x] = WalletMembers(x)]
      BY <2>2 DEF MakeWalletLedgerPrivate, IsPda, Owners, Home
    <3> QED BY <1>5, <1>6, <3>1 DEF Outcome, Founded, Founders, Exists
  <2>3. ASSUME NEW x \in Owners, NEW p \in Sponsors, NEW g \in Programs, NEW S,
               MakePdaLedgerPrivate(x, p, g, S)
        PROVE  Outcome(o)
    <3>1. /\ x \in Pdas /\ ProgramOf[x] = g /\ Exists(x) /\ base[x].rentPayer = p
          /\ base' = base /\ permission' = [permission EXCEPT ![x] = PdaMembers(g, p)]
      BY <2>3 DEF MakePdaLedgerPrivate, VerifyPdaOwner, IsPda, Home
    <3>2. CASE o = x
      BY <1>1, <1>5, <1>7, <3>1, <3>2 DEF Outcome, Founded, Founders, Exists
    <3>3. CASE o # x
      BY <1>1, <1>5, <3>1, <3>3 DEF Outcome, Exists
    <3> QED BY <3>2, <3>3
  <2>4. ASSUME NEW x \in Owners, NEW g, NEW c \in Programs, NEW S, AddPdaCaller(x, g, c, S)
        PROVE  Outcome(o)
    <3> DEFINE ms == permission[x] \cup {VaultId, c}
    <3>1. /\ x \in Pdas /\ Exists(x) /\ permission[x] # NoPermission
          /\ base' = base /\ permission' = [permission EXCEPT ![x] = ms]
          /\ ms # permission[x] => Cardinality(ms) <= MaxMembers
      BY <2>4 DEF AddPdaCaller, VerifyPdaOwner, IsPda
    <3>2. ms # NoPermission
      BY <3>1, VaultAssumption DEF PermissionTypes, Principals
    <3>3. permission[x] \subseteq ms
      OBVIOUS
    <3> HIDE DEF ms
    <3> QED BY <1>5, <3>1, <3>2, <3>3 DEF Outcome, Joined
  <2> QED BY <1>14, <2>1, <2>2, <2>3, <2>4 DEF PrivacyNext
<1>15. CASE SessionNext \/ UNCHANGED vars
  BY <1>2, <1>15 DEF SessionNext, custodyVars, vars
<1> QED BY <1>10, <1>11, <1>12, <1>13, <1>14, <1>15 DEF Next

(* The readers' invariant, with what it takes to keep it.                  *)
LEMMA ReadersStep ==
    Copies /\ PermissionTypes /\ Guarded /\ ReadersKept /\ [Next]_vars
    => Guarded' /\ ReadersKept'
<1> SUFFICES ASSUME Copies, PermissionTypes, Guarded, ReadersKept, [Next]_vars,
                    NEW o \in Owners, permission'[o] # NoPermission
             PROVE  /\ Exists(o)'
                    /\ o \in Wallets => permission'[o] = {o}
                    /\ o \in Pdas => {ProgramOf[o], base'[o].rentPayer} \subseteq permission'[o]
                    /\ Cardinality(permission'[o]) <= MaxMembers
  BY DEF Guarded, ReadersKept
<1>1. o \in Wallets \/ o \in Pdas
  BY DEF Owners
<1>2. o \in Pdas => o \notin Wallets
  BY Constants
<1>3. Outcome(o)
  BY OutcomeStep
<1>4. CASE Left(o)
  BY <1>4 DEF Left, Guarded, ReadersKept
<1>5. CASE Founded(o)
  <2>1. \A x, y : Cardinality({x, y}) \in 1..2 /\ Cardinality({x}) \in 1..2
    <3> SUFFICES ASSUME NEW x, NEW y
                 PROVE  Cardinality({x, y}) \in 1..2 /\ Cardinality({x}) \in 1..2
      OBVIOUS
    <3>1. IsFiniteSet({x}) /\ Cardinality({x}) = 1
      BY FS_Singleton
    <3>2. Cardinality({x} \cup {y}) = IF y \in {x} THEN 1 ELSE 1 + 1
      BY <3>1, FS_AddElement
    <3>3. {x, y} = {x} \cup {y}
      OBVIOUS
    <3> QED BY <3>1, <3>2, <3>3
  <2>2. /\ Exists(o)'
        /\ permission'[o] = IF o \in Wallets THEN {o} ELSE {ProgramOf[o], base'[o].rentPayer}
    BY <1>5 DEF Founded, Founders
  <2>3. Cardinality(permission'[o]) \in 1..2
    <3>1. CASE o \in Wallets
      <4>1. permission'[o] = {o}
        BY <2>2, <3>1
      <4> QED BY <2>1, <4>1, Zenon
    <3>2. CASE o \notin Wallets
      <4>1. permission'[o] = {ProgramOf[o], base'[o].rentPayer}
        BY <2>2, <3>2
      <4> QED BY <2>1, <4>1, Zenon
    <3> QED BY <3>1, <3>2
  <2>4. Cardinality(permission'[o]) <= MaxMembers
    BY <2>3, VaultAssumption
  <2> QED BY <1>2, <2>2, <2>4
<1>6. CASE Joined(o)
  BY <1>2, <1>6 DEF Joined, Guarded, ReadersKept, Exists
<1> QED BY <1>3, <1>4, <1>5, <1>6 DEF Outcome, Gone, Waived

(* What the readers' invariant rests on holds in every behaviour.          *)
LEMMA ReadersInvariant == Spec => [](Copies /\ PermissionTypes /\ Guarded /\ ReadersKept)
<1>1. Init => Copies /\ PermissionTypes /\ Guarded /\ ReadersKept
  BY CopiesInit, TypesInit DEF Init, Guarded, ReadersKept
<1>2. /\ Copies /\ PermissionTypes /\ Guarded /\ ReadersKept /\ [Next]_vars
      => (Copies /\ PermissionTypes /\ Guarded /\ ReadersKept)'
  BY CopiesStep, PermissionStep, ReadersStep
<1> QED BY <1>1, <1>2, PTL DEF Spec

(* In every behaviour a wallet alone reads its ledger, and a program and   *)
(* its sponsor keep reading theirs, whatever callers join, within the      *)
(* member limit.                                                           *)
THEOREM ReadersStay == Spec => []ReadersKept
BY ReadersInvariant, PTL

(* However ledgers open, travel, close and come again, none is public that *)
(* owner and rent payer did not both make public, at home.                 *)
THEOREM NeverPublicUnasked == Spec => PrivateUntilWaived
<1>1. Copies /\ PermissionTypes /\ Guarded /\ ReadersKept /\ [Next]_vars =>
        [\A o \in Owners :
          /\ ~Exists(o)' => permission'[o] = NoPermission
          /\ Exists(o)' /\ permission'[o] = NoPermission =>
                \/ Exists(o) /\ permission[o] = NoPermission
                \/ {o, base[o].rentPayer} \subseteq signed' /\ Home(o)]_vars
  <2> SUFFICES ASSUME Copies, PermissionTypes, Guarded, ReadersKept, [Next]_vars,
                      NEW o \in Owners
               PROVE  /\ ~Exists(o)' => permission'[o] = NoPermission
                      /\ Exists(o)' /\ permission'[o] = NoPermission =>
                            \/ Exists(o) /\ permission[o] = NoPermission
                            \/ {o, base[o].rentPayer} \subseteq signed' /\ Home(o)
    OBVIOUS
  <2>1. Outcome(o)
    BY OutcomeStep
  <2>2. ~Exists(o)' => permission'[o] = NoPermission
    BY ReadersStep DEF Guarded
  <2>3. Exists(o)' /\ permission'[o] = NoPermission =>
            \/ Exists(o) /\ permission[o] = NoPermission
            \/ {o, base[o].rentPayer} \subseteq signed' /\ Home(o)
    BY <2>1 DEF Outcome, Left, Gone, Founded, Joined, Waived, Exists
  <2> QED BY <2>2, <2>3
<1> QED BY <1>1, ReadersInvariant, PTL DEF Spec, PrivateUntilWaived

----------------------------------------------------------------------------
(* The vault keeps the promise of VaultClaims, and so is solvent, as long  *)
(* as no mint keeps a fee of its transfers.                                *)

Payable == [m \in Mints |-> Spendable(m)]
Book == [Owners -> [Mints -> Amount]]

(* The claims are a book of amounts.                                       *)
LEMMA ClaimsInBook == Copies => Claims \in Book
<1> SUFFICES ASSUME Copies
             PROVE  Claims \in Book
  OBVIOUS
<1>1. \A o \in Owners, m \in Mints : Due(o, m) \in Amount
  BY LiveIsGood
<1>2. Claims = [o \in Owners |-> [m \in Mints |-> Due(o, m)]]
  BY DEF Claims, Due
<1> QED BY <1>1, <1>2 DEF Book

(* Two books that differ in one claim.                                     *)
LEMMA OneClaim ==
    ASSUME NEW c \in Book, NEW d \in Book, NEW o \in Owners, NEW m \in Mints, NEW x,
           d[o][m] = x,
           \A p \in Owners, n \in Mints : p # o \/ n # m => d[p][n] = c[p][n]
    PROVE  d = [c EXCEPT ![o][m] = x]
<1> DEFINE e == [c EXCEPT ![o][m] = x]
<1>1. ASSUME NEW p \in Owners
      PROVE  d[p] = e[p]
  <2>1. CASE p = o
    <3>1. e[p] = [c[o] EXCEPT ![m] = x]
      BY <2>1 DEF Book
    <3>2. d[p] \in [Mints -> Amount] /\ c[o] \in [Mints -> Amount]
      BY DEF Book
    <3> QED BY <2>1, <3>1, <3>2
  <2>2. CASE p # o
    <3>1. e[p] = c[p]
      BY <2>2 DEF Book
    <3>2. d[p] \in [Mints -> Amount] /\ c[p] \in [Mints -> Amount]
      BY DEF Book
    <3> QED BY <2>2, <3>1, <3>2
  <2> QED BY <2>1, <2>2
<1>2. DOMAIN d = Owners /\ DOMAIN e = Owners
  BY DEF Book
<1>3. d = [p \in Owners |-> d[p]] /\ e = [p \in Owners |-> e[p]]
  BY DEF Book
<1> HIDE DEF e
<1>4. d = e
  BY <1>1, <1>3
<1> QED BY <1>4 DEF e

(* If nothing due changes, no claim does.                                  *)
LEMMA SameClaims ==
    ASSUME Copies, Copies', \A o \in Owners, m \in Mints : Due(o, m)' = Due(o, m)
    PROVE  Claims' = Claims
BY DEF Claims, Due

(* If one thing due changes, that one claim does.                          *)
LEMMA ClaimChanged ==
    ASSUME Copies, Copies', NEW o \in Owners, NEW m \in Mints, OthersKept(o, m)
    PROVE  Claims' = [Claims EXCEPT ![o][m] = Due(o, m)']
<1>1. Claims \in Book
  BY ClaimsInBook
<1>2. Claims' \in Book
  <2>1. \A p \in Owners, n \in Mints : Balance(Live(p)', n) \in Amount
    BY BalanceIsAmount DEF Copies, Sound, Live
  <2>2. Claims' = [p \in Owners |-> [n \in Mints |-> Balance(Live(p)', n)]]
    BY DEF Claims
  <2> QED BY <2>1, <2>2 DEF Book
<1>3. Claims'[o][m] = Due(o, m)'
  BY DEF Claims, Due
<1>4. \A p \in Owners, n \in Mints : p # o \/ n # m => Claims'[p][n] = Claims[p][n]
  BY DEF Claims, Due, OthersKept
<1> QED BY <1>1, <1>2, <1>3, <1>4, OneClaim

(* What can be paid out follows the reserve once the rent floor is there.  *)
LEMMA SpendableAfter ==
    ASSUME MoneyTypes, NEW n \in Mints, NEW a \in Int, reserve'[n] = reserve[n] + a,
           n = Sol => reserve[n] >= Floor, n = Sol => reserve'[n] >= Floor
    PROVE  Spendable(n)' = Spendable(n) + a
<1>1. reserve[n] \in Nat /\ Floor \in Nat
  BY VaultAssumption DEF MoneyTypes
<1> QED BY <1>1 DEF Spendable

(* A reserve that stays keeps what can be paid out of it.                  *)
LEMMA SpendableSame ==
    ASSUME NEW n \in Mints, reserve'[n] = reserve[n]
    PROVE  Spendable(n)' = Spendable(n)
BY DEF Spendable

----------------------------------------------------------------------------
(* Each step is a step of the abstract vault, or changes nothing it sees.  *)
PromiseKept == [Promise!Next]_(Promise!vars)

(* A step that changes neither claims nor payable reserves is a stutter.   *)
LEMMA Unseen ==
    ASSUME Copies, Copies', \A o \in Owners, m \in Mints : Due(o, m)' = Due(o, m),
           \A n \in Mints : Spendable(n)' = Spendable(n)
    PROVE  PromiseKept
<1>1. Claims' = Claims
  BY SameClaims
<1>2. Payable' = Payable
  BY DEF Payable
<1> QED BY <1>1, <1>2 DEF PromiseKept, Promise!vars, Payable

(* A step that changes neither what is due nor a reserve is a stutter.     *)
LEMMA NoMoneyMoves ==
    ASSUME Copies, Copies', \A o \in Owners, m \in Mints : Due(o, m)' = Due(o, m),
           UNCHANGED reserve
    PROVE  PromiseKept
BY Unseen, SpendableSame

(* Owed and payable up by the same amount: an abstract deposit.            *)
LEMMA AsDeposit ==
    ASSUME Copies, Copies', NEW w \in Wallets, NEW m \in Mints, NEW a \in Amount,
           OthersKept(w, m), Due(w, m)' = Due(w, m) + a, Due(w, m) + a <= MaxU64,
           Spendable(m)' = Spendable(m) + a,
           \A n \in Mints \ {m} : Spendable(n)' = Spendable(n)
    PROVE  PromiseKept
<1>1. w \in Owners
  BY Constants
<1>2. Claims' = [Claims EXCEPT ![w][m] = Due(w, m)'] /\ Claims[w][m] = Due(w, m)
  BY <1>1, ClaimChanged, ClaimsAreDue
<1>3. Payable' = [Payable EXCEPT ![m] = Payable[m] + a]
  BY DEF Payable
<1>4. Claims' = [Claims EXCEPT ![w][m] = Claims[w][m] + a] /\ Claims[w][m] + a <= MaxU64
  BY <1>2
<1>5. Promise!Deposit(w, m, a)
  BY <1>3, <1>4 DEF Promise!Deposit, Payable
<1>6. Promise!Amount = Amount
  BY DEF Promise!Amount, Amount
<1> QED BY <1>5, <1>6 DEF PromiseKept, Promise!Next

(* Owed and payable down by the same amount: an abstract withdrawal.       *)
LEMMA AsWithdraw ==
    ASSUME Copies, Copies', NEW w \in Wallets, NEW m \in Mints, NEW a \in Amount,
           OthersKept(w, m), Due(w, m)' = Due(w, m) - a, a <= Due(w, m),
           a <= Spendable(m), Spendable(m)' = Spendable(m) - a,
           \A n \in Mints \ {m} : Spendable(n)' = Spendable(n)
    PROVE  PromiseKept
<1>1. w \in Owners
  BY Constants
<1>2. Claims' = [Claims EXCEPT ![w][m] = Due(w, m)'] /\ Claims[w][m] = Due(w, m)
  BY <1>1, ClaimChanged, ClaimsAreDue
<1>3. /\ Payable' = [Payable EXCEPT ![m] = Payable[m] - a]
      /\ a <= Payable[m]
  BY DEF Payable
<1>4. Claims' = [Claims EXCEPT ![w][m] = Claims[w][m] - a] /\ a <= Claims[w][m]
  BY <1>2
<1>5. Promise!Withdraw(w, m, a)
  BY <1>3, <1>4 DEF Promise!Withdraw, Payable
<1>6. Promise!Amount = Amount
  BY DEF Promise!Amount, Amount
<1> QED BY <1>5, <1>6 DEF PromiseKept, Promise!Next

(* Payable up and nothing owed: an abstract receipt.                       *)
LEMMA AsReceive ==
    ASSUME Copies, Copies', NEW m \in Mints, NEW a \in Amount,
           \A o \in Owners, n \in Mints : Due(o, n)' = Due(o, n),
           Spendable(m)' = Spendable(m) + a,
           \A n \in Mints \ {m} : Spendable(n)' = Spendable(n)
    PROVE  PromiseKept
<1>1. Claims' = Claims
  BY SameClaims
<1>2. Payable' = [Payable EXCEPT ![m] = Payable[m] + a]
  BY DEF Payable
<1>3. Promise!Receive(m, a)
  BY <1>1, <1>2 DEF Promise!Receive, Payable
<1>4. Promise!Amount = Amount
  BY DEF Promise!Amount, Amount
<1> QED BY <1>3, <1>4 DEF PromiseKept, Promise!Next

(* settle is an abstract move from one owner to another.                   *)
LEMMA AsMove ==
    ASSUME Copies, NEW src \in Owners, NEW dst \in Owners, NEW m \in Mints,
           NEW a \in Amount, NEW S, Settle(src, dst, m, a, S)
    PROVE  PromiseKept
<1>1. /\ Copies'
      /\ src # dst /\ (src \in Pdas \/ dst \in Pdas)
      /\ Due(src, m)' = Due(src, m) - a /\ a <= Due(src, m)
      /\ Due(dst, m)' = Due(dst, m) + a /\ Due(dst, m) + a <= MaxU64
      /\ \A o \in Owners, n \in Mints :
            n # m \/ o \notin {src, dst} => Due(o, n)' = Due(o, n)
  BY SettleEffect
<1>2. /\ \A o \in Owners, n \in Mints : Due(o, n) \in Amount
      /\ a \in Nat /\ MaxU64 \in Nat
  BY LiveIsGood, LedgerTableAssumption DEF Amount
<1>3. Claims \in Book
  BY ClaimsInBook
<1> DEFINE paid == [Claims EXCEPT ![src][m] = Claims[src][m] - a]
           got == [paid EXCEPT ![dst][m] = Claims[dst][m] + a]
<1>4. Claims[src][m] = Due(src, m) /\ Claims[dst][m] = Due(dst, m)
  BY ClaimsAreDue
<1>5. paid \in Book
  <2>1. Claims[src][m] - a \in Amount
    BY <1>1, <1>2, <1>4 DEF Amount
  <2> QED BY <1>3, <2>1 DEF Book
<1>6. Claims' \in Book
  <2>1. \A o \in Owners, n \in Mints : Balance(Live(o)', n) \in Amount
    BY <1>1, BalanceIsAmount DEF Copies, Sound, Live
  <2>2. Claims' = [o \in Owners |-> [n \in Mints |-> Balance(Live(o)', n)]]
    BY DEF Claims
  <2> QED BY <2>1, <2>2 DEF Book
<1>7. Claims'[dst][m] = Claims[dst][m] + a
  BY <1>1, <1>4 DEF Claims, Due
<1>8. /\ paid[src][m] = Claims[src][m] - a
      /\ \A o \in Owners, n \in Mints : o # src \/ n # m => paid[o][n] = Claims[o][n]
  BY <1>3 DEF Book
<1>9. \A o \in Owners, n \in Mints : o # dst \/ n # m => Claims'[o][n] = paid[o][n]
  <2> SUFFICES ASSUME NEW o \in Owners, NEW n \in Mints, o # dst \/ n # m
               PROVE  Claims'[o][n] = paid[o][n]
    OBVIOUS
  <2>1. Claims'[o][n] = Due(o, n)' /\ Claims[o][n] = Due(o, n)
    BY DEF Claims, Due
  <2>2. CASE o = src /\ n = m
    BY <1>1, <1>4, <1>8, <2>1, <2>2
  <2>3. CASE ~(o = src /\ n = m)
    BY <1>1, <1>8, <2>1, <2>3
  <2> QED BY <2>2, <2>3
<1> HIDE DEF paid
<1>10. Claims' = got
  BY <1>5, <1>6, <1>7, <1>9, OneClaim
<1>11. Claims' = [Claims EXCEPT ![src][m] = Claims[src][m] - a,
                                ![dst][m] = Claims[dst][m] + a]
  BY <1>10 DEF paid
<1>12. Payable' = Payable
  BY DEF Settle, Payable, Spendable
<1>13. Promise!Move(src, dst, m, a)
  <2>1. {src, dst} \cap Pdas # {} /\ src # dst
    BY <1>1
  <2>2. a <= Claims[src][m] /\ Claims[dst][m] + a <= MaxU64
    BY <1>1, <1>4
  <2>3. Claims' = [Claims EXCEPT ![src][m] = @ - a, ![dst][m] = @ + a]
    BY <1>1, <1>3, <1>11 DEF Book
  <2> QED BY <1>12, <2>1, <2>2, <2>3 DEF Promise!Move, Payable
<1>14. Promise!Amount = Amount /\ Promise!Owners = Owners
  BY DEF Promise!Amount, Amount, Promise!Owners, Owners
<1> QED BY <1>13, <1>14 DEF PromiseKept, Promise!Next

(* close_ledger is an abstract redemption of all an owner's claims.        *)
LEMMA AsRedeem ==
    ASSUME Copies, MoneyTypes, NEW o \in Owners, NEW p, NEW S, CloseLedger(o, p, S)
    PROVE  PromiseKept
<1>1. /\ Copies'
      /\ \A x \in Owners \ {o}, m \in Mints : Due(x, m)' = Due(x, m)
      /\ \A m \in Mints : Due(o, m) = Balance(base[o], m) /\ Due(o, m)' = 0
  BY CloseEffect
<1>2. /\ \A m \in Mints : Balance(base[o], m) <= Spendable(m)
      /\ reserve' = [m \in Mints |-> reserve[m] - Balance(base[o], m)]
  BY DEF CloseLedger
<1>3. Claims = [x \in Owners |-> [m \in Mints |-> Due(x, m)]]
  BY DEF Claims, Due
<1>4. Claims' = [x \in Owners |-> [m \in Mints |-> Due(x, m)']]
  BY DEF Claims, Due
<1>5. Claims' = [Claims EXCEPT ![o] = [m \in Mints |-> 0]]
  BY <1>1, <1>3, <1>4
<1>6. ASSUME NEW m \in Mints
      PROVE  /\ Claims[o][m] <= Payable[m]
             /\ Payable'[m] = Payable[m] - Claims[o][m]
  <2> DEFINE b == Balance(base[o], m)
  <2>1. Claims[o][m] = b /\ b \in Nat /\ b <= Spendable(m)
    BY <1>1, <1>2, ClaimsAreDue, LiveIsGood
  <2>2. reserve'[m] = reserve[m] - b
    BY <1>2
  <2>3. reserve[m] \in Nat /\ Floor \in Nat
    BY VaultAssumption DEF MoneyTypes
  <2> HIDE DEF b
  <2>4. Spendable(m)' = Spendable(m) - b
    <3>1. CASE m # Sol
      BY <2>2, <3>1 DEF Spendable
    <3>2. CASE m = Sol /\ reserve[m] >= Floor
      BY <2>1, <2>2, <2>3, <3>2 DEF Spendable
    <3>3. CASE m = Sol /\ ~(reserve[m] >= Floor)
      BY <2>1, <2>2, <2>3, <3>3 DEF Spendable
    <3> QED BY <3>1, <3>2, <3>3
  <2> QED BY <2>1, <2>4 DEF Payable
<1>7. Payable' = [m \in Mints |-> Payable[m] - Claims[o][m]]
  <2>1. Payable' = [m \in Mints |-> Spendable(m)']
    BY DEF Payable
  <2> QED BY <1>6, <2>1 DEF Payable
<1>8. Promise!Redeem(o)
  BY <1>5, <1>6, <1>7 DEF Promise!Redeem, Payable
<1>9. Promise!Owners = Owners
  BY DEF Promise!Owners, Owners
<1> QED BY <1>8, <1>9 DEF PromiseKept, Promise!Next

(* Every mint delivers what is sent.                                       *)
NoFees == FeeMints = {}

(* Without fees every step is an abstract step or a stutter.               *)
LEMMA KeptStep == NoFees /\ Copies /\ MoneyTypes /\ [Next]_vars => PromiseKept
<1> SUFFICES ASSUME NoFees, Copies, MoneyTypes, [Next]_vars
             PROVE  PromiseKept
  OBVIOUS
<1>1. Copies'
  BY CopiesStep
<1>2. /\ \A i \in 0..(MaxSlotIncrease + 1) : i \in Nat
      /\ \A m \in Mints, a \in Amount : Delivered(m, a) = a /\ a \in Nat
      /\ reserve \in [Mints -> Nat] /\ Sol \in Mints /\ Floor \in Nat
  BY VaultAssumption, LedgerTableAssumption DEF NoFees, Delivered, MoneyTypes, Amount
<1>3. ASSUME NEW S, NEW p \in Wallets, InitializeVault(p, S)
      PROVE  PromiseKept
  <2>1. \A n \in Mints : Spendable(n)' = Spendable(n)
    BY <1>2, <1>3 DEF InitializeVault, Spendable
  <2>2. \A o \in Owners, m \in Mints : Due(o, m)' = Due(o, m)
    BY <1>3, QuietEffect DEF InitializeVault
  <2> QED BY <1>1, <2>1, <2>2, Unseen
<1>4. ASSUME NEW S, NEW w \in Wallets, NEW n, OpenWalletLedger(w, n, S)
      PROVE  PromiseKept
  <2>1. UNCHANGED reserve
    BY <1>4 DEF OpenWalletLedger
  <2> QED BY <1>1, <1>4, <2>1, OpenWalletEffect, NoMoneyMoves
<1>5. ASSUME NEW S, NEW o \in Owners, NEW p \in Sponsors, NEW g \in Programs, NEW n,
             OpenPdaLedger(o, p, g, n, S)
      PROVE  PromiseKept
  <2>1. UNCHANGED reserve
    BY <1>5 DEF OpenPdaLedger
  <2> QED BY <1>1, <1>5, <2>1, OpenPdaEffect, NoMoneyMoves
<1>6. ASSUME NEW S, NEW o \in Owners, NEW p, NEW f, NEW n \in Nat, GrowPdaLedger(o, p, f, n, S)
      PROVE  PromiseKept
  <2>1. UNCHANGED reserve
    BY <1>6 DEF GrowPdaLedger
  <2> QED BY <1>1, <1>6, <2>1, GrowEffect, NoMoneyMoves
<1>7. ASSUME NEW S, NEW w \in Wallets, NEW m \in Mints, NEW a \in Amount, NEW f,
             NEW n \in Nat, Deposit(w, m, a, f, n, S)
      PROVE  PromiseKept
  <2>1. /\ reserve' = [reserve EXCEPT ![m] = reserve[m] + a]
        /\ m = Sol => reserve[Sol] >= Floor
    BY <1>2, <1>7 DEF Deposit, Funded
  <2>2. Spendable(m)' = Spendable(m) + a
    BY <1>2, <2>1 DEF Spendable
  <2>3. \A x \in Mints \ {m} : Spendable(x)' = Spendable(x)
    BY <1>2, <2>1 DEF Spendable
  <2> QED BY <1>1, <1>7, <2>2, <2>3, DepositEffect, AsDeposit
<1>8. ASSUME NEW S, NEW w \in Wallets, NEW m \in Mints, NEW a \in Amount, Withdraw(w, m, a, S)
      PROVE  PromiseKept
  <2>1. /\ reserve' = [reserve EXCEPT ![m] = reserve[m] - a]
        /\ a <= Spendable(m)
    BY <1>8 DEF Withdraw
  <2>2. Spendable(m)' = Spendable(m) - a
    BY <1>2, <2>1 DEF Spendable
  <2>3. \A x \in Mints \ {m} : Spendable(x)' = Spendable(x)
    BY <1>2, <2>1 DEF Spendable
  <2> QED BY <1>1, <1>8, <2>1, <2>2, <2>3, WithdrawEffect, AsWithdraw
<1>9. ASSUME NEW w \in Wallets, NEW m \in Mints, NEW a \in Amount, Donate(w, m, a)
      PROVE  PromiseKept
  <2>1. reserve' = [reserve EXCEPT ![m] = reserve[m] + a]
    BY <1>2, <1>9 DEF Donate
  <2>2. \A x \in Mints \ {m} : Spendable(x)' = Spendable(x)
    BY <1>2, <2>1 DEF Spendable
  <2>3. PICK b \in 0..a : Spendable(m)' = Spendable(m) + b
    <3>1. reserve[m] \in Nat /\ a \in Nat /\ reserve'[m] = reserve[m] + a
      BY <1>2, <2>1
    <3> DEFINE b == Spendable(m)' - Spendable(m)
    <3>2. /\ Spendable(m) \in Nat /\ Spendable(m)' \in Nat
          /\ b \in 0..a
      BY <1>2, <3>1 DEF Spendable
    <3>3. Spendable(m)' = Spendable(m) + b
      BY <3>2
    <3> QED BY <3>2, <3>3
  <2>4. b \in Amount
    BY <1>2, LedgerTableAssumption DEF Amount
  <2>5. \A o \in Owners, n \in Mints : Due(o, n)' = Due(o, n)
    BY <1>9, QuietEffect DEF Donate
  <2> QED BY <1>1, <2>2, <2>3, <2>4, <2>5, AsReceive
<1>10. ASSUME NEW o \in Owners,
              \/ \E S \in SignerSets, v \in Validators : DelegateLedger(o, v, S)
              \/ \E S \in SignerSets, p \in Wallets : Undelegate(o, p, S)
              \/ CommitLands(o)
              \/ CommitFails(o)
       PROVE  PromiseKept
  <2>1. UNCHANGED reserve
    BY <1>10 DEF DelegateLedger, Undelegate, CommitLands, CommitFails
  <2>2. \A x \in Owners, m \in Mints : Due(x, m)' = Due(x, m)
    BY <1>10, DelegateEffect, UndelegateEffect, CommitEffect
  <2> QED BY <1>1, <2>1, <2>2, NoMoneyMoves
<1>11. CASE UNCHANGED <<base, rollup, where, returning, reserve>>
  BY <1>1, <1>11, QuietEffect, NoMoneyMoves
<1>12. CASE OpenNext
  BY <1>2, <1>3, <1>4, <1>5, <1>6, <1>12 DEF OpenNext
<1>13. CASE ValueNext
  BY <1>2, <1>7, <1>8, <1>13, AsMove, AsRedeem DEF ValueNext
<1>14. CASE DonateNext
  BY <1>9, <1>14 DEF DonateNext
<1>15. CASE DelegationNext
  BY <1>10, <1>15 DEF DelegationNext
<1>16. CASE PrivacyNext
  <2>1. PICK o \in Owners, S \in SignerSets :
           \/ \E p \in Sponsors : MakePublic(o, p, S)
           \/ MakeWalletLedgerPrivate(o, S)
           \/ \E p \in Sponsors, g \in Programs : MakePdaLedgerPrivate(o, p, g, S)
           \/ \E g, c \in Programs : AddPdaCaller(o, g, c, S)
    BY <1>16 DEF PrivacyNext
  <2>2. UNCHANGED <<base, rollup, where, returning, reserve>>
    <3>1. CASE \E p \in Sponsors : MakePublic(o, p, S)
      BY <3>1 DEF MakePublic
    <3>2. CASE MakeWalletLedgerPrivate(o, S)
      BY <3>2 DEF MakeWalletLedgerPrivate
    <3>3. CASE \E p \in Sponsors, g \in Programs : MakePdaLedgerPrivate(o, p, g, S)
      BY <3>3 DEF MakePdaLedgerPrivate
    <3>4. CASE \E g, c \in Programs : AddPdaCaller(o, g, c, S)
      BY <3>4 DEF AddPdaCaller
    <3> QED BY <2>1, <3>1, <3>2, <3>3, <3>4
  <2> QED BY <1>11, <2>2
<1>17. CASE SessionNext
  BY <1>11, <1>17 DEF SessionNext, custodyVars
<1>18. CASE UNCHANGED vars
  BY <1>11, <1>18 DEF vars, custodyVars
<1> QED BY <1>12, <1>13, <1>14, <1>15, <1>16, <1>17, <1>18 DEF Next

(* The vault starts where the abstract vault starts.                       *)
LEMMA KeptInit == Init => Promise!Init
<1> SUFFICES ASSUME Init
             PROVE  Promise!Init
  OBVIOUS
<1>1. \A o \in Owners, m \in Mints : Balance(Live(o), m) = 0
  BY NoLedgerGood DEF Init, Live
<1>2. ASSUME NEW m \in Mints
      PROVE  Spendable(m) = 0
  <2>1. reserve[m] = 0
    BY DEF Init
  <2>2. Floor \in Nat
    BY VaultAssumption
  <2> QED BY <2>1, <2>2 DEF Spendable
<1> QED BY <1>1, <1>2 DEF Promise!Init, Claims, Promise!Owners, Owners

(* The vault implements VaultClaims: whatever the order of deposits,       *)
(* payments on any chain, delegations, commits and closes, each owner's    *)
(* claims and the reserves move only as the abstract vault allows.         *)
THEOREM Implementation == NoFees => (Spec => KeepsPromise)
<1> SUFFICES ASSUME NoFees
             PROVE  Spec => KeepsPromise
  OBVIOUS
<1>1. Init => Copies /\ MoneyTypes /\ Promise!Init
  BY CopiesInit, TypesInit, KeptInit
<1>2. Copies /\ MoneyTypes /\ [Next]_vars => (Copies /\ MoneyTypes)' /\ PromiseKept
  BY CopiesStep, MoneyStep, KeptStep
<1> QED BY <1>1, <1>2, PTL DEF Spec, KeepsPromise, Promise!Spec, PromiseKept

----------------------------------------------------------------------------
(* The abstract vault's theorem, carried over to the vault.                *)
Abs == INSTANCE VaultClaimsProofs WITH
           claims <- Claims, reserve <- [m \in Mints |-> Spendable(m)]

(* The owners are finitely many.                                           *)
LEMMA FiniteOwners == Abs!Finite
<1>1. Abs!Owners = Owners
  BY DEF Abs!Owners, Owners
<1>2. IsFiniteSet(Owners)
  BY AddressesAssumption
<1> QED BY <1>1, <1>2, LedgerTableAssumption
     DEF Abs!Finite, IsFiniteSet, Abs!IsFiniteSet

(* The two instances of the abstract vault say the same thing.             *)
LEMMA SameInit == Promise!Init => Abs!Init
BY DEF Promise!Init, Abs!Init, Promise!Owners, Abs!Owners

(* Their steps are the same steps.                                         *)
LEMMA SameNext == [Promise!Next]_(Promise!vars) => [Abs!Next]_(Abs!vars)
BY DEF Promise!Next, Abs!Next, Promise!vars, Abs!vars, Promise!Owners, Abs!Owners,
   Promise!Amount, Abs!Amount,
   Promise!Deposit, Abs!Deposit, Promise!Withdraw, Abs!Withdraw, Promise!Move, Abs!Move,
   Promise!Redeem, Abs!Redeem, Promise!Receive, Abs!Receive

(* Their solvency is the same solvency.                                    *)
LEMMA SameSolvent == Abs!Solvent => Solvent
<1>1. ASSUME NEW c, NEW m
      PROVE  Abs!Total(c, m) = Promise!Total(c, m)
  <2>1. Abs!Units(c, m) = Promise!Units(c, m)
    BY DEF Abs!Units, Promise!Units, Abs!Owners, Promise!Owners
  <2>2. \A S : Abs!Cardinality(S) = Promise!Cardinality(S)
    BY DEF Abs!Cardinality, Promise!Cardinality, Abs!IsFiniteSet, Promise!IsFiniteSet
  <2> QED BY <2>1, <2>2 DEF Abs!Total, Promise!Total
<1> QED BY <1>1 DEF Solvent, Abs!Solvent, Promise!Solvent

(* Whatever keeps the abstract vault's promise is solvent.                 *)
LEMMA PromiseIsSolvent == KeepsPromise => []Solvent
<1>1. Abs!Spec => [](Abs!TypeOK /\ Abs!Solvent)
  BY FiniteOwners, Abs!AbstractSolvency
<1>2. KeepsPromise => Abs!Spec
  BY SameInit, SameNext, PTL DEF Abs!Spec, KeepsPromise, Promise!Spec
<1> QED BY <1>1, <1>2, SameSolvent, PTL

(* Solvency: where no mint keeps a fee, what the vault can pay out of each *)
(* mint always covers every live claim on it, on all chains together, for  *)
(* any number of owners, rollups, slots and any order of instructions.     *)
THEOREM Solvency == NoFees => (Spec => []Solvent)
BY Implementation, PromiseIsSolvent, PTL

----------------------------------------------------------------------------
(* close_ledger's sweep.  A sweep unfolds one entry at a time.             *)
SweptTo(t, list, held, named, k, run) ==
    run = [i \in 0..k |-> IF i = 0 THEN Unswept ELSE Step(t[i], list, run[i - 1], held, named)]

(* A sweep unfolded as far as `k` unfolds one entry further.               *)
LEMMA SweptExtends ==
    ASSUME NEW t, NEW list, NEW held, NEW named, NEW k \in Nat, NEW run,
           SweptTo(t, list, held, named, k, run)
    PROVE  \E more : SweptTo(t, list, held, named, k + 1, more)
<1> DEFINE Next1(s, i) == Step(t[i], list, s, held, named)
           more == [i \in 0..(k + 1) |-> IF i <= k THEN run[i] ELSE Next1(run[k], k + 1)]
<1>1. \A i \in 0..k : run[i] = IF i = 0 THEN Unswept ELSE Next1(run[i - 1], i)
  BY DEF SweptTo
<1> HIDE DEF Next1
<1>2. ASSUME NEW i \in 0..(k + 1)
      PROVE  more[i] = IF i = 0 THEN Unswept ELSE Next1(more[i - 1], i)
  <2>1. CASE i = 0
    BY <1>1, <2>1
  <2>2. CASE i \in 1..k
    <3>1. more[i] = run[i] /\ more[i - 1] = run[i - 1] /\ i # 0
      BY <2>2
    <3> QED BY <1>1, <2>2, <3>1
  <2>3. CASE i = k + 1
    <3>1. more[i] = Next1(run[k], i) /\ i # 0 /\ i - 1 = k /\ more[i - 1] = run[k]
      BY <2>3
    <3> QED BY <3>1
  <2> QED BY <2>1, <2>2, <2>3
<1>3. more = [i \in 0..(k + 1) |-> more[i]]
  OBVIOUS
<1> HIDE DEF more
<1>4. SweptTo(t, list, held, named, k + 1, more)
  BY <1>2, <1>3 DEF SweptTo, Next1
<1> QED BY <1>4

(* The sweep starts at the first account and takes the entries in turn.    *)
LEMMA SweptUnfold ==
    ASSUME NEW t, Len(t) \in Nat, NEW list, NEW held, NEW named
    PROVE  /\ Swept(t, list, held, named)[0] = Unswept
           /\ \A i \in 1..Len(t) :
                 Swept(t, list, held, named)[i]
                    = Step(t[i], list, Swept(t, list, held, named)[i - 1], held, named)
<1> DEFINE n == Len(t)
           s == Swept(t, list, held, named)
           T == {k \in 0..n : \E run : SweptTo(t, list, held, named, k, run)}
<1>0. n \in Nat
  OBVIOUS
<1>1. 0 \in T
  <2>1. SweptTo(t, list, held, named, 0, [i \in 0..0 |-> Unswept])
    BY DEF SweptTo
  <2> QED BY <2>1
<1>2. \A i \in 0..n : i \in T /\ i < n => i + 1 \in T
  BY SweptExtends
<1>3. n \in T
  <2> HIDE DEF n, T
  <2>1. 0..n \subseteq T
    BY <1>0, <1>1, <1>2, UpTo
  <2> QED BY <1>0, <2>1
<1>4. s = CHOOSE run : SweptTo(t, list, held, named, n, run)
  BY DEF Swept, SweptTo
<1>5. SweptTo(t, list, held, named, n, s)
  BY <1>3, <1>4
<1>6. ASSUME NEW run, SweptTo(t, list, held, named, n, run), NEW i \in 0..n
      PROVE  run[i] = IF i = 0 THEN Unswept ELSE Step(t[i], list, run[i - 1], held, named)
  BY <1>6 DEF SweptTo
<1>7. 0 \in 0..n /\ \A i \in 1..n : i \in 0..n /\ i # 0
  OBVIOUS
<1> HIDE DEF n, s
<1>8. \A i \in 0..n : s[i] = IF i = 0 THEN Unswept ELSE Step(t[i], list, s[i - 1], held, named)
  BY <1>5, <1>6
<1> QED BY <1>7, <1>8 DEF n, s

(* So does the list wanted.                                                *)
WantedTo(t, k, run) ==
    run = [i \in 0..k |-> IF i = 0 THEN <<>> ELSE run[i - 1] \o Needed(t[i])]

(* A list unfolded as far as `k` unfolds one entry further.                *)
LEMMA WantedExtends ==
    ASSUME NEW t, NEW k \in Nat, NEW run, WantedTo(t, k, run)
    PROVE  \E more : WantedTo(t, k + 1, more)
<1> DEFINE Next1(w, i) == w \o Needed(t[i])
           more == [i \in 0..(k + 1) |-> IF i <= k THEN run[i] ELSE Next1(run[k], k + 1)]
<1>1. \A i \in 0..k : run[i] = IF i = 0 THEN <<>> ELSE Next1(run[i - 1], i)
  BY DEF WantedTo
<1> HIDE DEF Next1
<1>2. ASSUME NEW i \in 0..(k + 1)
      PROVE  more[i] = IF i = 0 THEN <<>> ELSE Next1(more[i - 1], i)
  <2>1. CASE i = 0
    BY <1>1, <2>1
  <2>2. CASE i \in 1..k
    <3>1. more[i] = run[i] /\ more[i - 1] = run[i - 1] /\ i # 0
      BY <2>2
    <3> QED BY <1>1, <2>2, <3>1
  <2>3. CASE i = k + 1
    <3>1. more[i] = Next1(run[k], i) /\ i # 0 /\ i - 1 = k /\ more[i - 1] = run[k]
      BY <2>3
    <3> QED BY <3>1
  <2> QED BY <2>1, <2>2, <2>3
<1>3. more = [i \in 0..(k + 1) |-> more[i]]
  OBVIOUS
<1> HIDE DEF more
<1>4. WantedTo(t, k + 1, more)
  BY <1>2, <1>3 DEF WantedTo, Next1
<1> QED BY <1>4

(* The list wanted grows by what each entry needs.                         *)
LEMMA NeededUnfold ==
    ASSUME NEW t, Len(t) \in Nat
    PROVE  /\ NeededTo(t)[0] = <<>>
           /\ \A i \in 1..Len(t) : NeededTo(t)[i] = NeededTo(t)[i - 1] \o Needed(t[i])
<1> DEFINE n == Len(t)
           s == NeededTo(t)
           T == {k \in 0..n : \E run : WantedTo(t, k, run)}
<1>0. n \in Nat
  OBVIOUS
<1>1. 0 \in T
  <2>1. WantedTo(t, 0, [i \in 0..0 |-> <<>>])
    BY DEF WantedTo
  <2> QED BY <2>1
<1>2. \A i \in 0..n : i \in T /\ i < n => i + 1 \in T
  BY WantedExtends
<1>3. n \in T
  <2> HIDE DEF n, T
  <2>1. 0..n \subseteq T
    BY <1>0, <1>1, <1>2, UpTo
  <2> QED BY <1>0, <2>1
<1>4. s = CHOOSE run : WantedTo(t, n, run)
  BY DEF NeededTo, WantedTo
<1>5. WantedTo(t, n, s)
  BY <1>3, <1>4
<1>6. ASSUME NEW run, WantedTo(t, n, run), NEW i \in 0..n
      PROVE  run[i] = IF i = 0 THEN <<>> ELSE run[i - 1] \o Needed(t[i])
  BY <1>6 DEF WantedTo
<1>7. 0 \in 0..n /\ \A i \in 1..n : i \in 0..n /\ i # 0
  OBVIOUS
<1> HIDE DEF n, s
<1>8. \A i \in 0..n : s[i] = IF i = 0 THEN <<>> ELSE s[i - 1] \o Needed(t[i])
  BY <1>5, <1>6
<1> QED BY <1>7, <1>8 DEF n, s

(* What an entry that is paid out needs, and what a free one does.         *)
LEMMA NeededTyped ==
    ASSUME NEW e \in Entry
    PROVE  /\ e.amount = 0 => Needed(e) = <<>>
           /\ ~Skipped(e) =>
                 /\ Needed(e) \in Seq(Accounts) /\ Len(Needed(e)) = Width(e)
                 /\ Needed(e)[1] = [kind |-> "reserve", mint |-> e.mint]
                 /\ Needed(e)[2] = [kind |-> "own", mint |-> e.mint]
                 /\ e.mint \in Checked => Needed(e)[3] = [kind |-> "mint", mint |-> e.mint]
<1>1. e.amount = 0 => Needed(e) = <<>>
  BY DEF Needed
<1>2. ASSUME ~Skipped(e)
      PROVE  /\ Needed(e) \in Seq(Accounts) /\ Len(Needed(e)) = Width(e)
             /\ Needed(e)[1] = [kind |-> "reserve", mint |-> e.mint]
             /\ Needed(e)[2] = [kind |-> "own", mint |-> e.mint]
             /\ e.mint \in Checked => Needed(e)[3] = [kind |-> "mint", mint |-> e.mint]
  <2> DEFINE r == [kind |-> "reserve", mint |-> e.mint]
             w == [kind |-> "own", mint |-> e.mint]
             c == [kind |-> "mint", mint |-> e.mint]
  <2>1. e.mint \in Mints \ {Sol} /\ e.amount # 0
    BY <1>2 DEF Skipped, Entry
  <2>2. r \in Accounts /\ w \in Accounts /\ (e.mint \in Checked => c \in Accounts)
    BY <2>1 DEF Accounts
  <2>3. Needed(e) = IF e.mint \in Checked THEN <<r, w, c>> ELSE <<r, w>>
    BY <2>1 DEF Needed
  <2> HIDE DEF r, w, c
  <2>4. CASE e.mint \in Checked
    <3>1. Needed(e) = <<r, w, c>> /\ Width(e) = 3
      BY <2>3, <2>4 DEF Width
    <3> QED BY <2>2, <2>4, <3>1 DEF r, w, c
  <2>5. CASE e.mint \notin Checked
    <3>1. Needed(e) = <<r, w>> /\ Width(e) = 2
      BY <2>3, <2>5 DEF Width
    <3> QED BY <2>2, <2>5, <3>1 DEF r, w
  <2> QED BY <2>4, <2>5
<1> QED BY <1>1, <1>2

(* A list begins with two lists end to end if it begins with the first and *)
(* has the second after it.                                                *)
LEMMA BeginsFurther ==
    ASSUME NEW w \in Seq(Accounts), NEW v \in Seq(Accounts), NEW list \in Seq(Accounts)
    PROVE  Begins(w \o v, list) <=>
              /\ Begins(w, list)
              /\ Len(w) + Len(v) <= Len(list)
              /\ \A k \in 1..Len(v) : list[Len(w) + k] = v[k]
<1> DEFINE wv == w \o v
<1>1. /\ Len(wv) = Len(w) + Len(v)
      /\ \A i \in 1..(Len(w) + Len(v)) : wv[i] = IF i <= Len(w) THEN w[i] ELSE v[i - Len(w)]
  BY ConcatProperties
<1> PICK p \in Nat, q \in Nat, l \in Nat : p = Len(w) /\ q = Len(v) /\ l = Len(list)
  BY LenProperties
<1> HIDE DEF wv
<1>2. ASSUME Begins(wv, list)
      PROVE  /\ Begins(w, list) /\ p + q <= l
             /\ \A k \in 1..q : list[p + k] = v[k]
  <2>1. p + q <= l /\ \A k \in 1..(p + q) : list[k] = wv[k]
    BY <1>1, <1>2 DEF Begins
  <2>2. \A k \in 1..p : list[k] = w[k]
    BY <1>1, <2>1
  <2>3. ASSUME NEW k \in 1..q
        PROVE  list[p + k] = v[k]
    <3>1. p + k \in 1..(p + q) /\ ~(p + k <= p) /\ (p + k) - p = k
      OBVIOUS
    <3> QED BY <1>1, <2>1, <3>1
  <2> QED BY <2>1, <2>2, <2>3 DEF Begins
<1>3. ASSUME Begins(w, list), p + q <= l, \A k \in 1..q : list[p + k] = v[k]
      PROVE  Begins(wv, list)
  <2>1. ASSUME NEW k \in 1..(p + q)
        PROVE  list[k] = wv[k]
    <3>1. CASE k <= p
      BY <1>1, <1>3, <3>1 DEF Begins
    <3>2. CASE ~(k <= p)
      <4>1. k - p \in 1..q /\ p + (k - p) = k
        BY <3>2
      <4> QED BY <1>1, <1>3, <3>2, <4>1
    <3> QED BY <3>1, <3>2
  <2> QED BY <1>1, <1>3, <2>1 DEF Begins
<1> QED BY <1>2, <1>3 DEF wv

(* An entry is admitted if its accounts come next, and what paying it      *)
(* takes is there.                                                         *)
LEMMA AdmitsNext ==
    ASSUME NEW e \in Entry, ~Skipped(e), NEW w \in Seq(Accounts), NEW list \in Seq(Accounts),
           NEW s, s.at = Len(w) + 1, Begins(w, list), NEW held, NEW named
    PROVE  Admits(e, list, s, held, named) <=>
              Begins(w \o Needed(e), list) /\ Covered(e, held, named)
<1> DEFINE v == Needed(e)
           r == [kind |-> "reserve", mint |-> e.mint]
           o == [kind |-> "own", mint |-> e.mint]
           c == [kind |-> "mint", mint |-> e.mint]
           Next3 == /\ Account(list, s, 0) = r /\ Account(list, s, 1) = o
                    /\ e.mint \in Checked => Account(list, s, 2) = c
<1>1. /\ v \in Seq(Accounts) /\ Len(v) = Width(e) /\ v[1] = r /\ v[2] = o
      /\ e.mint \in Checked => v[3] = c
  BY NeededTyped
<1>2. Begins(w \o v, list) <=>
         Len(w) + Len(v) <= Len(list) /\ \A k \in 1..Len(v) : list[Len(w) + k] = v[k]
  BY <1>1, BeginsFurther
<1>3. Stray # r /\ Stray # o /\ Stray # c
  BY DEF Stray
<1> PICK p \in Nat, l \in Nat : p = Len(w) /\ l = Len(list)
  BY LenProperties
<1> HIDE DEF v, r, o, c
<1>4. ASSUME NEW k \in {0, 1, 2}
      PROVE  Account(list, s, k) = IF p + (k + 1) <= l THEN list[p + (k + 1)] ELSE Stray
  <2>1. s.at + k = p + (k + 1)
    OBVIOUS
  <2> QED BY <2>1 DEF Account
<1>5. /\ Account(list, s, 0) = IF p + 1 <= l THEN list[p + 1] ELSE Stray
      /\ Account(list, s, 1) = IF p + 2 <= l THEN list[p + 2] ELSE Stray
      /\ Account(list, s, 2) = IF p + 3 <= l THEN list[p + 3] ELSE Stray
  BY <1>4
<1>6. Next3 <=> p + Len(v) <= l /\ \A k \in 1..Len(v) : list[p + k] = v[k]
  <2>1. CASE e.mint \in Checked
    <3>1. Len(v) = 3 /\ v[3] = c
      BY <1>1, <2>1 DEF Width
    <3>2. (\A k \in 1..3 : list[p + k] = v[k]) <=>
             list[p + 1] = r /\ list[p + 2] = o /\ list[p + 3] = c
      <4>1. 1..3 = {1, 2, 3}
        OBVIOUS
      <4> QED BY <1>1, <3>1, <4>1
    <3>3. Next3 <=> p + 3 <= l /\ list[p + 1] = r /\ list[p + 2] = o /\ list[p + 3] = c
      BY <1>3, <1>5, <2>1
    <3> QED BY <3>1, <3>2, <3>3
  <2>2. CASE e.mint \notin Checked
    <3>1. Len(v) = 2
      BY <1>1, <2>2 DEF Width
    <3>2. (\A k \in 1..2 : list[p + k] = v[k]) <=> list[p + 1] = r /\ list[p + 2] = o
      <4>1. 1..2 = {1, 2}
        OBVIOUS
      <4> QED BY <1>1, <4>1
    <3>3. Next3 <=> p + 2 <= l /\ list[p + 1] = r /\ list[p + 2] = o
      BY <1>3, <1>5, <2>2
    <3> QED BY <3>1, <3>2, <3>3
  <2> QED BY <2>1, <2>2
<1>7. Admits(e, list, s, held, named) <=> Next3 /\ Covered(e, held, named)
  BY DEF Admits, Covered, r, o, c
<1> HIDE DEF Next3
<1> QED BY <1>2, <1>6, <1>7 DEF v

(* One entry of the sweep.                                                 *)
SweepState == [at : Nat, ok : BOOLEAN, paid : [Mints -> Nat]]

LEMMA StepTakes ==
    ASSUME NEW s \in SweepState, NEW e \in Entry, NEW list, NEW held, NEW named
    PROVE  LET u == Step(e, list, s, held, named)
           IN  /\ u \in SweepState
               /\ ~s.ok \/ Skipped(e) => u = s
               /\ s.ok /\ ~Skipped(e) =>
                     /\ u.ok <=> Admits(e, list, s, held, named)
                     /\ u.ok => /\ u.at = s.at + Width(e)
                                /\ u.paid[e.mint] = s.paid[e.mint] + e.amount
                                /\ \A m \in Mints \ {e.mint} : u.paid[m] = s.paid[m]
<1> DEFINE u == Step(e, list, s, held, named)
           p == [s.paid EXCEPT ![e.mint] = @ + e.amount]
<1>1. /\ s.at \in Nat /\ s.ok \in BOOLEAN /\ s.paid \in [Mints -> Nat]
      /\ s = [at |-> s.at, ok |-> s.ok, paid |-> s.paid]
      /\ e.mint \in Mints /\ e.amount \in Nat /\ Width(e) \in Nat
  BY LedgerTableAssumption DEF SweepState, Entry, Amount, Width
<1>2. CASE ~s.ok \/ Skipped(e)
  BY <1>2 DEF Step
<1>3. CASE s.ok /\ ~Skipped(e) /\ ~Admits(e, list, s, held, named)
  <2>1. u = [at |-> s.at, ok |-> FALSE, paid |-> s.paid]
    BY <1>1, <1>3 DEF Step
  <2> HIDE DEF u
  <2>2. u \in SweepState /\ ~u.ok
    BY <1>1, <2>1 DEF SweepState
  <2> QED BY <1>3, <2>2 DEF u
<1>4. CASE s.ok /\ ~Skipped(e) /\ Admits(e, list, s, held, named)
  <2>1. u = [at |-> s.at + Width(e), ok |-> s.ok, paid |-> p]
    BY <1>1, <1>4 DEF Step
  <2>2. /\ p \in [Mints -> Nat] /\ p[e.mint] = s.paid[e.mint] + e.amount
        /\ \A m \in Mints \ {e.mint} : p[m] = s.paid[m]
    BY <1>1
  <2> HIDE DEF u, p
  <2>3. u \in SweepState /\ u.ok /\ u.at = s.at + Width(e) /\ u.paid = p
    BY <1>1, <1>4, <2>1, <2>2 DEF SweepState
  <2> QED BY <1>4, <2>2, <2>3 DEF u
<1> QED BY <1>2, <1>3, <1>4

(* A table with a mint in one slot and nothing in a free one.              *)
TableInOrder(t) ==
    /\ t \in Seq(Entry)
    /\ \A i, j \in 1..Len(t) : t[i].mint = t[j].mint /\ t[i].mint # Sol => i = j
    /\ \A i \in 1..Len(t) : t[i].mint = Sol => t[i].amount = 0

(* After `i` entries: the sweep has gone through if the list begins with   *)
(* what they need and it was all there, and it then stands right after     *)
(* that and has paid each mint what its entry held.                        *)
PaidSoFar(t, s, i) ==
    \A m \in Mints \ {Sol} :
        /\ \A j \in 1..i : t[j].mint = m => s.paid[m] = t[j].amount
        /\ (\A j \in 1..i : t[j].mint # m) => s.paid[m] = 0

SweepHolds(t, list, held, named, i) ==
    LET s == Swept(t, list, held, named)[i]
        w == NeededTo(t)[i]
    IN  /\ s \in SweepState /\ w \in Seq(Accounts)
        /\ s.ok <=> /\ Begins(w, list)
                    /\ \A j \in 1..i : t[j].amount > 0 => Covered(t[j], held, named)
        /\ s.ok => s.at = Len(w) + 1 /\ PaidSoFar(t, s, i)

(* It holds before the first entry ...                                     *)
LEMMA SweepHoldsFirst ==
    ASSUME NEW t, TableInOrder(t), NEW list \in Seq(Accounts), NEW held, NEW named
    PROVE  SweepHolds(t, list, held, named, 0)
<1>1. Len(t) \in Nat
  BY LenProperties DEF TableInOrder
<1>2. Swept(t, list, held, named)[0] = Unswept /\ NeededTo(t)[0] = <<>>
  <2>1. Swept(t, list, held, named)[0] = Unswept
    BY <1>1, SweptUnfold
  <2>2. NeededTo(t)[0] = <<>>
    BY <1>1, NeededUnfold
  <2> QED BY <2>1, <2>2
<1>3. Unswept \in SweepState /\ Unswept.ok = TRUE /\ Unswept.at = 1
      /\ \A m \in Mints : Unswept.paid[m] = 0
  BY DEF Unswept, SweepState
<1>4. <<>> \in Seq(Accounts) /\ Len(<<>>) = 0
  BY EmptySeq
<1>5. Begins(<<>>, list)
  <2>1. Len(list) \in Nat
    BY LenProperties
  <2> QED BY <1>4, <2>1 DEF Begins
<1>6. 1..0 = {}
  OBVIOUS
<1>7. PaidSoFar(t, Unswept, 0)
  BY <1>3, <1>6 DEF PaidSoFar
<1> QED BY <1>2, <1>3, <1>4, <1>5, <1>6, <1>7 DEF SweepHolds

(* ... and each entry keeps it.                                            *)
LEMMA SweepHoldsNext ==
    ASSUME NEW t, TableInOrder(t), NEW list \in Seq(Accounts), NEW held, NEW named,
           NEW i \in 1..Len(t), SweepHolds(t, list, held, named, i - 1)
    PROVE  SweepHolds(t, list, held, named, i)
<1> DEFINE s == Swept(t, list, held, named)[i - 1]
           u == Swept(t, list, held, named)[i]
           w == NeededTo(t)[i - 1]
           x == NeededTo(t)[i]
           e == t[i]
           AllCovered(k) == \A j \in 1..k : t[j].amount > 0 => Covered(t[j], held, named)
<1>1. /\ Len(t) \in Nat /\ e \in Entry /\ e.mint \in Mints /\ e.amount \in Nat
      /\ \A j \in 1..Len(t) : t[j] \in Entry
  <2>1. t \in Seq(Entry) /\ Len(t) \in Nat
    BY LenProperties DEF TableInOrder
  <2>2. \A j \in 1..Len(t) : t[j] \in Entry
    BY <2>1, ElementOfSeq
  <2>3. e \in Entry
    BY <2>2
  <2> HIDE DEF e
  <2>4. e.mint \in Mints /\ e.amount \in Nat
    BY <2>3, LedgerTableAssumption DEF Entry, Amount
  <2> QED BY <2>1, <2>2, <2>3, <2>4
<1>2. u = Step(e, list, s, held, named) /\ x = w \o Needed(e)
  <2>1. u = Step(e, list, s, held, named)
    BY <1>1, SweptUnfold
  <2>2. x = w \o Needed(e)
    BY <1>1, NeededUnfold
  <2> QED BY <2>1, <2>2
<1>3. /\ s \in SweepState /\ w \in Seq(Accounts)
      /\ s.ok <=> Begins(w, list) /\ AllCovered(i - 1)
      /\ s.ok => s.at = Len(w) + 1 /\ PaidSoFar(t, s, i - 1)
  BY DEF SweepHolds
<1>4. /\ i - 1 \in Nat /\ i \notin 1..(i - 1)
      /\ 1..i = (1..(i - 1)) \cup {i}
  BY <1>1
<1>5. AllCovered(i) <=> AllCovered(i - 1) /\ (e.amount > 0 => Covered(e, held, named))
  BY <1>4
<1>6. \A j \in 1..(i - 1) : j \in 1..Len(t) /\ j # i
  BY <1>1
<1>7. e.mint # Sol => \A j \in 1..(i - 1) : t[j].mint # e.mint
  BY <1>6 DEF TableInOrder
<1> HIDE DEF s, u, w, x, e, AllCovered
<1> SUFFICES /\ u \in SweepState /\ x \in Seq(Accounts)
             /\ u.ok <=> Begins(x, list) /\ AllCovered(i)
             /\ u.ok => u.at = Len(x) + 1 /\ PaidSoFar(t, u, i)
  BY DEF SweepHolds, s, u, w, x, e, AllCovered
<1>8. CASE Skipped(e)
  <2>1. e.amount = 0
    BY <1>8 DEF Skipped, TableInOrder, e
  <2>2. u = s /\ x = w
    <3>1. Needed(e) = <<>>
      BY <1>1, <2>1, NeededTyped
    <3>2. x = w
      BY <1>2, <1>3, <3>1, ConcatEmptySeq
    <3> QED BY <1>1, <1>2, <1>3, <1>8, <3>2, StepTakes
  <2>3. AllCovered(i) <=> AllCovered(i - 1)
    BY <1>5, <2>1
  <2>4. ASSUME PaidSoFar(t, s, i - 1), NEW m \in Mints \ {Sol}
        PROVE  /\ \A j \in 1..i : t[j].mint = m => s.paid[m] = t[j].amount
               /\ (\A j \in 1..i : t[j].mint # m) => s.paid[m] = 0
    <3>1. /\ \A j \in 1..(i - 1) : t[j].mint = m => s.paid[m] = t[j].amount
          /\ (\A j \in 1..(i - 1) : t[j].mint # m) => s.paid[m] = 0
      BY <2>4 DEF PaidSoFar
    <3>2. t[i].mint = m => s.paid[m] = t[i].amount
      BY <1>7, <2>1, <3>1 DEF e
    <3> QED BY <1>4, <3>1, <3>2
  <2>5. PaidSoFar(t, s, i - 1) => PaidSoFar(t, s, i)
    BY <2>4 DEF PaidSoFar
  <2> QED BY <1>3, <2>2, <2>3, <2>5
<1>9. CASE ~Skipped(e)
  <2>1. /\ e.amount > 0 /\ e.mint \in Mints \ {Sol}
        /\ Needed(e) \in Seq(Accounts) /\ Len(Needed(e)) = Width(e)
    <3>1. e.amount > 0 /\ e.mint \in Mints \ {Sol}
      BY <1>1, <1>9 DEF Skipped
    <3>2. Needed(e) \in Seq(Accounts) /\ Len(Needed(e)) = Width(e)
      BY <1>1, <1>9, NeededTyped
    <3> QED BY <3>1, <3>2
  <2>2. x \in Seq(Accounts) /\ Len(x) = Len(w) + Width(e)
    BY <1>2, <1>3, <2>1, ConcatProperties
  <2>3. Begins(x, list) => Begins(w, list)
    BY <1>2, <1>3, <2>1, BeginsFurther
  <2>4. CASE ~s.ok
    <3>1. u = s
      BY <1>1, <1>2, <1>3, <2>4, StepTakes
    <3> QED BY <1>3, <1>5, <2>2, <2>3, <2>4, <3>1
  <2>5. CASE s.ok
    <3>1. /\ u \in SweepState
          /\ u.ok <=> Admits(e, list, s, held, named)
          /\ u.ok => /\ u.at = s.at + Width(e)
                     /\ u.paid[e.mint] = s.paid[e.mint] + e.amount
                     /\ \A m \in Mints \ {e.mint} : u.paid[m] = s.paid[m]
      BY <1>1, <1>2, <1>3, <1>9, <2>5, StepTakes
    <3>2. Admits(e, list, s, held, named) <=> Begins(x, list) /\ Covered(e, held, named)
      BY <1>1, <1>2, <1>3, <1>9, <2>5, AdmitsNext
    <3>3. u.ok <=> Begins(x, list) /\ AllCovered(i)
      BY <1>3, <1>5, <2>1, <2>5, <3>1, <3>2
    <3>4. u.ok => u.at = Len(x) + 1
      <4>1. Len(w) \in Nat /\ Width(e) \in Nat
        BY <1>3, LenProperties DEF Width
      <4> QED BY <1>3, <2>2, <2>5, <3>1, <4>1
    <3>5. ASSUME u.ok, NEW m \in Mints \ {Sol}
          PROVE  /\ \A j \in 1..i : t[j].mint = m => u.paid[m] = t[j].amount
                 /\ (\A j \in 1..i : t[j].mint # m) => u.paid[m] = 0
      <4>1. /\ \A j \in 1..(i - 1) : t[j].mint = m => s.paid[m] = t[j].amount
            /\ (\A j \in 1..(i - 1) : t[j].mint # m) => s.paid[m] = 0
        BY <1>3, <2>5 DEF PaidSoFar
      <4>2. CASE m = e.mint
        <5>1. s.paid[m] = 0
          BY <1>7, <2>1, <4>1, <4>2
        <5>2. u.paid[m] = t[i].amount
          BY <1>1, <3>1, <3>5, <4>2, <5>1 DEF e
        <5> QED BY <1>4, <1>7, <2>1, <4>2, <5>2 DEF e
      <4>3. CASE m # e.mint
        <5>1. u.paid[m] = s.paid[m]
          BY <3>1, <3>5, <4>3
        <5> QED BY <1>4, <4>1, <4>3, <5>1 DEF e
      <4> QED BY <4>2, <4>3
    <3>6. u.ok => PaidSoFar(t, u, i)
      BY <3>5 DEF PaidSoFar
    <3> QED BY <2>2, <3>1, <3>3, <3>4, <3>6
  <2> QED BY <1>3, <2>4, <2>5 DEF SweepState
<1> QED BY <1>8, <1>9

(* What a ledger of these entries owes on a token.                         *)
LEMMA OwedBy ==
    ASSUME NEW t, TableInOrder(t), NEW m \in Mints \ {Sol}
    PROVE  /\ \A j \in 1..Len(t) : t[j].mint = m => Balance(LedgerFor(t), m) = t[j].amount
           /\ (\A j \in 1..Len(t) : t[j].mint # m) => Balance(LedgerFor(t), m) = 0
<1> DEFINE l == LedgerFor(t)
<1> PICK n \in Nat : n = Len(t)
  BY LenProperties DEF TableInOrder
<1>1. /\ l.capacity = n + 1
      /\ l.entries = [i \in 0..n |-> IF i = 0 THEN EmptyEntry ELSE t[i]]
  BY DEF LedgerFor
<1> HIDE DEF l
<1>2. /\ l.capacity > 0 /\ Slots(l) = 0..n /\ l.entries[0].mint = Sol
      /\ \A i \in 1..n : i \in 0..n /\ l.entries[i] = t[i]
  BY <1>1 DEF Slots, EmptyEntry
<1>3. SlotsOf(l, m) = {i \in 1..n : t[i].mint = m}
  BY <1>2 DEF SlotsOf
<1>4. ASSUME NEW j \in 1..n, t[j].mint = m
      PROVE  Balance(l, m) = t[j].amount
  <2>1. SlotsOf(l, m) = {j}
    BY <1>3, <1>4 DEF TableInOrder
  <2>2. First({j}) = j
    BY FirstIsLeast
  <2> QED BY <1>2, <2>1, <2>2 DEF Balance, Has, AmountAt, IndexOf
<1>5. ASSUME \A j \in 1..n : t[j].mint # m
      PROVE  Balance(l, m) = 0
  BY <1>3, <1>5 DEF Balance, Has
<1> QED BY <1>4, <1>5 DEF l

(* The sweep of a table in order, whatever list it is given.               *)
LEMMA SweepExact ==
    ASSUME NEW t, TableInOrder(t), NEW list \in Seq(Accounts), NEW held, NEW named
    PROVE  PaysExactly(t, list, held, named)
<1> DEFINE n == Len(t)
           T == {i \in 0..n : SweepHolds(t, list, held, named, i)}
           s == Swept(t, list, held, named)[n]
           v == Sweep(t, list, held, named)
<1>1. n \in Nat
  BY LenProperties DEF TableInOrder
<1>2. 0 \in T
  BY <1>1, SweepHoldsFirst
<1>3. \A i \in 0..n : i \in T /\ i < n => i + 1 \in T
  <2> SUFFICES ASSUME NEW i \in 0..n, i \in T, i < n
               PROVE  i + 1 \in T
    OBVIOUS
  <2>1. i + 1 \in 1..n /\ (i + 1) - 1 = i /\ i + 1 \in 0..n
    BY <1>1
  <2>2. SweepHolds(t, list, held, named, i + 1)
    BY <2>1, SweepHoldsNext
  <2> QED BY <2>1, <2>2
<1>4. SweepHolds(t, list, held, named, n)
  <2>1. n \in 0..n
    BY <1>1
  <2> HIDE DEF n, T
  <2>2. n \in T
    BY <1>1, <1>2, <1>3, <2>1, UpTo
  <2> QED BY <2>2 DEF T
<1>5. /\ s \in SweepState
      /\ s.ok <=> /\ Begins(Wanted(t), list)
                  /\ \A j \in 1..n : t[j].amount > 0 => Covered(t[j], held, named)
      /\ s.ok => PaidSoFar(t, s, n)
  BY <1>4 DEF SweepHolds, Wanted
<1>6. v.ok = s.ok /\ v.paid = s.paid
  <2>1. s = [at |-> s.at, ok |-> s.ok, paid |-> s.paid] /\ s.ok \in BOOLEAN
    BY <1>5 DEF SweepState
  <2>2. v = [s EXCEPT !.ok = @ /\ \A i \in 1..n : t[i].mint = Sol => t[i].amount = 0]
    BY DEF Sweep
  <2>3. \A i \in 1..n : t[i].mint = Sol => t[i].amount = 0
    BY DEF TableInOrder
  <2> HIDE DEF s, v, n
  <2>4. v = [at |-> s.at, ok |-> s.ok, paid |-> s.paid]
    BY <2>1, <2>2, <2>3
  <2> QED BY <2>4
<1>7. ASSUME s.ok, NEW m \in Mints \ {Sol}
      PROVE  s.paid[m] = Balance(LedgerFor(t), m)
  <2>1. /\ \A j \in 1..n : t[j].mint = m => s.paid[m] = t[j].amount
        /\ (\A j \in 1..n : t[j].mint # m) => s.paid[m] = 0
    BY <1>5, <1>7 DEF PaidSoFar
  <2> HIDE DEF s
  <2> QED BY <2>1, OwedBy
<1> HIDE DEF s, v, n
<1> QED BY <1>5, <1>6, <1>7 DEF PaysExactly, v, n

(* A ledger in good order has its table in order.                          *)
LEMMA GoodTable ==
    ASSUME NEW l, Good(l), l.capacity > 0
    PROVE  TableInOrder(TableOf(l))
<1> PICK n \in Nat \ {0} : n = l.capacity
  BY DEF Good
<1> DEFINE t == TableOf(l)
<1>1. InOrder(Payers, Deriving, n, l) /\ l \in LedgerOf(Payers, Deriving, n)
  BY DEF Good, InOrder
<1>2. l.entries \in [0..(n - 1) -> Entry]
  BY <1>1, Fields
<1>3. t = [i \in 1..(n - 1) |-> l.entries[i]] /\ n - 1 \in Nat
  BY DEF TableOf
<1> HIDE DEF t
<1>4. t \in Seq(Entry) /\ Len(t) = n - 1
  <2>1. \A i \in 1..(n - 1) : l.entries[i] \in Entry
    BY <1>2
  <2> QED BY <1>3, <2>1, IsASeq
<1>5. \A i \in 1..(n - 1) : t[i] = l.entries[i]
  BY <1>3
<1>6. /\ \A i, j \in 1..(n - 1) :
            l.entries[i].mint = l.entries[j].mint /\ l.entries[i].mint # Sol => i = j
      /\ \A i \in 1..(n - 1) : l.entries[i].mint = Sol => l.entries[i].amount = 0
  BY <1>1, Order
<1> QED BY <1>4, <1>5, <1>6 DEF TableInOrder, t

(* close_ledger.rs:64-111: whatever instructions led to a ledger, a close  *)
(* pays each of its balances once and in its own mint, given the accounts  *)
(* its entries need in their order, and otherwise fails.                   *)
THEOREM ClosesPayExactly == Spec => []SweepPaysExactly
<1>1. Copies => SweepPaysExactly
  <2> SUFFICES ASSUME Copies, NEW o \in Owners, Exists(o)
               PROVE  SweptExactly(TableOf(base[o]))
    BY DEF SweepPaysExactly
  <2>1. Good(base[o]) /\ base[o].capacity > 0
    BY DEF Copies, Sound, Exists, Good, InOrder
  <2>2. TableInOrder(TableOf(base[o]))
    BY <2>1, GoodTable
  <2>3. ASSUME NEW list \in Lists
        PROVE  list \in Seq(Accounts)
    BY <2>3, IsASeq DEF Lists
  <2> QED BY <2>2, <2>3, SweepExact DEF SweptExactly
<1> QED BY <1>1, CopiesInit, CopiesStep, PTL DEF Spec

=============================================================================
