---------------------------- MODULE TablesProofs ----------------------------
(***************************************************************************)
(* The vault's two tables.  What the operations on a ledger's slots do to  *)
(* a disciplined ledger: they keep it disciplined and change the balance   *)
(* of the one mint they name.  What the operations on an entry and on a    *)
(* store of sessions return, and what the handlers do to a store.          *)
(***************************************************************************)
EXTENDS LedgerTable, Sessions, WellFoundedInduction, TLAPS

(* The first index of a nonempty set of indices is in it and least.        *)
LEMMA FirstIsLeast ==
    ASSUME NEW S \in SUBSET Nat, S # {}
    PROVE  First(S) \in S /\ \A j \in S : First(S) <= j
<1>1. \E x \in S : \A y \in S : ~(<<y, x>> \in OpToRel(<, Nat))
  BY NatLessThanWellFounded, WFMin
<1>2. PICK x \in S : \A y \in S : ~(<<y, x>> \in OpToRel(<, Nat))
  BY <1>1
<1>3. \A y \in S : x <= y
  <2>1. \A y \in S : y < x => <<y, x>> \in OpToRel(<, Nat)
    BY Zenon DEF OpToRel
  <2>2. \A y \in S : ~(y < x)
    BY <1>2, <2>1, Zenon
  <2> QED BY <2>2
<1> QED BY <1>3 DEF First

(* Induction from 0 up to `n`.                                             *)
LEMMA UpTo ==
    ASSUME NEW n \in Nat, NEW T, 0 \in T,
           \A i \in 0..n : i \in T /\ i < n => i + 1 \in T
    PROVE  0..n \subseteq T
<1> SUFFICES ASSUME NEW j \in 0..n, j \notin T
             PROVE  FALSE
  OBVIOUS
<1> DEFINE U == {i \in 0..n : i \notin T}
<1>1. PICK x \in U : \A y \in U : x <= y
  <2>1. U \in SUBSET Nat /\ U # {}
    OBVIOUS
  <2> HIDE DEF U
  <2> QED BY <2>1, FirstIsLeast
<1>2. x # 0 /\ x - 1 \in 0..n /\ x - 1 < n /\ x - 1 \notin U
  BY <1>1
<1>3. x - 1 \in T /\ (x - 1) + 1 = x
  BY <1>2
<1> QED BY <1>1, <1>2, <1>3

----------------------------------------------------------------------------
(* A ledger of n slots in good order.                                      *)
InOrder(R, P, n, l) == l \in LedgerOf(R, P, n) /\ Disciplined(l)

(* A table is its header and its entries.                                  *)
LEMMA Fields ==
    ASSUME NEW R, NEW P, NEW n \in Nat \ {0}, NEW l \in LedgerOf(R, P, n)
    PROVE  /\ l.rentPayer \in R /\ l.authorized \in P /\ l.capacity = n
           /\ Slots(l) = 0..(n - 1) /\ 0 \in Slots(l)
           /\ l.entries \in [0..(n - 1) -> Entry]
           /\ l = [rentPayer |-> l.rentPayer, authorized |-> l.authorized,
                   capacity |-> n, entries |-> l.entries]
BY DEF LedgerOf, Slots

(* Replacing one entry changes nothing else.                               *)
LEMMA OneEntry ==
    ASSUME NEW R, NEW P, NEW n \in Nat \ {0}, NEW l \in LedgerOf(R, P, n),
           NEW i \in 0..(n - 1), NEW e \in Entry, NEW k,
           k = [l EXCEPT !.entries = [l.entries EXCEPT ![i] = e]]
    PROVE  /\ k \in LedgerOf(R, P, n)
           /\ k.capacity = n /\ k.rentPayer = l.rentPayer /\ k.authorized = l.authorized
           /\ k.entries[i] = e
           /\ \A j \in (0..(n - 1)) \ {i} : k.entries[j] = l.entries[j]
BY DEF LedgerOf

(* A mint has at most one slot, and index_of finds it.                     *)
LEMMA OneSlot ==
    ASSUME NEW R, NEW P, NEW n \in Nat \ {0}, NEW l, InOrder(R, P, n, l), NEW m \in Mints,
           Has(l, m)
    PROVE  /\ SlotsOf(l, m) = {IndexOf(l, m)}
           /\ IndexOf(l, m) \in 0..(n - 1)
           /\ l.entries[IndexOf(l, m)].mint = m
           /\ IndexOf(l, m) = 0 <=> m = Sol
           /\ AmountAt(l, m) \in Amount
<1>1. l \in LedgerOf(R, P, n) /\ Disciplined(l)
  BY DEF InOrder
<1>2. /\ l.capacity = n /\ Slots(l) = 0..(n - 1) /\ 0 \in Slots(l)
      /\ l.entries \in [0..(n - 1) -> Entry]
  BY <1>1, Fields
<1>3. l.entries[0].mint = Sol
  BY <1>1, <1>2 DEF Disciplined
<1>4. SlotsOf(l, m) \in SUBSET Nat /\ SlotsOf(l, m) # {} /\ SlotsOf(l, m) \subseteq 0..(n - 1)
  BY <1>2 DEF SlotsOf, Has
<1>5. IndexOf(l, m) \in SlotsOf(l, m)
  BY <1>4, FirstIsLeast DEF IndexOf
<1>6. \A i, j \in SlotsOf(l, m) : i = j
  <2>1. CASE m = Sol
    BY <2>1 DEF SlotsOf
  <2>2. CASE m # Sol
    BY <1>1, <1>2, <1>3, <2>2 DEF SlotsOf, Disciplined
  <2> QED BY <2>1, <2>2
<1>7. SlotsOf(l, m) = {IndexOf(l, m)}
  BY <1>5, <1>6
<1>8. l.entries[IndexOf(l, m)].mint = m
  BY <1>3, <1>5 DEF SlotsOf
<1>9. IndexOf(l, m) = 0 <=> m = Sol
  BY <1>3, <1>5 DEF SlotsOf
<1>10. AmountAt(l, m) \in Amount
  BY <1>2, <1>4, <1>5 DEF AmountAt, Entry
<1> QED BY <1>4, <1>5, <1>7, <1>8, <1>9, <1>10

(* The value of a ledger in good order: the one slot's amount, or nothing. *)
LEMMA BalanceAt ==
    ASSUME NEW R, NEW P, NEW n \in Nat \ {0}, NEW l, InOrder(R, P, n, l), NEW m \in Mints
    PROVE  /\ SlotsOf(l, m) \subseteq 0..(n - 1)
           /\ \A i \in SlotsOf(l, m) : Balance(l, m) = l.entries[i].amount
           /\ SlotsOf(l, m) = {} => Balance(l, m) = 0
           /\ Balance(l, m) \in Amount
<1>1. l.capacity = n /\ n > 0 /\ Slots(l) = 0..(n - 1) /\ 0 \in Slots(l)
  BY Fields DEF InOrder
<1>2. 0 \in Amount
  BY LedgerTableAssumption DEF Amount
<1>3. SlotsOf(l, m) \subseteq 0..(n - 1)
  BY <1>1 DEF SlotsOf
<1>4. CASE Has(l, m)
  <2>1. Balance(l, m) = AmountAt(l, m)
    BY <1>1, <1>4 DEF Balance
  <2>2. AmountAt(l, m) = l.entries[IndexOf(l, m)].amount
    BY DEF AmountAt
  <2>3. SlotsOf(l, m) = {IndexOf(l, m)} /\ AmountAt(l, m) \in Amount
    BY <1>4, OneSlot
  <2> QED BY <1>3, <2>1, <2>2, <2>3
<1>5. CASE ~Has(l, m)
  <2>1. Balance(l, m) = 0
    BY <1>5 DEF Balance
  <2>2. SlotsOf(l, m) = {}
    BY <1>5 DEF Has
  <2> QED BY <1>2, <2>1, <2>2
<1> QED BY <1>4, <1>5

(* Order, spelled out for one ledger's table.                              *)
LEMMA Order ==
    ASSUME NEW R, NEW P, NEW n \in Nat \ {0}, NEW l \in LedgerOf(R, P, n)
    PROVE  InOrder(R, P, n, l) <=>
              /\ l.entries[0].mint = Sol
              /\ \A i, j \in 1..(n - 1) :
                    l.entries[i].mint = l.entries[j].mint /\ l.entries[i].mint # Sol => i = j
              /\ \A i \in 1..(n - 1) : l.entries[i].mint = Sol => l.entries[i].amount = 0
<1>1. l.capacity = n /\ n > 0 /\ Slots(l) = 0..(n - 1)
  BY Fields
<1>2. Slots(l) \ {0} = 1..(n - 1)
  BY <1>1
<1>3. FreeSlots(l) = {i \in 1..(n - 1) : l.entries[i].mint = Sol}
  BY <1>2 DEF FreeSlots
<1> QED BY <1>1, <1>2, <1>3 DEF InOrder, Disciplined

(* Two tables of which each slot of a mint holds as much agree on it.      *)
LEMMA SameBalance ==
    ASSUME NEW R, NEW P, NEW n \in Nat \ {0}, NEW k \in Nat \ {0}, NEW l, NEW c,
           InOrder(R, P, n, l), InOrder(R, P, k, c), NEW m \in Mints,
           SlotsOf(c, m) = SlotsOf(l, m),
           \A i \in SlotsOf(l, m) : c.entries[i].amount = l.entries[i].amount
    PROVE  Balance(c, m) = Balance(l, m)
<1>1. CASE SlotsOf(l, m) = {}
  BY <1>1, BalanceAt
<1>2. CASE SlotsOf(l, m) # {}
  <2>1. PICK i \in SlotsOf(l, m) : TRUE
    BY <1>2
  <2>2. Balance(l, m) = l.entries[i].amount
    BY <2>1, BalanceAt
  <2>3. Balance(c, m) = c.entries[i].amount
    BY <2>1, BalanceAt
  <2> QED BY <2>1, <2>2, <2>3
<1> QED BY <1>1, <1>2

----------------------------------------------------------------------------
(* Writing a slot no other mint answers to leaves their balances alone.    *)
LEMMA OthersKeep ==
    ASSUME NEW R, NEW P, NEW n \in Nat \ {0}, NEW l, InOrder(R, P, n, l), NEW c,
           InOrder(R, P, n, c), NEW i \in 0..(n - 1), NEW x \in Mints,
           i = 0 => x # Sol,
           i # 0 => x = Sol \/ (l.entries[i].mint # x /\ c.entries[i].mint # x),
           \A j \in (0..(n - 1)) \ {i} : c.entries[j] = l.entries[j]
    PROVE  Balance(c, x) = Balance(l, x)
<1>1. /\ Slots(l) = 0..(n - 1) /\ Slots(c) = 0..(n - 1)
      /\ l.entries[0].mint = Sol /\ c.entries[0].mint = Sol
  <2>1. l \in LedgerOf(R, P, n) /\ c \in LedgerOf(R, P, n)
    BY DEF InOrder
  <2> QED BY <2>1, Fields, Order
<1>2. CASE x = Sol
  <2>1. SlotsOf(l, x) = {0} /\ SlotsOf(c, x) = {0}
    BY <1>2 DEF SlotsOf
  <2>2. c.entries[0] = l.entries[0]
    BY <1>2
  <2>3. \A j \in SlotsOf(l, x) : c.entries[j].amount = l.entries[j].amount
    BY <2>1, <2>2
  <2>4. SlotsOf(c, x) = SlotsOf(l, x)
    BY <2>1
  <2> QED BY <2>3, <2>4, SameBalance
<1>3. CASE x # Sol
  <2>1. l.entries[i].mint # x /\ c.entries[i].mint # x
    BY <1>1, <1>3
  <2>2. /\ SlotsOf(l, x) = {j \in (0..(n - 1)) \ {i} : l.entries[j].mint = x}
        /\ SlotsOf(c, x) = {j \in (0..(n - 1)) \ {i} : c.entries[j].mint = x}
    BY <1>1, <1>3, <2>1 DEF SlotsOf
  <2>3. SlotsOf(c, x) = SlotsOf(l, x)
    BY <2>2
  <2>4. \A j \in SlotsOf(l, x) : c.entries[j].amount = l.entries[j].amount
    BY <2>2
  <2> QED BY <2>3, <2>4, SameBalance
<1> QED BY <1>2, <1>3

(* index_or_claim: the mint has a slot, nobody's balance moves.            *)
LEMMA ClaimKeepsBalances ==
    ASSUME NEW R, NEW P, NEW n \in Nat \ {0}, NEW l, InOrder(R, P, n, l), NEW m \in Mints,
           CanClaim(l, m)
    PROVE  /\ InOrder(R, P, n, Claim(l, m))
           /\ Has(Claim(l, m), m)
           /\ Claim(l, m).rentPayer = l.rentPayer /\ Claim(l, m).authorized = l.authorized
           /\ \A x \in Mints : Balance(Claim(l, m), x) = Balance(l, x)
<1>1. CASE Has(l, m)
  BY <1>1 DEF Claim
<1>2. CASE ~Has(l, m)
  <2> DEFINE f == First(FreeSlots(l))
             e == [mint |-> m, amount |-> 0]
             c == Claim(l, m)
  <2>1. /\ l \in LedgerOf(R, P, n) /\ l.capacity = n /\ Slots(l) = 0..(n - 1)
        /\ l.entries \in [0..(n - 1) -> Entry]
    BY Fields DEF InOrder
  <2>2. FreeSlots(l) = {i \in 1..(n - 1) : l.entries[i].mint = Sol}
    BY <2>1 DEF FreeSlots
  <2>3. f \in 1..(n - 1) /\ l.entries[f].mint = Sol
    <3>1. FreeSlots(l) \in SUBSET Nat /\ FreeSlots(l) # {}
      BY <1>2, <2>2 DEF CanClaim
    <3>2. f \in FreeSlots(l)
      BY <3>1, FirstIsLeast
    <3> QED BY <2>2, <3>2
  <2>4. l.entries[f].amount = 0 /\ f \in 0..(n - 1)
    BY <2>1, <2>3, Order
  <2>5. c = [l EXCEPT !.entries = [l.entries EXCEPT ![f] = e]]
    <3>1. [l.entries[f] EXCEPT !.mint = m] = e
      BY <2>1, <2>4 DEF Entry
    <3> QED BY <1>2, <3>1 DEF Claim
  <2>6. e \in Entry
    BY LedgerTableAssumption DEF Entry, Amount
  <2> HIDE DEF f, e, c
  <2>7. /\ c \in LedgerOf(R, P, n)
        /\ c.capacity = n /\ c.rentPayer = l.rentPayer /\ c.authorized = l.authorized
        /\ c.entries[f] = e
        /\ \A j \in (0..(n - 1)) \ {f} : c.entries[j] = l.entries[j]
    BY <2>1, <2>4, <2>5, <2>6, OneEntry
  <2>8. e.mint = m /\ e.amount = 0
    BY DEF e
  <2>9. m # Sol /\ \A j \in 0..(n - 1) : l.entries[j].mint # m
    <3>1. SlotsOf(l, m) = {}
      BY <1>2 DEF Has
    <3>2. m # Sol
      BY <3>1 DEF SlotsOf
    <3> QED BY <2>1, <3>1, <3>2 DEF SlotsOf
  <2>10. InOrder(R, P, n, c)
    <3>1. c.entries[0].mint = Sol
      BY <2>1, <2>3, <2>7, Order
    <3>2. ASSUME NEW i \in 1..(n - 1), NEW j \in 1..(n - 1),
                 c.entries[i].mint = c.entries[j].mint, c.entries[i].mint # Sol
          PROVE  i = j
      <4>1. i \in 0..(n - 1) /\ j \in 0..(n - 1)
        OBVIOUS
      <4>2. CASE i = f /\ j # f
        BY <2>7, <2>8, <2>9, <3>2, <4>1, <4>2
      <4>3. CASE i # f /\ j = f
        BY <2>7, <2>8, <2>9, <3>2, <4>1, <4>3
      <4>4. CASE i # f /\ j # f
        BY <2>1, <2>7, <3>2, <4>1, <4>4, Order
      <4> QED BY <4>2, <4>3, <4>4
    <3>3. ASSUME NEW i \in 1..(n - 1), c.entries[i].mint = Sol
          PROVE  c.entries[i].amount = 0
      BY <2>1, <2>7, <2>8, <2>9, <3>3, Order
    <3> QED BY <2>7, <3>1, <3>2, <3>3, Order
  <2>11. SlotsOf(c, m) = {f}
    <3>1. Slots(c) = 0..(n - 1)
      BY <2>7 DEF Slots
    <3> QED BY <2>4, <2>7, <2>8, <2>9, <3>1 DEF SlotsOf
  <2>12. Balance(c, m) = 0 /\ Balance(l, m) = 0
    <3>1. Balance(c, m) = c.entries[f].amount
      BY <2>10, <2>11, BalanceAt
    <3>2. SlotsOf(l, m) = {}
      BY <1>2 DEF Has
    <3> QED BY <2>7, <2>8, <3>1, <3>2, BalanceAt
  <2>13. ASSUME NEW x \in Mints, x # m
         PROVE  Balance(c, x) = Balance(l, x)
    <3>1. x = Sol \/ (l.entries[f].mint # x /\ c.entries[f].mint # x)
      BY <2>3, <2>7, <2>8, <2>13
    <3> QED BY <2>3, <2>4, <2>7, <2>10, <3>1, OthersKeep
  <2>14. Has(c, m)
    BY <2>11 DEF Has
  <2> QED BY <2>7, <2>10, <2>12, <2>13, <2>14 DEF c
<1> QED BY <1>1, <1>2

(* Rewriting a mint's slot, or releasing it empty, moves its balance alone.*)
LEMMA Rewritten ==
    ASSUME NEW R, NEW P, NEW n \in Nat \ {0}, NEW l, InOrder(R, P, n, l), NEW m \in Mints,
           NEW i \in 0..(n - 1), SlotsOf(l, m) = {i}, NEW e \in Entry,
           e.mint = m \/ (i # 0 /\ e.mint = Sol /\ e.amount = 0),
           NEW k \in LedgerOf(R, P, n), k.entries[i] = e,
           \A j \in (0..(n - 1)) \ {i} : k.entries[j] = l.entries[j]
    PROVE  /\ InOrder(R, P, n, k)
           /\ Balance(k, m) = e.amount
           /\ \A x \in Mints \ {m} : Balance(k, x) = Balance(l, x)
<1>1. /\ l \in LedgerOf(R, P, n) /\ Slots(l) = 0..(n - 1)
      /\ l.entries \in [0..(n - 1) -> Entry] /\ l.entries[0].mint = Sol
  BY Fields, Order DEF InOrder
<1>2. k.capacity = n
  BY Fields
<1>3. Slots(k) = 0..(n - 1)
  BY <1>2 DEF Slots
<1>4. i = 0 <=> m = Sol
  BY <1>1 DEF SlotsOf
<1>5. l.entries[i].mint = m
  BY <1>1 DEF SlotsOf
<1>6. \A j \in (0..(n - 1)) \ {i} : m # Sol => l.entries[j].mint # m
  BY <1>1 DEF SlotsOf
<1>7. InOrder(R, P, n, k)
  <2>1. k.entries[0].mint = Sol
    BY <1>1, <1>2, <1>4
  <2>2. ASSUME NEW a \in 1..(n - 1), NEW b \in 1..(n - 1),
               k.entries[a].mint = k.entries[b].mint, k.entries[a].mint # Sol
        PROVE  a = b
    <3>1. a \in 0..(n - 1) /\ b \in 0..(n - 1)
      OBVIOUS
    <3>2. CASE a = i /\ b # i
      BY <1>2, <1>6, <2>2, <3>1, <3>2
    <3>3. CASE a # i /\ b = i
      BY <1>2, <1>6, <2>2, <3>1, <3>3
    <3>4. CASE a # i /\ b # i
      BY <1>1, <1>2, <2>2, <3>1, <3>4, Order
    <3> QED BY <3>2, <3>3, <3>4
  <2>3. ASSUME NEW a \in 1..(n - 1), k.entries[a].mint = Sol
        PROVE  k.entries[a].amount = 0
    <3>1. CASE a = i
      BY <1>2, <1>4, <2>3, <3>1
    <3>2. CASE a # i
      BY <1>1, <1>2, <2>3, <3>2, Order
    <3> QED BY <3>1, <3>2
  <2>4. \A a, b \in 1..(n - 1) :
           k.entries[a].mint = k.entries[b].mint /\ k.entries[a].mint # Sol => a = b
    BY <2>2
  <2>5. \A a \in 1..(n - 1) : k.entries[a].mint = Sol => k.entries[a].amount = 0
    BY <2>3
  <2> QED BY <2>1, <2>4, <2>5, Order
<1>8. Balance(k, m) = e.amount
  <2>1. CASE e.mint = m
    <3>1. i \in SlotsOf(k, m)
      BY <1>2, <1>3, <1>4, <2>1 DEF SlotsOf
    <3>2. \A j \in SlotsOf(k, m) : Balance(k, m) = k.entries[j].amount
      BY <1>7, BalanceAt
    <3> QED BY <3>1, <3>2
  <2>2. CASE e.mint # m
    <3>1. m # Sol /\ e.mint = Sol /\ e.amount = 0
      BY <1>4, <2>2
    <3>2. SlotsOf(k, m) = {}
      BY <1>2, <1>3, <1>6, <3>1 DEF SlotsOf
    <3> QED BY <1>7, <3>1, <3>2, BalanceAt
  <2> QED BY <2>1, <2>2
<1>9. ASSUME NEW x \in Mints \ {m}
      PROVE  Balance(k, x) = Balance(l, x)
  <2>1. i = 0 => x # Sol
    BY <1>4
  <2>2. i # 0 => x = Sol \/ (l.entries[i].mint # x /\ k.entries[i].mint # x)
    BY <1>2, <1>5
  <2>3. x \in Mints
    OBVIOUS
  <2> QED BY <1>7, <2>1, <2>2, <2>3, OthersKeep
<1> QED BY <1>7, <1>8, <1>9

(* credit raises the one balance it names.                                 *)
LEMMA CreditAdds ==
    ASSUME NEW R, NEW P, NEW n \in Nat \ {0}, NEW l, InOrder(R, P, n, l), NEW m \in Mints,
           NEW a \in Amount, CanCredit(l, m, a)
    PROVE  /\ InOrder(R, P, n, Credit(l, m, a))
           /\ Credit(l, m, a).rentPayer = l.rentPayer
           /\ Credit(l, m, a).authorized = l.authorized
           /\ Balance(Credit(l, m, a), m) = Balance(l, m) + a
           /\ Balance(l, m) + a <= MaxU64
           /\ \A x \in Mints \ {m} : Balance(Credit(l, m, a), x) = Balance(l, x)
<1> DEFINE c == Claim(l, m)
           i == IndexOf(c, m)
           e == [mint |-> m, amount |-> AmountAt(c, m) + a]
<1> a \in Nat
  BY LedgerTableAssumption DEF Amount
<1>1. /\ InOrder(R, P, n, c) /\ Has(c, m)
      /\ c.rentPayer = l.rentPayer /\ c.authorized = l.authorized
      /\ \A x \in Mints : Balance(c, x) = Balance(l, x)
  BY ClaimKeepsBalances DEF CanCredit
<1>2. /\ c \in LedgerOf(R, P, n)
      /\ c.entries \in [0..(n - 1) -> Entry]
  BY <1>1, Fields DEF InOrder
<1>3. /\ SlotsOf(c, m) = {i} /\ i \in 0..(n - 1) /\ c.entries[i].mint = m
      /\ AmountAt(c, m) \in Amount
  BY ONLY <1>1, m \in Mints, OneSlot
<1>4. Credit(l, m, a) = [c EXCEPT !.entries = [c.entries EXCEPT ![i] = e]]
  <2>1. AmountAt(c, m) = c.entries[i].amount
    BY DEF AmountAt
  <2>2. [c.entries[i] EXCEPT !.amount = c.entries[i].amount + a] = e
    BY <1>2, <1>3, <2>1 DEF Entry
  <2> QED BY <2>2 DEF Credit
<1>5. AmountAt(c, m) = Balance(l, m)
  <2>1. Balance(c, m) = c.entries[i].amount
    BY <1>1, <1>3, BalanceAt
  <2>2. AmountAt(c, m) = c.entries[i].amount
    BY DEF AmountAt
  <2> QED BY <1>1, <2>1, <2>2
<1>6. AmountAt(c, m) + a <= MaxU64
  BY DEF CanCredit
<1>7. e \in Entry /\ e.mint = m /\ e.amount = AmountAt(c, m) + a
  BY <1>3, <1>6, LedgerTableAssumption DEF Entry, Amount
<1> HIDE DEF c, i, e
<1> DEFINE k == Credit(l, m, a)
<1>8. k = [c EXCEPT !.entries = [c.entries EXCEPT ![i] = e]]
  BY <1>4
<1> HIDE DEF k
<1>9. /\ k \in LedgerOf(R, P, n)
      /\ k.rentPayer = c.rentPayer /\ k.authorized = c.authorized
      /\ k.entries[i] = e
      /\ \A j \in (0..(n - 1)) \ {i} : k.entries[j] = c.entries[j]
  BY <1>2, <1>3, <1>7, <1>8, OneEntry
<1>10. /\ InOrder(R, P, n, k)
       /\ Balance(k, m) = e.amount
       /\ \A x \in Mints \ {m} : Balance(k, x) = Balance(c, x)
  BY <1>1, <1>3, <1>7, <1>9, Rewritten
<1>11. /\ InOrder(R, P, n, k)
       /\ k.rentPayer = l.rentPayer
       /\ k.authorized = l.authorized
       /\ Balance(k, m) = Balance(l, m) + a
       /\ Balance(l, m) + a <= MaxU64
       /\ \A x \in Mints \ {m} : Balance(k, x) = Balance(l, x)
  BY <1>1, <1>5, <1>6, <1>7, <1>9, <1>10
<1> QED BY <1>11 DEF k

(* debit lowers the one balance it names.                                  *)
LEMMA DebitTakes ==
    ASSUME NEW R, NEW P, NEW n \in Nat \ {0}, NEW l, InOrder(R, P, n, l), NEW m \in Mints,
           NEW a \in Amount, CanDebit(l, m, a)
    PROVE  /\ InOrder(R, P, n, Debit(l, m, a))
           /\ Debit(l, m, a).rentPayer = l.rentPayer
           /\ Debit(l, m, a).authorized = l.authorized
           /\ a <= Balance(l, m)
           /\ Balance(Debit(l, m, a), m) = Balance(l, m) - a
           /\ \A x \in Mints \ {m} : Balance(Debit(l, m, a), x) = Balance(l, x)
<1> a \in Nat
  BY LedgerTableAssumption DEF Amount
<1>1. /\ SlotsOf(l, m) = {IndexOf(l, m)} /\ IndexOf(l, m) \in 0..(n - 1)
      /\ l.entries[IndexOf(l, m)].mint = m /\ AmountAt(l, m) \in Amount
  <2>1. Has(l, m)
    BY DEF CanDebit
  <2> QED BY <2>1, OneSlot
<1> DEFINE i == IndexOf(l, m)
           e == [mint |-> IF l.entries[i].amount = a /\ i # 0 THEN Sol ELSE l.entries[i].mint,
                 amount |-> l.entries[i].amount - a]
           k == Debit(l, m, a)
<1>2. SlotsOf(l, m) = {i} /\ i \in 0..(n - 1)
  BY <1>1
<1>3. AmountAt(l, m) = l.entries[i].amount /\ AmountAt(l, m) = Balance(l, m)
  BY <1>1, BalanceAt DEF AmountAt
<1>4. l.entries[i].amount \in Amount /\ a <= l.entries[i].amount
  BY <1>1, <1>3 DEF CanDebit
<1>5. e \in Entry /\ e.amount = l.entries[i].amount - a
  BY <1>1, <1>4, LedgerTableAssumption DEF Entry, Amount
<1>6. e.mint = m \/ (i # 0 /\ e.mint = Sol /\ e.amount = 0)
  BY <1>1, <1>4 DEF Amount
<1>7. k = [l EXCEPT !.entries = [l.entries EXCEPT ![i] = e]]
  BY DEF Debit
<1> HIDE DEF i, e, k
<1>8. /\ k \in LedgerOf(R, P, n)
      /\ k.rentPayer = l.rentPayer /\ k.authorized = l.authorized
      /\ k.entries[i] = e
      /\ \A j \in (0..(n - 1)) \ {i} : k.entries[j] = l.entries[j]
  <2>1. l \in LedgerOf(R, P, n) /\ i \in 0..(n - 1) /\ e \in Entry
    BY <1>5, <1>2 DEF InOrder
  <2> QED BY <1>7, <2>1 DEF LedgerOf
<1>9. /\ InOrder(R, P, n, k)
      /\ Balance(k, m) = e.amount
      /\ \A x \in Mints \ {m} : Balance(k, x) = Balance(l, x)
  BY <1>5, <1>6, <1>8, <1>2, Rewritten
<1>10. /\ InOrder(R, P, n, k)
      /\ k.rentPayer = l.rentPayer
      /\ k.authorized = l.authorized
      /\ a <= Balance(l, m)
      /\ Balance(k, m) = Balance(l, m) - a
      /\ \A x \in Mints \ {m} : Balance(k, x) = Balance(l, x)
  BY <1>3, <1>4, <1>5, <1>8, <1>9
<1> QED BY <1>10 DEF k

(* A table of zeroed slots is in order and claims nothing.                 *)
LEMMA ZeroedInOrder ==
    ASSUME NEW R, NEW P, NEW r \in R, NEW p \in P, NEW n \in Nat \ {0}, NEW l,
           l = [rentPayer |-> r, authorized |-> p, capacity |-> n, entries |-> ZeroedSlots(n)]
    PROVE  InOrder(R, P, n, l) /\ \A m \in Mints : Balance(l, m) = 0
<1>1. EmptyEntry \in Entry /\ EmptyEntry.mint = Sol /\ EmptyEntry.amount = 0
  BY LedgerTableAssumption DEF EmptyEntry, Entry, Amount
<1>2. l \in LedgerOf(R, P, n) /\ \A i \in 0..(n - 1) : l.entries[i] = EmptyEntry
  BY <1>1 DEF LedgerOf, ZeroedSlots
<1>3. InOrder(R, P, n, l)
  <2>1. 0 \in 0..(n - 1) /\ \A i \in 1..(n - 1) : i \in 0..(n - 1)
    OBVIOUS
  <2> QED BY <1>1, <1>2, <2>1, Order
<1>4. ASSUME NEW m \in Mints
      PROVE  Balance(l, m) = 0
  <2>1. CASE SlotsOf(l, m) = {}
    BY <1>3, <2>1, BalanceAt
  <2>2. CASE SlotsOf(l, m) # {}
    BY <1>1, <1>2, <1>3, <2>2, BalanceAt
  <2> QED BY <2>1, <2>2
<1> QED BY <1>3, <1>4

(* Growing adds free slots and moves no balance.                           *)
LEMMA GrowKeepsBalances ==
    ASSUME NEW R, NEW P, NEW n \in Nat \ {0}, NEW l, InOrder(R, P, n, l), NEW k \in Nat
    PROVE  /\ n + k \in Nat \ {0} /\ InOrder(R, P, n + k, Grow(l, k))
           /\ Grow(l, k).rentPayer = l.rentPayer /\ Grow(l, k).authorized = l.authorized
           /\ Grow(l, k).capacity = n + k
           /\ \A m \in Mints : Balance(Grow(l, k), m) = Balance(l, m)
<1> DEFINE g == Grow(l, k)
<1>1. /\ l \in LedgerOf(R, P, n) /\ l.capacity = n /\ Slots(l) = 0..(n - 1)
      /\ l.entries \in [0..(n - 1) -> Entry]
  BY Fields DEF InOrder
<1>2. EmptyEntry \in Entry /\ EmptyEntry.mint = Sol /\ EmptyEntry.amount = 0
  BY LedgerTableAssumption DEF EmptyEntry, Entry, Amount
<1>3. /\ g \in LedgerOf(R, P, n + k) /\ g.capacity = n + k
      /\ g.rentPayer = l.rentPayer /\ g.authorized = l.authorized
      /\ g.entries = [i \in 0..(n + k - 1) |-> IF i < n THEN l.entries[i] ELSE EmptyEntry]
  <2> DEFINE t == [i \in 0..(n + k - 1) |-> IF i < n THEN l.entries[i] ELSE EmptyEntry]
  <2>1. t \in [0..(n + k - 1) -> Entry]
    <3>1. ASSUME NEW i \in 0..(n + k - 1)
          PROVE  t[i] \in Entry
      BY <1>1, <1>2
    <3> QED BY <3>1
  <2>2. g = [l EXCEPT !.capacity = n + k, !.entries = t]
    BY <1>1 DEF Grow
  <2> HIDE DEF g, t
  <2>3. g = [rentPayer |-> l.rentPayer, authorized |-> l.authorized,
             capacity |-> n + k, entries |-> t]
    BY <1>1, <2>2 DEF LedgerOf
  <2>4. l.rentPayer \in R /\ l.authorized \in P
    BY <1>1, Fields
  <2>5. /\ g \in LedgerOf(R, P, n + k) /\ g.capacity = n + k
        /\ g.rentPayer = l.rentPayer /\ g.authorized = l.authorized
        /\ g.entries = t
    BY <2>1, <2>3, <2>4 DEF LedgerOf
  <2> QED BY <2>5 DEF t
<1>4. /\ n + k \in Nat \ {0}
      /\ \A i \in 0..(n - 1) : i \in 0..(n + k - 1) /\ g.entries[i] = l.entries[i]
      /\ \A i \in 0..(n + k - 1) : i \notin 0..(n - 1) => g.entries[i] = EmptyEntry
  BY <1>3
<1> HIDE DEF g
<1>5. InOrder(R, P, n + k, g)
  <2>1. g.entries[0].mint = Sol
    BY <1>1, <1>4, Order
  <2>2. ASSUME NEW i \in 1..(n + k - 1), NEW j \in 1..(n + k - 1),
               g.entries[i].mint = g.entries[j].mint, g.entries[i].mint # Sol
        PROVE  i = j
    <3>1. i \in 1..(n - 1) /\ j \in 1..(n - 1)
      BY <1>2, <1>4, <2>2
    <3>2. g.entries[i] = l.entries[i] /\ g.entries[j] = l.entries[j]
      BY <1>4, <3>1
    <3>3. \A a, b \in 1..(n - 1) :
             l.entries[a].mint = l.entries[b].mint /\ l.entries[a].mint # Sol => a = b
      BY <1>1, Order
    <3> QED BY <2>2, <3>1, <3>2, <3>3
  <2>3. ASSUME NEW i \in 1..(n + k - 1), g.entries[i].mint = Sol
        PROVE  g.entries[i].amount = 0
    <3>1. CASE i \in 1..(n - 1)
      BY <1>1, <1>4, <2>3, <3>1, Order
    <3>2. CASE i \notin 1..(n - 1)
      BY <1>2, <1>4, <3>2
    <3> QED BY <3>1, <3>2
  <2>4. \A i, j \in 1..(n + k - 1) :
           g.entries[i].mint = g.entries[j].mint /\ g.entries[i].mint # Sol => i = j
    BY <2>2
  <2>5. \A i \in 1..(n + k - 1) : g.entries[i].mint = Sol => g.entries[i].amount = 0
    BY <2>3
  <2>6. n + k \in Nat \ {0} /\ g \in LedgerOf(R, P, n + k)
    BY <1>3, <1>4
  <2> QED BY <2>1, <2>4, <2>5, <2>6, Order
<1>6. ASSUME NEW m \in Mints
      PROVE  Balance(g, m) = Balance(l, m)
  <2>1. Slots(g) = 0..(n + k - 1)
    BY <1>3 DEF Slots
  <2>2. SlotsOf(g, m) = SlotsOf(l, m)
    <3>1. CASE m = Sol
      BY <3>1 DEF SlotsOf
    <3>2. CASE m # Sol
      <4>1. \A i \in Slots(g) : g.entries[i].mint = m => i \in Slots(l) /\ l.entries[i].mint = m
        BY <1>1, <1>2, <1>4, <2>1, <3>2
      <4>2. \A i \in Slots(l) : i \in Slots(g) /\ g.entries[i].mint = l.entries[i].mint
        BY <1>1, <1>4, <2>1
      <4> QED BY <3>2, <4>1, <4>2 DEF SlotsOf
    <3> QED BY <3>1, <3>2
  <2>3. \A i \in SlotsOf(l, m) : g.entries[i].amount = l.entries[i].amount
    BY <1>4, BalanceAt
  <2> QED BY <1>4, <1>5, <2>2, <2>3, SameBalance
<1> QED BY <1>3, <1>4, <1>5, <1>6 DEF g

----------------------------------------------------------------------------
(* A real key is on the curve; no PDA and no zero key is.                  *)
LEMMA KeyKinds ==
    /\ \A k \in Pdas : k \notin KeyOrZero /\ k \notin OnCurve
    /\ \A k \in Keys \cup {ZeroKey} : RealKey(k) => k \in OnCurve
    /\ ZeroKey \in KeyOrZero /\ ZeroKey \notin OnCurve
    /\ OnCurve \subseteq KeyOrZero
    /\ \A w \in Wallets : w \in OnCurve
BY AddressesAssumption DEF KeyOrZero, RealKey, IsPda, Keys, OnCurve

(* A fresh entry is an entry.                                              *)
LEMMA NewEntryTyped == NewEntry \in SessionEntry
BY KeyKinds, SessionsAssumption DEF NewEntry, SessionEntry, Times

(* Granting, lending and revoking keep an entry an entry.                  *)
LEMMA EntryOperations ==
    ASSUME NEW e \in SessionEntry, NEW k
    PROVE  /\ k \in OnCurve => Grant(e, k) \in SessionEntry
           /\ k \in OnCurve => \A t \in Times : GrantTemporary(e, k, t) \in SessionEntry
           /\ Revoke(e, k) \in SessionEntry
<1>1. /\ e.temporary \in KeyOrZero /\ e.expiresAt \in Times
      /\ e.ring \in [Places -> KeyOrZero]
      /\ e = [temporary |-> e.temporary, expiresAt |-> e.expiresAt, ring |-> e.ring]
  BY DEF SessionEntry
<1>2. 0 \in Times /\ Ring \in Places
  BY SessionsAssumption DEF Times, Places
<1>3. ASSUME k \in OnCurve
      PROVE  Grant(e, k) \in SessionEntry
  <2>1. k \in KeyOrZero
    BY <1>3, KeyKinds
  <2>2. CASE k \in Held(e)
    BY <2>2 DEF Grant
  <2>3. CASE k \notin Held(e) /\ ZeroKey \in Held(e)
    <3> DEFINE i == FirstPlace({j \in Places : e.ring[j] = ZeroKey})
    <3>1. Grant(e, k) = [e EXCEPT !.ring[i] = k]
      BY <2>3 DEF Grant
    <3> HIDE DEF i
    <3> QED BY <1>1, <2>1, <3>1 DEF SessionEntry
  <2>4. CASE k \notin Held(e) /\ ZeroKey \notin Held(e)
    <3> DEFINE r == [i \in Places |-> IF i = Ring THEN k ELSE e.ring[i + 1]]
    <3>1. ASSUME NEW i \in Places
          PROVE  (IF i = Ring THEN k ELSE e.ring[i + 1]) \in KeyOrZero
      <4>1. i = Ring \/ i + 1 \in Places
        BY SessionsAssumption DEF Places
      <4> QED BY <1>1, <2>1, <4>1
    <3>2. r \in [Places -> KeyOrZero]
      BY <3>1
    <3>3. Grant(e, k) = [e EXCEPT !.ring = r]
      BY <2>4 DEF Grant
    <3> HIDE DEF r
    <3> QED BY <1>1, <3>2, <3>3 DEF SessionEntry
  <2> QED BY <2>2, <2>3, <2>4
<1>4. ASSUME k \in OnCurve, NEW t \in Times
      PROVE  GrantTemporary(e, k, t) \in SessionEntry
  BY <1>1, <1>4, KeyKinds DEF GrantTemporary, SessionEntry
<1>5. Revoke(e, k) \in SessionEntry
  <2> DEFINE r == [i \in Places |->
                     LET from == IthOf(KeptPlaces(e.ring, k), i)
                     IN  IF from = {} THEN ZeroKey ELSE e.ring[CHOOSE j \in from : TRUE]]
  <2>1. ASSUME NEW i \in Places
        PROVE  r[i] \in KeyOrZero
    <3> DEFINE from == IthOf(KeptPlaces(e.ring, k), i)
    <3>1. from \subseteq Places
      BY DEF IthOf, KeptPlaces
    <3>2. CASE from = {}
      BY <3>2, KeyKinds
    <3>3. CASE from # {}
      <4>1. (CHOOSE j \in from : TRUE) \in Places
        BY <3>1, <3>3
      <4> QED BY <1>1, <3>3, <4>1
    <3> QED BY <3>2, <3>3
  <2>2. r \in [Places -> KeyOrZero]
    BY <2>1
  <2>3. Revoke(e, k) = [temporary |-> IF e.temporary = k THEN ZeroKey ELSE e.temporary,
                        expiresAt |-> IF e.temporary = k THEN 0 ELSE e.expiresAt,
                        ring |-> r]
    BY DEF Revoke
  <2> HIDE DEF r
  <2> QED BY <1>1, <1>2, <2>2, <2>3, KeyKinds DEF SessionEntry
<1> QED BY <1>3, <1>4, <1>5

(* Reading, writing and dropping an entry keep a store a store.            *)
LEMMA StoreOperations ==
    ASSUME NEW s \in Store, NEW p \in Programs
    PROVE  /\ EntryFor(s, p) \in SessionEntry
           /\ Authorised(s, p) => s[p] \in SessionEntry
           /\ \A e \in SessionEntry : WithEntry(s, p, e) \in Store
           /\ DropEntry(s, p) \in Store
           /\ EmptyStore \in Store
<1>1. PICK D \in SUBSET Programs : s \in [D -> SessionEntry]
  BY DEF Store
<1>2. Authorised(s, p) => s[p] \in SessionEntry
  BY <1>1 DEF Authorised
<1>3. EntryFor(s, p) \in SessionEntry
  BY <1>2, NewEntryTyped DEF EntryFor
<1>4. ASSUME NEW e \in SessionEntry
      PROVE  WithEntry(s, p, e) \in Store
  <2>1. WithEntry(s, p, e) \in [D \cup {p} -> SessionEntry]
    BY <1>1 DEF WithEntry
  <2> QED BY <2>1 DEF Store
<1>5. DropEntry(s, p) \in Store
  <2>1. DropEntry(s, p) \in [D \ {p} -> SessionEntry]
    BY <1>1 DEF DropEntry
  <2> QED BY <2>1 DEF Store
<1>6. EmptyStore \in Store
  <2>1. EmptyStore \in [{} -> SessionEntry]
    BY DEF EmptyStore
  <2> QED BY <2>1 DEF Store
<1> QED BY <1>2, <1>3, <1>4, <1>5, <1>6

Stores == [Wallets -> Store \cup {NoStore}]

(* The handlers keep the stores stores.                                    *)
LEMMA EnsureTyped ==
    ASSUME store \in Stores, NEW w \in Wallets, EnsureStore(w) \/ CloseStore(w)
    PROVE  store' \in Stores
<1>1. EmptyStore \in Store
  <2>1. EmptyStore \in [{} -> SessionEntry]
    BY DEF EmptyStore
  <2> QED BY <2>1 DEF Store
<1> QED BY <1>1 DEF Stores, EnsureStore, CloseStore

(* authorize_session writes one entry of one store, made if need be.       *)
LEMMA AuthorizeWrites ==
    ASSUME store \in Stores, NEW w \in Wallets, NEW p \in Programs,
           NEW k \in Keys \cup {ZeroKey}, NEW t \in Times, NEW S,
           AuthorizeSession(w, p, k, t, S)
    PROVE  \E s \in Store, f \in SessionEntry :
              /\ s = IF store[w] = NoStore THEN EmptyStore ELSE store[w]
              /\ store' = [store EXCEPT ![w] = WithEntry(s, p, f)]
              /\ WithEntry(s, p, f) \in Store
<1> DEFINE s == IF store[w] = NoStore THEN EmptyStore ELSE store[w]
           e == EntryFor(s, p)
           f == IF t = 0 THEN Grant(e, k) ELSE GrantTemporary(e, k, t)
<1>1. EmptyStore \in Store
  <2>1. EmptyStore \in [{} -> SessionEntry]
    BY DEF EmptyStore
  <2> QED BY <2>1 DEF Store
<1>2. s \in Store
  BY <1>1 DEF Stores
<1>3. k \in OnCurve
  BY KeyKinds DEF AuthorizeSession
<1>4. store' = [store EXCEPT ![w] = WithEntry(s, p, f)]
  BY DEF AuthorizeSession
<1>5. s = IF store[w] = NoStore THEN EmptyStore ELSE store[w]
  OBVIOUS
<1> HIDE DEF s
<1>6. e \in SessionEntry
  BY <1>2, StoreOperations
<1> HIDE DEF e
<1>7. f \in SessionEntry
  BY <1>3, <1>6, EntryOperations
<1> HIDE DEF f
<1>8. WithEntry(s, p, f) \in Store
  BY <1>2, <1>7, StoreOperations
<1> QED BY <1>2, <1>4, <1>5, <1>7, <1>8

(* authorize_session keeps the stores stores.                              *)
LEMMA AuthorizeTyped ==
    ASSUME store \in Stores, NEW w \in Wallets, NEW p \in Programs,
           NEW k \in Keys \cup {ZeroKey}, NEW t \in Times, NEW S,
           AuthorizeSession(w, p, k, t, S)
    PROVE  store' \in Stores
BY AuthorizeWrites DEF Stores

(* revoke_session keeps the stores stores.                                 *)
LEMMA RevokeTyped ==
    ASSUME store \in Stores, NEW w \in Wallets, NEW p \in Programs, NEW k, NEW S,
           RevokeSession(w, p, k, S)
    PROVE  store' \in Stores
<1> DEFINE s == store[w]
           d == IF k = ZeroKey THEN DropEntry(s, p)
                ELSE IF Authorised(s, p) THEN WithEntry(s, p, Revoke(s[p], k))
                ELSE s
<1>1. s \in Store
  BY DEF RevokeSession, Stores
<1>2. store' = [store EXCEPT ![w] = d]
  BY DEF RevokeSession
<1> HIDE DEF s
<1>3. Authorised(s, p) => WithEntry(s, p, Revoke(s[p], k)) \in Store
  BY <1>1, StoreOperations, EntryOperations
<1>4. d \in Store
  BY <1>1, <1>3, StoreOperations
<1> HIDE DEF d
<1> QED BY <1>2, <1>4 DEF Stores

=============================================================================
