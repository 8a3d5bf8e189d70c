--------------------------- MODULE ReceiptsProofs ---------------------------
(***************************************************************************)
(* Receipts keep their types and their promise: what a receipt's           *)
(* settlement does is what its movements add up to, for one person at      *)
(* most, with the leave of everybody it takes from; and the rent fronted   *)
(* for receipts stays with the program that asked for them.                *)
(*                                                                         *)
(* What a settlement leaves on each copy, and what its movements add up    *)
(* to, are recursive functions: they are unfolded first, and followed by   *)
(* induction on the movements done.                                        *)
(***************************************************************************)
EXTENDS Receipts, VaultProofs

(* The terms programs ask for are lists of owners and of movements.        *)
LEMMA TermsTyped ==
    ASSUME NEW t \in Terms
    PROVE  /\ Len(t.owners) \in Nat /\ Len(t.movements) \in Nat
           /\ \A p \in 1..Len(t.owners) : t.owners[p] \in Owners
           /\ \A i \in 1..Len(t.movements) :
                 t.movements[i].mint \in Mints /\ t.movements[i].amount \in Amount
<1> DEFINE Mvs == [mint : Mints, amount : Amount, from : Nat \ {0}, to : Nat \ {0}]
<1>1. t.owners \in Seq(Owners) /\ t.movements \in Seq(Mvs)
  BY ReceiptsAssumption
<1>2. \A mv \in Mvs : mv.mint \in Mints /\ mv.amount \in Amount
  OBVIOUS
<1> HIDE DEF Mvs
<1>3. \A i \in 1..Len(t.movements) : t.movements[i] \in Mvs
  BY <1>1
<1> QED BY <1>1, <1>2, <1>3

----------------------------------------------------------------------------
(* The copies before any movement.                                         *)
Fetched(t) == [p \in 1..Len(t.owners) |-> rollup[t.owners[p]]]

(* `run` is the copies after each of `k` movements.                        *)
RunTo(t, k, run) ==
    run = [i \in 0..k |-> IF i = 0 THEN Fetched(t) ELSE Carried(t, run[i - 1], i)]

(* A run unfolded as far as `k` unfolds one movement further.              *)
LEMMA RunExtends ==
    ASSUME NEW t, NEW k \in Nat, NEW run, RunTo(t, k, run)
    PROVE  \E more : RunTo(t, k + 1, more)
<1> DEFINE more == [i \in 0..(k + 1) |->
                       IF i <= k THEN run[i] ELSE Carried(t, run[k], k + 1)]
<1>1. ASSUME NEW i \in 0..(k + 1)
      PROVE  more[i] = IF i = 0 THEN Fetched(t) ELSE Carried(t, more[i - 1], i)
  <2>1. CASE i = 0
    BY <2>1 DEF RunTo
  <2>2. CASE i \in 1..k
    <3>1. more[i] = run[i] /\ more[i - 1] = run[i - 1] /\ i # 0
      BY <2>2
    <3>2. run[i] = Carried(t, run[i - 1], i)
      <4> HIDE DEF more
      <4> QED BY <2>2, <3>1 DEF RunTo
    <3> QED BY <3>1, <3>2
  <2>3. CASE i = k + 1
    <3>1. more[i] = Carried(t, run[k], i) /\ i # 0 /\ i - 1 = k /\ more[i - 1] = run[k]
      BY <2>3
    <3> QED BY <3>1
  <2> QED BY <2>1, <2>2, <2>3
<1>2. more = [i \in 0..(k + 1) |-> more[i]]
  OBVIOUS
<1> HIDE DEF more
<1>3. RunTo(t, k + 1, more)
  BY <1>1, <1>2 DEF RunTo
<1> QED BY <1>3

(* Runs starts at the copies fetched and carries one movement at a time.   *)
LEMMA RunsUnfold ==
    ASSUME NEW t \in Terms
    PROVE  /\ Runs(t)[0] = Fetched(t)
           /\ \A i \in 1..Len(t.movements) : Runs(t)[i] = Carried(t, Runs(t)[i - 1], i)
<1> DEFINE n == Len(t.movements)
           T == {k \in 0..n : \E run : RunTo(t, k, run)}
<1>1. n \in Nat
  BY TermsTyped
<1>2. 0 \in T
  <2>1. RunTo(t, 0, [i \in 0..0 |-> Fetched(t)])
    BY DEF RunTo
  <2> QED BY <1>1, <2>1
<1>3. \A i \in 0..n : i \in T /\ i < n => i + 1 \in T
  BY <1>1, RunExtends
<1>4. n \in T
  <2> HIDE DEF n, T
  <2> QED BY <1>1, <1>2, <1>3, UpTo
<1>5. Runs(t) = CHOOSE run : RunTo(t, n, run)
  BY DEF Runs, RunTo, Fetched
<1>6. RunTo(t, n, Runs(t))
  BY <1>4, <1>5
<1>7. ASSUME NEW run, RunTo(t, n, run), NEW i \in 0..n
      PROVE  run[i] = IF i = 0 THEN Fetched(t) ELSE Carried(t, run[i - 1], i)
  BY <1>7 DEF RunTo
<1>8. 0 \in 0..n /\ \A i \in 1..n : i \in 0..n /\ i # 0
  BY <1>1
<1> HIDE DEF n
<1>9. \A i \in 0..n : Runs(t)[i] = IF i = 0 THEN Fetched(t) ELSE Carried(t, Runs(t)[i - 1], i)
  BY <1>6, <1>7
<1> QED BY <1>8, <1>9 DEF n

----------------------------------------------------------------------------
(* What an owner gives and gets, summed up in the same order.              *)
SumTo(s, k, sum) == sum = [i \in 0..k |-> IF i = 0 THEN 0 ELSE sum[i - 1] + s[i]]

(* So does a sum.                                                          *)
LEMMA SumExtends ==
    ASSUME NEW s, NEW k \in Nat, NEW sum, SumTo(s, k, sum)
    PROVE  \E more : SumTo(s, k + 1, more)
<1> DEFINE more == [i \in 0..(k + 1) |-> IF i <= k THEN sum[i] ELSE sum[k] + s[k + 1]]
<1>1. ASSUME NEW i \in 0..(k + 1)
      PROVE  more[i] = IF i = 0 THEN 0 ELSE more[i - 1] + s[i]
  <2>1. CASE i = 0
    BY <2>1 DEF SumTo
  <2>2. CASE i \in 1..k
    <3>1. more[i] = sum[i] /\ more[i - 1] = sum[i - 1] /\ i # 0
      BY <2>2
    <3>2. sum[i] = sum[i - 1] + s[i]
      <4> HIDE DEF more
      <4> QED BY <2>2, <3>1 DEF SumTo
    <3> QED BY <3>1, <3>2
  <2>3. CASE i = k + 1
    <3>1. more[i] = sum[k] + s[i] /\ i # 0 /\ i - 1 = k /\ more[i - 1] = sum[k]
      BY <2>3
    <3> QED BY <3>1
  <2> QED BY <2>1, <2>2, <2>3
<1>2. more = [i \in 0..(k + 1) |-> more[i]]
  OBVIOUS
<1> HIDE DEF more
<1>3. SumTo(s, k + 1, more)
  BY <1>1, <1>2 DEF SumTo
<1> QED BY <1>3

(* Sums starts at none and adds one part at a time.                        *)
LEMMA SumsUnfold ==
    ASSUME NEW s, NEW n \in Nat, Len(s) = n
    PROVE  /\ Promised!Sums(s)[0] = 0
           /\ \A i \in 1..n : Promised!Sums(s)[i] = Promised!Sums(s)[i - 1] + s[i]
<1> DEFINE T == {k \in 0..n : \E sum : SumTo(s, k, sum)}
<1>1. 0 \in T
  <2>1. SumTo(s, 0, [i \in 0..0 |-> 0])
    BY DEF SumTo
  <2> QED BY <2>1
<1>2. \A i \in 0..n : i \in T /\ i < n => i + 1 \in T
  BY SumExtends
<1>3. n \in T
  <2> HIDE DEF T
  <2> QED BY <1>1, <1>2, UpTo
<1>4. Promised!Sums(s) = CHOOSE sum : SumTo(s, n, sum)
  BY DEF Promised!Sums, SumTo
<1>5. SumTo(s, n, Promised!Sums(s))
  BY <1>3, <1>4
<1>6. ASSUME NEW sum, SumTo(s, n, sum), NEW i \in 0..n
      PROVE  sum[i] = IF i = 0 THEN 0 ELSE sum[i - 1] + s[i]
  BY <1>6 DEF SumTo
<1>7. 0 \in 0..n /\ \A i \in 1..n : i \in 0..n /\ i # 0
  OBVIOUS
<1>8. \A i \in 0..n : Promised!Sums(s)[i] =
                         IF i = 0 THEN 0 ELSE Promised!Sums(s)[i - 1] + s[i]
  BY <1>5, <1>6
<1> QED BY <1>7, <1>8

(* Sums of naturals are naturals.                                          *)
LEMMA SumsNatural ==
    ASSUME NEW n \in Nat, NEW s \in [1..n -> Nat]
    PROVE  /\ Promised!Sums(s)[0] = 0
           /\ \A i \in 1..n : Promised!Sums(s)[i] = Promised!Sums(s)[i - 1] + s[i]
           /\ \A i \in 0..n : Promised!Sums(s)[i] \in Nat
<1> DEFINE T == {k \in 0..n : Promised!Sums(s)[k] \in Nat}
<1>1. Len(s) = n
  OBVIOUS
<1>2. /\ Promised!Sums(s)[0] = 0
      /\ \A i \in 1..n : Promised!Sums(s)[i] = Promised!Sums(s)[i - 1] + s[i]
  BY <1>1, SumsUnfold
<1>3. 0 \in T
  BY <1>2
<1>4. \A i \in 0..n : i \in T /\ i < n => i + 1 \in T
  <2> SUFFICES ASSUME NEW i \in 0..n, i \in T, i < n
               PROVE  i + 1 \in T
    OBVIOUS
  <2>1. i + 1 \in 1..n /\ (i + 1) - 1 = i
    OBVIOUS
  <2>2. Promised!Sums(s)[i + 1] = Promised!Sums(s)[i] + s[i + 1] /\ s[i + 1] \in Nat
    BY <1>2, <2>1
  <2> QED BY <2>1, <2>2
<1>5. 0..n \subseteq T
  <2> HIDE DEF T
  <2> QED BY <1>3, <1>4, UpTo
<1> QED BY <1>2, <1>5

(* Sums of nothing are nothing.                                            *)
LEMMA SumsOfZeros ==
    ASSUME NEW n \in Nat, NEW s \in [1..n -> Nat], \A i \in 1..n : s[i] = 0
    PROVE  Promised!Sums(s)[n] = 0
<1> DEFINE T == {k \in 0..n : Promised!Sums(s)[k] = 0}
<1>1. /\ Promised!Sums(s)[0] = 0
      /\ \A i \in 1..n : Promised!Sums(s)[i] = Promised!Sums(s)[i - 1] + s[i]
  BY SumsNatural
<1>2. 0 \in T
  BY <1>1
<1>3. \A i \in 0..n : i \in T /\ i < n => i + 1 \in T
  <2> SUFFICES ASSUME NEW i \in 0..n, i \in T, i < n
               PROVE  i + 1 \in T
    OBVIOUS
  <2>1. i + 1 \in 1..n /\ (i + 1) - 1 = i
    OBVIOUS
  <2>2. Promised!Sums(s)[i + 1] = Promised!Sums(s)[i] + s[i + 1] /\ s[i + 1] = 0
    BY <1>1, <2>1
  <2> QED BY <2>1, <2>2
<1>4. 0..n \subseteq T
  <2> HIDE DEF T
  <2> QED BY <1>2, <1>3, UpTo
<1> QED BY <1>4

(* One movement as it weighs on what owner `o` gave and got of mint `m`.   *)
Gives(t, o, m) == [i \in 1..Len(t.movements) |->
    IF Giver(t, i) = o /\ t.movements[i].mint = m THEN t.movements[i].amount ELSE 0]
Gets(t, o, m) == [i \in 1..Len(t.movements) |->
    IF Taker(t, i) = o /\ t.movements[i].mint = m THEN t.movements[i].amount ELSE 0]

(* Given and Got are the sums of these.                                    *)
LEMMA GivesGets ==
    ASSUME NEW t \in Terms, NEW o, NEW m
    PROVE  /\ Promised!Given(t, o, m) = Promised!Sums(Gives(t, o, m))
           /\ Promised!Got(t, o, m) = Promised!Sums(Gets(t, o, m))
           /\ Gives(t, o, m) \in [1..Len(t.movements) -> Nat]
           /\ Gets(t, o, m) \in [1..Len(t.movements) -> Nat]
<1>1. \A i \in 1..Len(t.movements) : t.movements[i].amount \in Nat
  BY TermsTyped, LedgerTableAssumption DEF Amount
<1>2. /\ Promised!Given(t, o, m) = Promised!Sums(Gives(t, o, m))
      /\ Promised!Got(t, o, m) = Promised!Sums(Gets(t, o, m))
  BY DEF Promised!Given, Promised!Got, Gives, Gets, Giver, Taker
<1> QED BY <1>1, <1>2 DEF Gives, Gets

(* Given and Got, one movement at a time.                                  *)
LEMMA Tally ==
    ASSUME NEW t \in Terms, NEW o, NEW m
    PROVE  /\ Promised!Given(t, o, m)[0] = 0 /\ Promised!Got(t, o, m)[0] = 0
           /\ \A i \in 0..Len(t.movements) :
                 Promised!Given(t, o, m)[i] \in Nat /\ Promised!Got(t, o, m)[i] \in Nat
           /\ \A i \in 1..Len(t.movements) :
                 /\ Promised!Given(t, o, m)[i] =
                       Promised!Given(t, o, m)[i - 1] + Gives(t, o, m)[i]
                 /\ Promised!Got(t, o, m)[i] =
                       Promised!Got(t, o, m)[i - 1] + Gets(t, o, m)[i]
<1>1. Len(t.movements) \in Nat
  BY TermsTyped
<1>2. ASSUME NEW s \in [1..Len(t.movements) -> Nat]
      PROVE  /\ Promised!Sums(s)[0] = 0
             /\ \A i \in 1..Len(t.movements) :
                   Promised!Sums(s)[i] = Promised!Sums(s)[i - 1] + s[i]
             /\ \A i \in 0..Len(t.movements) : Promised!Sums(s)[i] \in Nat
  BY <1>1, SumsNatural
<1>3. PICK s \in [1..Len(t.movements) -> Nat] : s = Gives(t, o, m)
  BY GivesGets
<1>4. PICK r \in [1..Len(t.movements) -> Nat] : r = Gets(t, o, m)
  BY GivesGets
<1>5. Promised!Given(t, o, m) = Promised!Sums(s) /\ Promised!Got(t, o, m) = Promised!Sums(r)
  BY <1>3, <1>4, GivesGets
<1> QED BY <1>2, <1>3, <1>4, <1>5

(* Whoever no movement leaves gives nothing; whoever none reaches gets     *)
(* nothing.                                                                *)
LEMMA NoPart ==
    ASSUME NEW t \in Terms, NEW o, NEW m
    PROVE  /\ (\A i \in 1..Len(t.movements) : Giver(t, i) # o)
              => Promised!Given(t, o, m)[Len(t.movements)] = 0
           /\ (\A i \in 1..Len(t.movements) : Taker(t, i) # o)
              => Promised!Got(t, o, m)[Len(t.movements)] = 0
<1>1. Len(t.movements) \in Nat
  BY TermsTyped
<1>2. /\ (\A i \in 1..Len(t.movements) : Giver(t, i) # o)
         => \A i \in 1..Len(t.movements) : Gives(t, o, m)[i] = 0
      /\ (\A i \in 1..Len(t.movements) : Taker(t, i) # o)
         => \A i \in 1..Len(t.movements) : Gets(t, o, m)[i] = 0
  BY DEF Gives, Gets
<1>3. ASSUME NEW s \in [1..Len(t.movements) -> Nat], \A i \in 1..Len(t.movements) : s[i] = 0
      PROVE  Promised!Sums(s)[Len(t.movements)] = 0
  BY <1>1, <1>3, SumsOfZeros
<1>4. PICK s \in [1..Len(t.movements) -> Nat] : s = Gives(t, o, m)
  BY GivesGets
<1>5. PICK r \in [1..Len(t.movements) -> Nat] : r = Gets(t, o, m)
  BY GivesGets
<1>6. Promised!Given(t, o, m) = Promised!Sums(s) /\ Promised!Got(t, o, m) = Promised!Sums(r)
  BY <1>4, <1>5, GivesGets
<1> QED BY <1>2, <1>3, <1>4, <1>5, <1>6

----------------------------------------------------------------------------
(* A copy after `i` movements: a good ledger under the header fetched, with*)
(* what was there, less what its owner gave, more what it got.             *)
CopyHolds(t, i, p, k) ==
    LET o == t.owners[p]
    IN  /\ Good(k) /\ SameHeader(rollup[o], k)
        /\ \A m \in Mints :
              Balance(k, m) + Promised!Given(t, o, m)[i] =
                 Balance(rollup[o], m) + Promised!Got(t, o, m)[i]

CopiesHold(t, i) ==
    /\ DOMAIN Runs(t)[i] = 1..Len(t.owners)
    /\ \A p \in 1..Len(t.owners) : CopyHolds(t, i, p, Runs(t)[i][p])

(* What the receipt's parties are, fetched.                                *)
Fetchable(t) ==
    \A p \in 1..Len(t.owners) : Good(rollup[t.owners[p]]) /\ rollup[t.owners[p]].capacity > 0

(* The copies hold before the first movement ...                           *)
LEMMA HoldAtFirst ==
    ASSUME NEW t \in Terms, Fetchable(t)
    PROVE  CopiesHold(t, 0)
<1>1. Runs(t)[0] = Fetched(t)
  BY RunsUnfold
<1>2. /\ DOMAIN Runs(t)[0] = 1..Len(t.owners)
      /\ \A p \in 1..Len(t.owners) : Runs(t)[0][p] = rollup[t.owners[p]]
  BY <1>1 DEF Fetched
<1>3. ASSUME NEW p \in 1..Len(t.owners)
      PROVE  CopyHolds(t, 0, p, rollup[t.owners[p]])
  BY Tally, BalanceIsAmount DEF CopyHolds, Fetchable, SameHeader
<1> QED BY <1>2, <1>3 DEF CopiesHold

(* One movement: the giver's copy and the taker's, which are two, change.  *)
LEMMA HoldAtNext ==
    ASSUME NEW t \in Terms, Fetchable(t), WellFormed(t), NEW i \in 1..Len(t.movements),
           CopiesHold(t, i - 1), CanCarry(Runs(t)[i - 1], t.movements[i])
    PROVE  CopiesHold(t, i)
<1> DEFINE mv == t.movements[i]
           c == Runs(t)[i - 1]
           d == Runs(t)[i]
<1>1. /\ mv.from \in 1..Len(t.owners) /\ mv.to \in 1..Len(t.owners) /\ mv.from # mv.to
      /\ mv.mint \in Mints /\ mv.amount \in Amount /\ mv.amount \in Nat
  BY TermsTyped, LedgerTableAssumption DEF WellFormed, Amount
<1>2. d = [c EXCEPT ![mv.from] = Debit(@, mv.mint, mv.amount),
                    ![mv.to] = Credit(@, mv.mint, mv.amount)]
  BY RunsUnfold DEF Carried
<1>3. DOMAIN c = 1..Len(t.owners) /\ \A p \in 1..Len(t.owners) : CopyHolds(t, i - 1, p, c[p])
  BY DEF CopiesHold
<1>4. /\ DOMAIN d = 1..Len(t.owners)
      /\ d[mv.from] = Debit(c[mv.from], mv.mint, mv.amount)
      /\ d[mv.to] = Credit(c[mv.to], mv.mint, mv.amount)
      /\ \A p \in 1..Len(t.owners) : p # mv.from /\ p # mv.to => d[p] = c[p]
  BY <1>1, <1>2, <1>3
<1>5. CanDebit(c[mv.from], mv.mint, mv.amount) /\ CanCredit(c[mv.to], mv.mint, mv.amount)
  BY DEF CanCarry
<1>6. ASSUME NEW p \in 1..Len(t.owners)
      PROVE  /\ t.owners[p] = Giver(t, i) <=> p = mv.from
             /\ t.owners[p] = Taker(t, i) <=> p = mv.to
  BY <1>1 DEF WellFormed, Distinct, Giver, Taker
<1>7. ASSUME NEW p \in 1..Len(t.owners)
      PROVE  CopyHolds(t, i, p, d[p])
  <2> DEFINE o == t.owners[p]
  <2>1. /\ Good(c[p]) /\ SameHeader(rollup[o], c[p]) /\ c[p].capacity > 0
        /\ \A m \in Mints : Balance(c[p], m) + Promised!Given(t, o, m)[i - 1] =
                               Balance(rollup[o], m) + Promised!Got(t, o, m)[i - 1]
    BY <1>3 DEF CopyHolds, Fetchable, SameHeader
  <2>2. ASSUME NEW m \in Mints
        PROVE  /\ Balance(c[p], m) \in Nat /\ Balance(rollup[o], m) \in Nat
               /\ Promised!Given(t, o, m)[i - 1] \in Nat /\ Promised!Got(t, o, m)[i - 1] \in Nat
               /\ Promised!Given(t, o, m)[i] = Promised!Given(t, o, m)[i - 1] +
                     (IF p = mv.from /\ mv.mint = m THEN mv.amount ELSE 0)
               /\ Promised!Got(t, o, m)[i] = Promised!Got(t, o, m)[i - 1] +
                     (IF p = mv.to /\ mv.mint = m THEN mv.amount ELSE 0)
    <3>1. Balance(c[p], m) \in Nat /\ Balance(rollup[o], m) \in Nat
      BY <2>1, BalanceIsAmount DEF Fetchable
    <3>2. i - 1 \in 0..Len(t.movements)
      BY TermsTyped
    <3>3. /\ Gives(t, o, m)[i] = IF p = mv.from /\ mv.mint = m THEN mv.amount ELSE 0
          /\ Gets(t, o, m)[i] = IF p = mv.to /\ mv.mint = m THEN mv.amount ELSE 0
      BY <1>6 DEF Gives, Gets
    <3>4. /\ Promised!Given(t, o, m)[i - 1] \in Nat /\ Promised!Got(t, o, m)[i - 1] \in Nat
          /\ Promised!Given(t, o, m)[i] = Promised!Given(t, o, m)[i - 1] + Gives(t, o, m)[i]
          /\ Promised!Got(t, o, m)[i] = Promised!Got(t, o, m)[i - 1] + Gets(t, o, m)[i]
      BY <3>2, Tally
    <3> QED BY <3>1, <3>3, <3>4
  <2>3. CASE p = mv.from
    <3>1. /\ d[p] = Debit(c[p], mv.mint, mv.amount) /\ CanDebit(c[p], mv.mint, mv.amount)
          /\ p # mv.to
      BY <1>1, <1>4, <1>5, <2>3
    <3>2. /\ Good(d[p]) /\ SameHeader(c[p], d[p])
          /\ Balance(d[p], mv.mint) = Balance(c[p], mv.mint) - mv.amount
          /\ \A x \in Mints \ {mv.mint} : Balance(d[p], x) = Balance(c[p], x)
      BY <1>1, <2>1, <3>1, DebitGood
    <3>3. ASSUME NEW m \in Mints
          PROVE  Balance(d[p], m) + Promised!Given(t, o, m)[i] =
                    Balance(rollup[o], m) + Promised!Got(t, o, m)[i]
      <4>1. Balance(c[p], m) + Promised!Given(t, o, m)[i - 1] =
               Balance(rollup[o], m) + Promised!Got(t, o, m)[i - 1]
        BY <2>1
      <4>2. CASE m = mv.mint
        <5>1. Balance(d[p], m) = Balance(c[p], m) - mv.amount
          BY <3>2, <4>2
        <5>2. /\ Promised!Given(t, o, m)[i] = Promised!Given(t, o, m)[i - 1] + mv.amount
              /\ Promised!Got(t, o, m)[i] = Promised!Got(t, o, m)[i - 1] + 0
          BY <2>2, <2>3, <3>1, <4>2
        <5>3. /\ mv.amount \in Nat /\ Balance(c[p], m) \in Nat /\ Balance(rollup[o], m) \in Nat
              /\ Promised!Given(t, o, m)[i - 1] \in Nat /\ Promised!Got(t, o, m)[i - 1] \in Nat
          BY <1>1, <2>2
        <5>4. PICK b \in Nat, g \in Nat, l \in Nat, h \in Nat, a \in Nat :
                 /\ b = Balance(c[p], m) /\ l = Balance(rollup[o], m) /\ a = mv.amount
                 /\ g = Promised!Given(t, o, m)[i - 1] /\ h = Promised!Got(t, o, m)[i - 1]
          BY <5>3
        <5> HIDE DEF mv, c, d, o
        <5>5. b + g = l + h
          BY <4>1, <5>4
        <5>6. /\ Balance(d[p], m) = b - a
              /\ Promised!Given(t, o, m)[i] = g + a /\ Promised!Got(t, o, m)[i] = h + 0
          BY <5>1, <5>2, <5>4
        <5>7. (b - a) + (g + a) = l + (h + 0)
          BY <5>5
        <5> QED BY <5>4, <5>6, <5>7
      <4>3. CASE m # mv.mint
        <5>1. Balance(d[p], m) = Balance(c[p], m)
          BY <3>2, <4>3
        <5>2. /\ Promised!Given(t, o, m)[i] = Promised!Given(t, o, m)[i - 1] + 0
              /\ Promised!Got(t, o, m)[i] = Promised!Got(t, o, m)[i - 1] + 0
          BY <2>2, <4>3
        <5> HIDE DEF mv, c, d, o
        <5> QED BY <2>2, <4>1, <5>1, <5>2
      <4> QED BY <4>2, <4>3
    <3> QED BY <2>1, <3>2, <3>3 DEF CopyHolds, SameHeader
  <2>4. CASE p = mv.to
    <3>1. /\ d[p] = Credit(c[p], mv.mint, mv.amount) /\ CanCredit(c[p], mv.mint, mv.amount)
          /\ p # mv.from
      BY <1>1, <1>4, <1>5, <2>4
    <3>2. /\ Good(d[p]) /\ SameHeader(c[p], d[p])
          /\ Balance(d[p], mv.mint) = Balance(c[p], mv.mint) + mv.amount
          /\ \A x \in Mints \ {mv.mint} : Balance(d[p], x) = Balance(c[p], x)
      BY <1>1, <2>1, <3>1, CreditGood
    <3>3. ASSUME NEW m \in Mints
          PROVE  Balance(d[p], m) + Promised!Given(t, o, m)[i] =
                    Balance(rollup[o], m) + Promised!Got(t, o, m)[i]
      <4>1. Balance(c[p], m) + Promised!Given(t, o, m)[i - 1] =
               Balance(rollup[o], m) + Promised!Got(t, o, m)[i - 1]
        BY <2>1
      <4>2. CASE m = mv.mint
        <5>1. Balance(d[p], m) = Balance(c[p], m) + mv.amount
          BY <3>2, <4>2
        <5>2. /\ Promised!Given(t, o, m)[i] = Promised!Given(t, o, m)[i - 1] + 0
              /\ Promised!Got(t, o, m)[i] = Promised!Got(t, o, m)[i - 1] + mv.amount
          BY <2>4, <2>2, <3>1, <4>2
        <5>3. /\ mv.amount \in Nat /\ Balance(c[p], m) \in Nat /\ Balance(rollup[o], m) \in Nat
              /\ Promised!Given(t, o, m)[i - 1] \in Nat /\ Promised!Got(t, o, m)[i - 1] \in Nat
          BY <1>1, <2>2
        <5>4. PICK b \in Nat, g \in Nat, l \in Nat, h \in Nat, a \in Nat :
                 /\ b = Balance(c[p], m) /\ l = Balance(rollup[o], m) /\ a = mv.amount
                 /\ g = Promised!Given(t, o, m)[i - 1] /\ h = Promised!Got(t, o, m)[i - 1]
          BY <5>3
        <5> HIDE DEF mv, c, d, o
        <5>5. b + g = l + h
          BY <4>1, <5>4
        <5>6. /\ Balance(d[p], m) = b + a
              /\ Promised!Given(t, o, m)[i] = g + 0 /\ Promised!Got(t, o, m)[i] = h + a
          BY <5>1, <5>2, <5>4
        <5>7. (b + a) + (g + 0) = l + (h + a)
          BY <5>5
        <5> QED BY <5>4, <5>6, <5>7
      <4>3. CASE m # mv.mint
        <5>1. Balance(d[p], m) = Balance(c[p], m)
          BY <3>2, <4>3
        <5>2. /\ Promised!Given(t, o, m)[i] = Promised!Given(t, o, m)[i - 1] + 0
              /\ Promised!Got(t, o, m)[i] = Promised!Got(t, o, m)[i - 1] + 0
          BY <2>2, <4>3
        <5> HIDE DEF mv, c, d, o
        <5> QED BY <2>2, <4>1, <5>1, <5>2
      <4> QED BY <4>2, <4>3
    <3> QED BY <2>1, <3>2, <3>3 DEF CopyHolds, SameHeader
  <2>5. CASE p # mv.from /\ p # mv.to
    <3>1. d[p] = c[p]
      BY <1>4, <2>5
    <3>2. ASSUME NEW m \in Mints
          PROVE  Balance(d[p], m) + Promised!Given(t, o, m)[i] =
                    Balance(rollup[o], m) + Promised!Got(t, o, m)[i]
      <4> HIDE DEF mv, c, d, o
      <4> QED BY <1>1, <2>1, <2>2, <2>5, <3>1
    <3> QED BY <2>1, <3>1, <3>2 DEF CopyHolds
  <2> QED BY <2>3, <2>4, <2>5
<1> QED BY <1>4, <1>7 DEF CopiesHold

(* All of them.                                                            *)
LEMMA HoldAtLast ==
    ASSUME NEW t \in Terms, Fetchable(t), WellFormed(t), CanApply(t)
    PROVE  \A i \in 0..Len(t.movements) : CopiesHold(t, i)
<1> DEFINE n == Len(t.movements)
           T == {i \in 0..n : CopiesHold(t, i)}
<1>1. n \in Nat
  BY TermsTyped
<1>2. 0 \in T
  BY <1>1, HoldAtFirst
<1>3. \A i \in 0..n : i \in T /\ i < n => i + 1 \in T
  <2> SUFFICES ASSUME NEW i \in 0..n, i \in T, i < n
               PROVE  i + 1 \in T
    OBVIOUS
  <2>1. i + 1 \in 1..n /\ (i + 1) - 1 = i
    BY <1>1
  <2>2. CanCarry(Runs(t)[i], t.movements[i + 1]) /\ CopiesHold(t, i)
    BY <2>1 DEF CanApply
  <2>3. CopiesHold(t, i + 1)
    BY <2>1, <2>2, HoldAtNext
  <2> QED BY <2>1, <2>3
<1>4. 0..n \subseteq T
  <2> HIDE DEF n, T
  <2> QED BY <1>1, <1>2, <1>3, UpTo
<1> QED BY <1>4

----------------------------------------------------------------------------
(* A copy lists what its ledger listed and what its owner was sent.        *)
ListsAtMost(t, i) ==
    \A p \in 1..Len(t.owners), x \in Mints \ {Sol} :
        Has(Runs(t)[i][p], x) =>
            \/ Has(rollup[t.owners[p]], x)
            \/ \E j \in 1..i : Taker(t, j) = t.owners[p] /\ t.movements[j].mint = x

(* ... and a movement lists at most the mint it brings.                    *)
LEMMA ListsNext ==
    ASSUME NEW t \in Terms, Fetchable(t), WellFormed(t), NEW i \in 1..Len(t.movements),
           CopiesHold(t, i - 1), CanCarry(Runs(t)[i - 1], t.movements[i]),
           ListsAtMost(t, i - 1)
    PROVE  ListsAtMost(t, i)
<1> DEFINE mv == t.movements[i]
           c == Runs(t)[i - 1]
           d == Runs(t)[i]
<1>1. /\ mv.from \in 1..Len(t.owners) /\ mv.to \in 1..Len(t.owners) /\ mv.from # mv.to
      /\ mv.mint \in Mints /\ mv.amount \in Amount
  BY TermsTyped DEF WellFormed
<1>2. /\ DOMAIN c = 1..Len(t.owners)
      /\ \A p \in 1..Len(t.owners) : Good(c[p]) /\ c[p].capacity > 0
  BY DEF CopiesHold, CopyHolds, Fetchable, SameHeader
<1>3. d = [c EXCEPT ![mv.from] = Debit(@, mv.mint, mv.amount),
                    ![mv.to] = Credit(@, mv.mint, mv.amount)]
  BY RunsUnfold DEF Carried
<1>4. /\ d[mv.from] = Debit(c[mv.from], mv.mint, mv.amount)
      /\ d[mv.to] = Credit(c[mv.to], mv.mint, mv.amount)
      /\ \A p \in 1..Len(t.owners) : p # mv.from /\ p # mv.to => d[p] = c[p]
  BY <1>1, <1>2, <1>3
<1>5. CanDebit(c[mv.from], mv.mint, mv.amount) /\ CanCredit(c[mv.to], mv.mint, mv.amount)
  BY DEF CanCarry
<1>6. i - 1 \in Nat /\ i \in Nat /\ 1..(i - 1) \subseteq 1..i /\ i \in 1..i
  BY TermsTyped
<1>7. ASSUME NEW p \in 1..Len(t.owners), NEW x \in Mints \ {Sol}, Has(d[p], x)
      PROVE  Has(c[p], x) \/ (p = mv.to /\ x = mv.mint)
  <2>1. CASE p = mv.from
    BY <1>1, <1>2, <1>4, <1>5, <1>7, <2>1, DebitLists
  <2>2. CASE p = mv.to
    <3> DEFINE l == c[mv.to]
    <3>1. SUFFICES ASSUME x # mv.mint
                   PROVE  Has(l, x)
      BY <2>2
    <3>2. Good(l) /\ l.capacity > 0 /\ CanCredit(l, mv.mint, mv.amount)
      BY <1>1, <1>2, <1>5
    <3>3. Has(Credit(l, mv.mint, mv.amount), x)
      BY <1>4, <1>7, <2>2
    <3>4. x \in Mints \ {Sol, mv.mint}
      BY <3>1
    <3> HIDE DEF l, mv
    <3> QED BY <1>1, <3>2, <3>3, <3>4, CreditLists
  <2>3. CASE p # mv.from /\ p # mv.to
    BY <1>4, <1>7, <2>3
  <2> QED BY <2>1, <2>2, <2>3
<1>8. Taker(t, i) = t.owners[mv.to]
  BY DEF Taker
<1> HIDE DEF c, d
<1>9. ASSUME NEW p \in 1..Len(t.owners), NEW x \in Mints \ {Sol}, Has(d[p], x)
      PROVE  \/ Has(rollup[t.owners[p]], x)
             \/ \E j \in 1..i : Taker(t, j) = t.owners[p] /\ t.movements[j].mint = x
  <2>1. CASE Has(c[p], x)
    BY <1>6, <2>1 DEF ListsAtMost, c
  <2>2. CASE p = mv.to /\ x = mv.mint
    BY <1>6, <1>8, <2>2
  <2> QED BY <1>7, <1>9, <2>1, <2>2
<1> QED BY <1>9 DEF ListsAtMost, d

(* After the last movement too.                                            *)
LEMMA ListsAtLast ==
    ASSUME NEW t \in Terms, Fetchable(t), WellFormed(t), CanApply(t)
    PROVE  ListsAtMost(t, Len(t.movements))
<1> DEFINE n == Len(t.movements)
           T == {i \in 0..n : ListsAtMost(t, i)}
<1>1. n \in Nat
  BY TermsTyped
<1>2. 0 \in T
  <2>1. Runs(t)[0] = Fetched(t)
    BY RunsUnfold
  <2> QED BY <1>1, <2>1 DEF ListsAtMost, Fetched
<1>3. \A i \in 0..n : i \in T /\ i < n => i + 1 \in T
  <2> SUFFICES ASSUME NEW i \in 0..n, i \in T, i < n
               PROVE  i + 1 \in T
    OBVIOUS
  <2>1. i + 1 \in 1..n /\ (i + 1) - 1 = i
    BY <1>1
  <2>2. CanCarry(Runs(t)[i], t.movements[i + 1]) /\ CopiesHold(t, i)
    BY <2>1, HoldAtLast DEF CanApply
  <2>3. ListsAtMost(t, i + 1)
    BY <2>1, <2>2, ListsNext
  <2> QED BY <2>1, <2>3
<1>4. 0..n \subseteq T
  <2> HIDE DEF n, T
  <2> QED BY <1>1, <1>2, <1>3, UpTo
<1> QED BY <1>1, <1>4

----------------------------------------------------------------------------
(* A receipt was well formed when it was written, in a slot that has come. *)
Recorded ==
    \A a \in ReceiptAddresses : receipts[a] # NoReceipt =>
        WellFormed(receipts[a].terms) /\ receipts[a].slot <= slot

(* What lies at an address is a receipt with terms asked for by a program. *)
LEMMA ReceiptThere ==
    ASSUME ReceiptTypeOK, NEW a \in ReceiptAddresses, receipts[a] # NoReceipt
    PROVE  /\ receipts[a] \in Receipt
           /\ receipts[a].terms \in Terms /\ receipts[a].authority \in Pdas
           /\ receipts[a].slot \in Nat
<1>1. receipts[a] \in Receipt
  BY DEF ReceiptTypeOK
<1> QED BY <1>1, ReceiptsAssumption DEF Receipt, Slot

(* A party whose ledger is on the rollup has a good table there.           *)
LEMMA PartyThere ==
    ASSUME Copies, NEW o \in Owners, OnRollup(o)
    PROVE  /\ Good(rollup[o]) /\ rollup[o].capacity > 0
           /\ Sound(o, base[o], rollup[o], where[o]) /\ base[o].capacity > 0
           /\ where[o] # Basenet
           /\ o \in Pdas => rollup[o].authorized = ProgramOf[o]
<1>1. where[o] # Basenet
  BY ReceiptsAssumption, VaultAssumption DEF OnRollup
<1>2. Sound(o, base[o], rollup[o], where[o])
  BY DEF Copies
<1> QED BY <1>1, <1>2 DEF Sound, SameHeader, HeadOf

(* The settlement of a receipt: each copy is stored at its party's ledger. *)
LEMMA AppliedStores ==
    ASSUME NEW t \in Terms, Distinct(t), rollup' = Applied(t)
    PROVE  /\ DOMAIN rollup' = Owners
           /\ \A p \in 1..Len(t.owners) :
                 rollup'[t.owners[p]] = Runs(t)[Len(t.movements)][p]
           /\ \A o \in Owners \ Parties(t) : rollup'[o] = rollup[o]
<1> DEFINE copies == Runs(t)[Len(t.movements)]
<1>1. rollup' = [o \in Owners |->
                    IF o \in Parties(t)
                    THEN copies[CHOOSE p \in 1..Len(t.owners) : t.owners[p] = o]
                    ELSE rollup[o]]
  BY DEF Applied
<1>2. ASSUME NEW p \in 1..Len(t.owners)
      PROVE  rollup'[t.owners[p]] = copies[p]
  <2>1. t.owners[p] \in Owners /\ t.owners[p] \in Parties(t)
    BY TermsTyped DEF Parties
  <2>2. (CHOOSE q \in 1..Len(t.owners) : t.owners[q] = t.owners[p]) = p
    BY DEF Distinct
  <2> HIDE DEF copies
  <2> QED BY <1>1, <2>1, <2>2
<1> HIDE DEF copies
<1>3. DOMAIN rollup' = Owners /\ \A o \in Owners \ Parties(t) : rollup'[o] = rollup[o]
  BY <1>1
<1> QED BY <1>2, <1>3 DEF copies

(* What a settlement starts from.                                          *)
LEMMA Settling ==
    ASSUME Copies, ReceiptTypeOK, Recorded, NEW a \in ReceiptAddresses, NEW S,
           SettleReceipt(a, S)
    PROVE  LET t == receipts[a].terms
           IN  /\ t \in Terms /\ WellFormed(t) /\ Distinct(t) /\ Len(t.movements) \in Nat
               /\ CanApply(t) /\ rollup' = Applied(t)
               /\ UNCHANGED <<base, where, returning>>
               /\ \A o \in Parties(t) : o \in Owners /\ OnRollup(o)
               /\ Fetchable(t)
<1> DEFINE t == receipts[a].terms
<1>1. /\ t \in Terms /\ WellFormed(t) /\ Distinct(t) /\ Len(t.movements) \in Nat
      /\ LedgersMatch(a, t) /\ CanApply(t) /\ rollup' = Applied(t)
      /\ UNCHANGED <<base, where, returning>>
  <2>1. receipts[a] # NoReceipt
    BY DEF SettleReceipt, SettleableNow
  <2>2. t \in Terms
    BY <2>1, ReceiptThere
  <2> QED BY <2>1, <2>2, TermsTyped DEF SettleReceipt, Recorded, WellFormed
<1> HIDE DEF t
<1>2. \A o \in Parties(t) : o \in Owners /\ OnRollup(o)
  BY <1>1, TermsTyped DEF LedgersMatch, Parties
<1>3. Fetchable(t)
  BY <1>2, PartyThere DEF Fetchable, Parties
<1> QED BY <1>1, <1>2, <1>3 DEF t

(* settle_receipt: every copy stays sound, and what is owed changes by what*)
(* the movements add up to.                                                *)
LEMMA SettleReceiptEffect ==
    ASSUME Copies, ReceiptTypeOK, Recorded, NEW a \in ReceiptAddresses, NEW S,
           SettleReceipt(a, S)
    PROVE  LET t == receipts[a].terms
               n == Len(t.movements)
           IN  /\ t \in Terms /\ Copies'
               /\ \A o \in Owners, m \in Mints :
                     Due(o, m)' + Promised!Given(t, o, m)[n] =
                        Due(o, m) + Promised!Got(t, o, m)[n]
               /\ \A o \in Owners \ Parties(t), m \in Mints : Due(o, m)' = Due(o, m)
<1> DEFINE t == receipts[a].terms
           n == Len(t.movements)
<1>1. /\ t \in Terms /\ n \in Nat /\ WellFormed(t) /\ Distinct(t)
      /\ CanApply(t) /\ rollup' = Applied(t)
      /\ UNCHANGED <<base, where, returning>>
  BY Settling
<1>2. \A o \in Parties(t) : o \in Owners /\ OnRollup(o)
  BY Settling
<1>3. Fetchable(t)
  BY Settling
<1> HIDE DEF t, n
<1>4. CopiesHold(t, n)
  BY <1>1, <1>3, HoldAtLast DEF n
<1>5. /\ DOMAIN rollup' = Owners
      /\ \A p \in 1..Len(t.owners) : rollup'[t.owners[p]] = Runs(t)[n][p]
      /\ \A o \in Owners \ Parties(t) : rollup'[o] = rollup[o]
  BY <1>1, AppliedStores DEF n
<1>6. ASSUME NEW o \in Parties(t)
      PROVE  /\ Good(rollup'[o]) /\ SameHeader(rollup[o], rollup'[o])
             /\ \A m \in Mints :
                   Balance(rollup'[o], m) + Promised!Given(t, o, m)[n] =
                      Balance(rollup[o], m) + Promised!Got(t, o, m)[n]
  <2>1. PICK p \in 1..Len(t.owners) : t.owners[p] = o
    BY DEF Parties
  <2> QED BY <1>4, <1>5, <2>1 DEF CopiesHold, CopyHolds
<1>7. ASSUME NEW o \in Owners
      PROVE  Sound(o, base[o], rollup'[o], where[o])
  <2>1. CASE o \in Parties(t)
    <3>1. Sound(o, base[o], rollup[o], where[o]) /\ base[o].capacity > 0 /\ where[o] # Basenet
      BY <1>2, <2>1, PartyThere
    <3> QED BY <1>6, <2>1, <3>1, LiveWrite
  <2>2. CASE o \notin Parties(t)
    BY <1>5, <2>2 DEF Copies
  <2> QED BY <2>1, <2>2
<1>8. Copies'
  BY <1>1, <1>5, <1>7 DEF Copies
<1>9. ASSUME NEW o \in Owners \ Parties(t), NEW m \in Mints
      PROVE  Due(o, m)' = Due(o, m)
  BY <1>1, <1>5 DEF Due, Live
<1>10. ASSUME NEW o \in Owners, NEW m \in Mints
       PROVE  Due(o, m)' + Promised!Given(t, o, m)[n] = Due(o, m) + Promised!Got(t, o, m)[n]
  <2>1. CASE o \in Parties(t)
    <3>1. where[o] # Basenet
      BY <1>2, <2>1, PartyThere
    <3>2. Due(o, m)' = Balance(rollup'[o], m) /\ Due(o, m) = Balance(rollup[o], m)
      BY <1>1, <3>1 DEF Due, Live
    <3> QED BY <1>6, <2>1, <3>2
  <2>2. CASE o \notin Parties(t)
    <3>1. \A i \in 1..n : Giver(t, i) # o /\ Taker(t, i) # o
      BY <1>1, <2>2 DEF WellFormed, Parties, Giver, Taker, n
    <3>2. Promised!Given(t, o, m)[n] = 0 /\ Promised!Got(t, o, m)[n] = 0
      BY <1>1, <3>1, NoPart DEF n
    <3> QED BY <1>9, <2>2, <3>2
  <2> QED BY <2>1, <2>2
<1> QED BY <1>1, <1>8, <1>9, <1>10 DEF t, n

----------------------------------------------------------------------------
(* Rent is a natural number, and so is what an address holds.              *)
LEMMA RentNatural ==
    /\ \A t \in Terms : Rent(t) \in Nat
    /\ ReceiptTypeOK => \A a \in ReceiptAddresses : RentHeld(a) \in Nat
<1>1. ASSUME NEW t \in Terms
      PROVE  Rent(t) \in Nat
  <2>1. PICK p \in Nat, n \in Nat : p = Len(t.owners) /\ n = Len(t.movements)
    BY TermsTyped
  <2>2. Rent(t) = 1 + p + n
    BY <2>1 DEF Rent
  <2> QED BY <2>2
<1>2. ASSUME ReceiptTypeOK, NEW a \in ReceiptAddresses
      PROVE  RentHeld(a) \in Nat
  BY <1>1, <1>2, ReceiptThere DEF RentHeld
<1> QED BY <1>1, <1>2

(* An account closed onto a program's ledger leaves everything typed.      *)
LEMMA ClosedTyped ==
    ASSUME ReceiptTypeOK, Recorded, NEW a \in ReceiptAddresses, NEW o \in Pdas,
           CloseOnto(a, o), tasks' \subseteq tasks, UNCHANGED slot
    PROVE  ReceiptTypeOK' /\ Recorded'
<1>1. RentHeld(a) \in Nat
  BY RentNatural
<1>2. /\ receipts' = [receipts EXCEPT ![a] = NoReceipt]
      /\ lamports' = [lamports EXCEPT ![o] = @ + RentHeld(a)]
  BY DEF CloseOnto
<1>3. ReceiptTypeOK'
  BY <1>1, <1>2 DEF ReceiptTypeOK
<1>4. \A b \in ReceiptAddresses : receipts'[b] = IF b = a THEN NoReceipt ELSE receipts[b]
  BY <1>2 DEF ReceiptTypeOK
<1>5. Recorded'
  BY <1>4 DEF Recorded
<1> QED BY <1>3, <1>5

(* A receipt written leaves everything typed: the sponsor had the rent.    *)
LEMMA CreatedTyped ==
    ASSUME ReceiptTypeOK, Recorded, NEW a \in ReceiptAddresses, NEW o \in Pdas,
           NEW t \in Terms, NEW S, CreateReceipt(a, o, t, S)
    PROVE  ReceiptTypeOK' /\ Recorded'
<1> DEFINE new == [terms |-> t, authority |-> o, slot |-> slot]
           task == [receipt |-> a, ledger |-> o, scheduled |-> slot]
<1>1. /\ receipts' = [receipts EXCEPT ![a] = new]
      /\ lamports' = [lamports EXCEPT ![o] = @ + RentHeld(a) - Rent(t)]
      /\ Rent(t) <= lamports[o] + RentHeld(a)
      /\ tasks' \subseteq tasks \cup {task}
      /\ slot' = slot /\ slot \in Slot /\ slot \in Nat /\ WellFormed(t)
  BY ReceiptsAssumption DEF CreateReceipt, CanFront, ScheduleReap, TaskFor, ReceiptTypeOK, Slot
<1>2. new \in Receipt /\ task \in Task
  BY <1>1 DEF Receipt, Task
<1>3. lamports[o] \in Nat /\ RentHeld(a) \in Nat /\ Rent(t) \in Nat
  BY RentNatural DEF ReceiptTypeOK
<1>4. lamports[o] + RentHeld(a) - Rent(t) \in Nat
  BY <1>1, <1>3
<1>5. lamports' \in [Pdas -> Nat]
  BY <1>1, <1>4 DEF ReceiptTypeOK
<1>6. tasks' \subseteq Task
  BY <1>1, <1>2 DEF ReceiptTypeOK
<1>7. receipts' \in [ReceiptAddresses -> Receipt \cup {NoReceipt}]
  <2> HIDE DEF new
  <2> QED BY <1>1, <1>2 DEF ReceiptTypeOK
<1>8. \A b \in ReceiptAddresses : receipts'[b] = IF b = a THEN new ELSE receipts[b]
  <2> HIDE DEF new
  <2> QED BY <1>1 DEF ReceiptTypeOK
<1>9. Recorded'
  <2> SUFFICES ASSUME NEW b \in ReceiptAddresses, receipts'[b] # NoReceipt
               PROVE  WellFormed(receipts'[b].terms) /\ receipts'[b].slot <= slot'
    BY DEF Recorded
  <2>1. CASE b = a
    <3>1. receipts'[b] = new
      BY <1>8, <2>1
    <3> QED BY <1>1, <3>1
  <2>2. CASE b # a
    <3>1. receipts'[b] = receipts[b]
      BY <1>8, <2>2
    <3> QED BY <1>1, <3>1 DEF Recorded
  <2> QED BY <2>1, <2>2
<1>10. ReceiptTypeOK'
  BY <1>1, <1>5, <1>6, <1>7 DEF ReceiptTypeOK
<1> QED BY <1>9, <1>10

(* The three together are inductive.                                       *)
ReceiptInvariant == Copies /\ ReceiptTypeOK /\ Recorded

(* It holds at first ...                                                   *)
LEMMA InvariantInit == Init /\ ReceiptInit => ReceiptInvariant
<1> SUFFICES ASSUME Init, ReceiptInit
             PROVE  ReceiptInvariant
  OBVIOUS
<1>1. Copies
  BY CopiesInit
<1>2. ReceiptTypeOK
  BY ReceiptsAssumption DEF ReceiptInit, ReceiptTypeOK, Slot
<1>3. Recorded
  BY DEF ReceiptInit, Recorded
<1> QED BY <1>1, <1>2, <1>3 DEF ReceiptInvariant

(* ... and every step keeps it.                                            *)
LEMMA InvariantStep == ReceiptInvariant /\ [RollupNext]_allVars => ReceiptInvariant'
<1> SUFFICES ASSUME Copies, ReceiptTypeOK, Recorded, [RollupNext]_allVars
             PROVE  ReceiptInvariant'
  BY DEF ReceiptInvariant
<1>1. ASSUME NEW a \in ReceiptAddresses, NEW o \in Pdas, NEW t \in Terms, NEW S,
             CreateReceipt(a, o, t, S)
      PROVE  ReceiptInvariant'
  <2>1. Copies'
    BY <1>1, QuietEffect DEF CreateReceipt
  <2> QED BY <1>1, <2>1, CreatedTyped DEF ReceiptInvariant
<1>2. ASSUME NEW a \in ReceiptAddresses, NEW S, SettleReceipt(a, S)
      PROVE  ReceiptInvariant'
  <2>1. Copies'
    BY <1>2, SettleReceiptEffect
  <2>2. receipts[a].authority \in Pdas
    BY <1>2, ReceiptThere DEF SettleReceipt, SettleableNow
  <2>3. CloseOnto(a, receipts[a].authority) /\ tasks' \subseteq tasks /\ UNCHANGED slot
    BY <1>2 DEF SettleReceipt
  <2> QED BY <2>1, <2>2, <2>3, ClosedTyped DEF ReceiptInvariant
<1>3. ASSUME NEW a \in ReceiptAddresses, NEW o \in Pdas, NEW S, ReapReceipt(a, o, S)
      PROVE  ReceiptInvariant'
  <2>1. Copies'
    BY <1>3, QuietEffect DEF ReapReceipt
  <2> QED BY <1>3, <2>1, ClosedTyped DEF ReapReceipt, ReceiptInvariant
<1>4. ASSUME NEW t \in tasks, RunTask(t)
      PROVE  ReceiptInvariant'
  <2>1. Copies'
    BY <1>4, QuietEffect DEF RunTask
  <2>2. t.receipt \in ReceiptAddresses /\ t.ledger \in Pdas
    BY DEF ReceiptTypeOK, Task
  <2>3. tasks' \subseteq tasks /\ UNCHANGED slot
    BY <1>4 DEF RunTask
  <2>4. CASE Reapable(t.receipt, t.ledger)
    BY <1>4, <2>1, <2>2, <2>3, <2>4, ClosedTyped DEF RunTask, ReceiptInvariant
  <2>5. CASE ~Reapable(t.receipt, t.ledger)
    BY <1>4, <2>1, <2>3, <2>5 DEF RunTask, ReceiptInvariant, ReceiptTypeOK, Recorded
  <2> QED BY <2>4, <2>5
<1>5. CASE NextSlot
  <2>1. Copies'
    BY <1>5, QuietEffect DEF NextSlot
  <2>2. slot' \in Slot /\ slot' = slot + 1 /\ slot \in Nat
    BY <1>5, ReceiptsAssumption DEF NextSlot, ReceiptTypeOK, Slot
  <2>3. UNCHANGED <<receipts, tasks, lamports>>
    BY <1>5 DEF NextSlot
  <2>4. ASSUME NEW a \in ReceiptAddresses, receipts[a] # NoReceipt
        PROVE  WellFormed(receipts[a].terms) /\ receipts[a].slot <= slot'
    <3>1. receipts[a].slot \in Nat /\ receipts[a].slot <= slot
      BY <2>4, ReceiptThere DEF Recorded
    <3> QED BY <2>2, <2>4, <3>1 DEF Recorded
  <2> QED BY <2>1, <2>2, <2>3, <2>4 DEF ReceiptInvariant, ReceiptTypeOK, Recorded
<1>6. CASE Next /\ UNCHANGED receiptVars
  <2>1. Copies'
    BY <1>6, CopiesStep
  <2> QED BY <1>6, <2>1 DEF receiptVars, ReceiptInvariant, ReceiptTypeOK, Recorded
<1>7. CASE UNCHANGED allVars
  <2>1. UNCHANGED vars /\ UNCHANGED receiptVars
    BY <1>7 DEF allVars
  <2>2. Copies'
    BY <2>1, CopiesStep
  <2> QED BY <2>1, <2>2 DEF receiptVars, ReceiptInvariant, ReceiptTypeOK, Recorded
<1> QED BY <1>1, <1>2, <1>3, <1>4, <1>5, <1>6, <1>7 DEF RollupNext, ReceiptNext

(* The inductive invariant holds throughout.                               *)
LEMMA InvariantHolds == ReceiptSpec => []ReceiptInvariant
BY InvariantInit, InvariantStep, PTL DEF ReceiptSpec

(* Receipts, tasks and fronted rent keep their types, and no ledger fronts *)
(* rent it does not have, whatever receipts are written, settled, reused   *)
(* and reaped (create_receipt.rs:106-110).                                 *)
THEOREM ReceiptTypes == ReceiptSpec => []ReceiptTypeOK
BY InvariantHolds, PTL DEF ReceiptInvariant

(* Every copy of every ledger stays disciplined through receipts of any    *)
(* length (settle_receipt.rs:118-127): SOL in slot 0, one slot to a mint,  *)
(* nothing in a free slot.                                                 *)
THEOREM SlotsSurviveReceipts == ReceiptSpec => []SlotDiscipline
BY InvariantHolds, CopiesAreSound, PTL DEF ReceiptInvariant

----------------------------------------------------------------------------
(* Outside receipts.                                                       *)
Untouched(o) == \A m \in Mints : Due(o, m)' = Due(o, m)

(* What is owed to nobody changes but to `src` and `dst`, who are one owner*)
(* or not both people.                                                     *)
Paid(src, dst) ==
    /\ src = dst \/ src \in Pdas \/ dst \in Pdas
    /\ \A o \in Owners \ {src, dst} : Untouched(o)

(* Every other instruction pays between such two, or leaves claims alone.  *)
LEMMA NextPays ==
    Copies /\ [Next]_vars =>
        (\A o \in Owners : Untouched(o)) \/ \E src, dst \in Owners : Paid(src, dst)
<1> SUFFICES ASSUME Copies, [Next]_vars, \E o \in Owners : ~Untouched(o)
             PROVE  \E src, dst \in Owners : Paid(src, dst)
  OBVIOUS
<1>1. ~UNCHANGED <<base, rollup, where, returning>>
  BY QuietEffect DEF Untouched
<1>2. \A i \in 0..(MaxSlotIncrease + 1) : i \in Nat
  BY VaultAssumption
<1>3. ~OpenNext
  <2>1. ASSUME NEW S, NEW p, InitializeVault(p, S)
        PROVE  FALSE
    BY <1>1, <2>1 DEF InitializeVault
  <2>2. ASSUME NEW S, NEW w \in Wallets, NEW n, OpenWalletLedger(w, n, S)
        PROVE  FALSE
    BY <2>2, OpenWalletEffect DEF Untouched
  <2>3. ASSUME NEW S, NEW x \in Owners, NEW p \in Sponsors, NEW g \in Programs, NEW n,
               OpenPdaLedger(x, p, g, n, S)
        PROVE  FALSE
    BY <2>3, OpenPdaEffect DEF Untouched
  <2>4. ASSUME NEW S, NEW x \in Owners, NEW p, NEW f, NEW n \in Nat, GrowPdaLedger(x, p, f, n, S)
        PROVE  FALSE
    BY <2>4, GrowEffect DEF Untouched
  <2> QED BY <1>2, <2>1, <2>2, <2>3, <2>4 DEF OpenNext
<1>4. CASE ValueNext
  <2>1. ASSUME NEW w \in Owners, NEW m \in Mints, OthersKept(w, m)
        PROVE  Paid(w, w)
    BY <2>1 DEF OthersKept, Paid, Untouched
  <2>2. ASSUME NEW S, NEW m \in Mints, NEW a \in Amount, NEW w \in Wallets, NEW f,
               NEW i \in Nat, Deposit(w, m, a, f, i, S)
        PROVE  w \in Owners /\ Paid(w, w)
    BY <2>1, <2>2, DepositEffect, Constants
  <2>3. ASSUME NEW S, NEW m \in Mints, NEW a \in Amount, NEW w \in Wallets, Withdraw(w, m, a, S)
        PROVE  w \in Owners /\ Paid(w, w)
    BY <2>1, <2>3, WithdrawEffect, Constants
  <2>4. ASSUME NEW S, NEW m \in Mints, NEW a \in Amount, NEW src \in Owners, NEW dst \in Owners,
               Settle(src, dst, m, a, S)
        PROVE  Paid(src, dst)
    <3>1. /\ src \in Pdas \/ dst \in Pdas
          /\ \A o \in Owners, n \in Mints : n # m \/ o \notin {src, dst} => Due(o, n)' = Due(o, n)
      BY <2>4, SettleEffect
    <3> QED BY <3>1 DEF Paid, Untouched
  <2>5. ASSUME NEW x \in Owners, NEW p, NEW S, CloseLedger(x, p, S)
        PROVE  Paid(x, x)
    <3>1. \A o \in Owners \ {x}, m \in Mints : Due(o, m)' = Due(o, m)
      BY <2>5, CloseEffect
    <3> QED BY <3>1 DEF Paid, Untouched
  <2> QED BY <1>2, <1>4, <2>2, <2>3, <2>4, <2>5 DEF ValueNext
<1>5. ~DonateNext
  BY <1>1 DEF DonateNext, Donate
<1>6. ~DelegationNext
  <2>1. ASSUME NEW x \in Owners, NEW S, NEW v \in Validators, DelegateLedger(x, v, S)
        PROVE  FALSE
    BY <2>1, DelegateEffect DEF Untouched
  <2>2. ASSUME NEW x \in Owners, NEW S, NEW p, Undelegate(x, p, S) \/ CommitFails(x)
        PROVE  FALSE
    BY <2>2, UndelegateEffect DEF Untouched
  <2>3. ASSUME NEW x \in Owners, CommitLands(x)
        PROVE  FALSE
    BY <2>3, CommitEffect DEF Untouched
  <2> QED BY <2>1, <2>2, <2>3 DEF DelegationNext
<1>7. ~PrivacyNext
  BY <1>1
     DEF PrivacyNext, MakePublic, MakeWalletLedgerPrivate, MakePdaLedgerPrivate, AddPdaCaller
<1>8. ~SessionNext /\ ~UNCHANGED vars
  BY <1>1 DEF SessionNext, custodyVars, vars
<1> QED BY <1>3, <1>4, <1>5, <1>6, <1>7, <1>8 DEF Next

(* The steps a receipt takes without settling leave every ledger alone.    *)
Idle ==
    \/ \E a \in ReceiptAddresses, o \in Pdas, S \in SignerSets :
          \/ \E t \in Terms : CreateReceipt(a, o, t, S)
          \/ ReapReceipt(a, o, S)
    \/ \E t \in tasks : RunTask(t)
    \/ NextSlot

(* Such a step leaves what is owed as it was.                              *)
LEMMA IdleEffect ==
    ASSUME Copies, Idle
    PROVE  Copies' /\ \A o \in Owners : Untouched(o)
<1>1. UNCHANGED custodyVars
  BY DEF Idle, CreateReceipt, ReapReceipt, RunTask, NextSlot
<1> QED BY <1>1, QuietEffect DEF Untouched

(* What any step is.                                                       *)
LEMMA StepKinds ==
    [RollupNext]_allVars =>
        \/ Idle
        \/ \E a \in ReceiptAddresses, S \in SignerSets : SettleReceipt(a, S)
        \/ [Next]_vars /\ UNCHANGED receiptVars
BY DEF RollupNext, ReceiptNext, allVars, Idle

(* The claims of two wallets never change in one step.                     *)
LEMMA OneWalletStep ==
    ASSUME ReceiptInvariant, [RollupNext]_allVars,
           NEW v \in Wallets, NEW w \in Wallets, ~Untouched(v), ~Untouched(w)
    PROVE  v = w
<1>1. v \in Owners /\ w \in Owners /\ v \notin Pdas /\ w \notin Pdas
  BY Constants
<1>2. ~Idle
  BY <1>1, IdleEffect DEF ReceiptInvariant
<1>3. ASSUME NEW a \in ReceiptAddresses, NEW S, SettleReceipt(a, S)
      PROVE  v = w
  <2>1. v \in Parties(receipts[a].terms) /\ w \in Parties(receipts[a].terms)
    BY <1>1, <1>3, SettleReceiptEffect DEF ReceiptInvariant, Untouched
  <2> QED BY <1>3, <2>1 DEF SettleReceipt, OnePersonAtMost
<1>4. CASE [Next]_vars
  <2>1. PICK src \in Owners, dst \in Owners : Paid(src, dst)
    BY <1>1, <1>4, NextPays DEF ReceiptInvariant
  <2> QED BY <1>1, <2>1 DEF Paid
<1> QED BY <1>2, <1>3, <1>4, StepKinds

(* Value never passes between people, whatever movements a receipt lists   *)
(* and in whatever order (settle_receipt.rs:88-91): no step changes what   *)
(* two wallets are owed.                                                   *)
THEOREM OneWallet == ReceiptSpec => OneWalletPerStep
<1>1. ReceiptInvariant /\ [RollupNext]_allVars =>
        [\A v, w \in Wallets :
            (Claims'[v] # Claims[v] /\ Claims'[w] # Claims[w]) => v = w]_allVars
  <2>1. ASSUME NEW w \in Wallets, Claims'[w] # Claims[w]
        PROVE  ~Untouched(w)
    <3>1. w \in Owners
      BY Constants
    <3>2. /\ Claims[w] = [m \in Mints |-> Due(w, m)]
          /\ Claims'[w] = [m \in Mints |-> Due(w, m)']
      BY <3>1 DEF Claims, Due
    <3> QED BY <2>1, <3>2 DEF Untouched
  <2> QED BY <2>1, OneWalletStep
<1> QED BY <1>1, InvariantHolds, PTL DEF ReceiptSpec, OneWalletPerStep

(* A step that takes from an owner has that owner's leave, or its          *)
(* program's.                                                              *)
LeaveFor(o) ==
    \/ o \in signed'
    \/ \E a \in ReceiptAddresses :
          /\ Consumed(a) /\ a.consenter \in signed'
          /\ IF IsPda(o) THEN ProgramOf[o] = a.member
             ELSE MayConsent(o, a.consenter, a.member)

(* Who loses gave leave.                                                   *)
LEMMA LeaveStep ==
    ASSUME ReceiptInvariant, [RollupNext]_allVars,
           NEW o \in Owners, NEW m \in Mints, Due(o, m)' < Due(o, m)
    PROVE  LeaveFor(o)
<1>1. Copies /\ Due(o, m) \in Nat
  BY LiveIsGood DEF ReceiptInvariant
<1>2. ~Idle
  BY <1>1, IdleEffect DEF Untouched
<1>3. ASSUME NEW a \in ReceiptAddresses, NEW S, SettleReceipt(a, S)
      PROVE  LeaveFor(o)
  <2> DEFINE t == receipts[a].terms
             n == Len(t.movements)
  <2>1. /\ t \in Terms /\ Copies' /\ n \in Nat
        /\ Due(o, m)' + Promised!Given(t, o, m)[n] = Due(o, m) + Promised!Got(t, o, m)[n]
        /\ o \notin Parties(t) => Due(o, m)' = Due(o, m)
    BY <1>3, SettleReceiptEffect, TermsTyped DEF ReceiptInvariant
  <2>2. Due(o, m)' \in Nat
    <3>1. Good(Live(o)')
      BY <2>1 DEF Copies, Sound, Live
    <3> QED BY <3>1, BalanceIsAmount DEF Due
  <2>3. Promised!Given(t, o, m)[n] \in Nat /\ Promised!Got(t, o, m)[n] \in Nat
    BY <2>1, Tally
  <2>4. Promised!Given(t, o, m)[n] # 0 /\ o \in Parties(t)
    <3> HIDE DEF t, n
    <3> QED BY <1>1, <2>1, <2>2, <2>3
  <2>5. PICK i \in 1..n : Giver(t, i) = o
    BY <2>1, <2>4, NoPart
  <2>6. receipts[a] # NoReceipt /\ a.consenter \in signed' /\ Consumed(a)
    BY <1>3 DEF SettleReceipt, SettleableNow, Consumed, CloseOnto, ReceiptInvariant, ReceiptTypeOK
  <2>7. CASE o \in Pdas
    <3>1. OnRollup(o) /\ rollup[o].authorized = a.member
      BY <1>3, <2>4, <2>7 DEF SettleReceipt, LedgersMatch, IsPda
    <3>2. ProgramOf[o] = a.member
      BY <1>1, <2>7, <3>1, PartyThere
    <3> QED BY <2>6, <2>7, <3>2 DEF LeaveFor, IsPda
  <2>8. CASE o \notin Pdas
    <3>1. o \in Wallets /\ Debited(o, t)
      BY <2>5, <2>8 DEF Owners, Debited
    <3>2. MayConsent(o, a.consenter, a.member)
      BY <1>3, <2>4, <3>1 DEF SettleReceipt, PersonConsents
    <3> QED BY <2>6, <2>8, <3>2 DEF LeaveFor, IsPda
  <2> QED BY <2>7, <2>8
<1>4. CASE [Next]_vars
  BY <1>1, <1>4, DebitStep DEF LeaveFor
<1> QED BY <1>2, <1>3, <1>4, StepKinds

(* Nobody's claims go down without leave: the owner signed, or a receipt   *)
(* written this very slot was settled by its own key, a key of the owner's *)
(* for that program or the owner's own program's receipt                   *)
(* (settle_receipt.rs:36-53, 79, 97-112).                                  *)
THEOREM DebitsNeedReceipt == ReceiptSpec => DebitNeedsReceipt
<1>1. ReceiptInvariant /\ [RollupNext]_allVars =>
        [\A o \in Owners, m \in Mints : Claims'[o][m] < Claims[o][m] => LeaveFor(o)]_allVars
  <2>1. ASSUME NEW o \in Owners, NEW m \in Mints, Claims'[o][m] < Claims[o][m]
        PROVE  Due(o, m)' < Due(o, m)
    BY <2>1 DEF Claims, Due
  <2> QED BY <2>1, LeaveStep
<1> QED BY <1>1, InvariantHolds, PTL DEF ReceiptSpec, DebitNeedsReceipt, LeaveFor

----------------------------------------------------------------------------
(* What the abstract intents see of a state.                               *)
Pending == [a \in ReceiptAddresses |->
               IF SettleableNow(a) THEN receipts[a].terms ELSE NoReceipt]

KeptIntents == [Promised!Next]_(Promised!vars)

(* Nothing pending before, and the claims are what is due.                 *)
LEMMA IntentsInit == Init /\ ReceiptInit => Promised!Init
<1> SUFFICES ASSUME Init, ReceiptInit
             PROVE  Promised!Init
  OBVIOUS
<1>1. Copies
  BY CopiesInit
<1>2. Claims \in [Owners -> [Mints -> Nat]]
  <2>1. \A o \in Owners, m \in Mints : Due(o, m) \in Nat
    BY <1>1, LiveIsGood
  <2>2. Claims = [o \in Owners |-> [m \in Mints |-> Due(o, m)]]
    BY DEF Claims, Due
  <2> QED BY <2>1, <2>2
<1>3. \A a \in ReceiptAddresses : ~SettleableNow(a)
  BY DEF ReceiptInit, SettleableNow
<1> QED BY <1>2, <1>3 DEF Promised!Init, Promised!Owners, Owners

(* Steps that change neither what is pending nor any claim are stutters.   *)
LEMMA Unnoticed ==
    ASSUME \A a \in ReceiptAddresses : Pending'[a] = Pending[a], \A o \in Owners : Untouched(o)
    PROVE  KeptIntents
<1>1. Pending' = Pending
  BY DEF Pending
<1>2. Claims' = Claims
  BY DEF Claims, Untouched, Due
<1> QED BY <1>1, <1>2 DEF KeptIntents, Promised!vars, Pending

(* An account closed onto a ledger is pending no more.                     *)
LEMMA CloseForgets ==
    ASSUME ReceiptTypeOK, NEW a \in ReceiptAddresses, NEW o, CloseOnto(a, o), UNCHANGED slot
    PROVE  \A b \in ReceiptAddresses : Pending'[b] = IF b = a THEN NoReceipt ELSE Pending[b]
<1>1. \A b \in ReceiptAddresses : receipts'[b] = IF b = a THEN NoReceipt ELSE receipts[b]
  BY DEF CloseOnto, ReceiptTypeOK
<1> QED BY <1>1 DEF Pending, SettleableNow

(* create_receipt proposes: what it overwrites was not pending.            *)
LEMMA AsPropose ==
    ASSUME ReceiptInvariant, NEW a \in ReceiptAddresses, NEW o \in Pdas, NEW t \in Terms,
           NEW S, CreateReceipt(a, o, t, S)
    PROVE  KeptIntents
<1> DEFINE new == [terms |-> t, authority |-> o, slot |-> slot]
<1>1. \A x \in Owners : Untouched(x)
  BY QuietEffect DEF CreateReceipt, ReceiptInvariant, Untouched
<1>2. Claims' = Claims
  BY <1>1 DEF Claims, Untouched, Due
<1>3. ~SettleableNow(a) /\ slot' = slot /\ new # NoReceipt /\ new.slot = slot /\ new.terms = t
  BY ReceiptsAssumption
     DEF CreateReceipt, Overwritable, SettleableNow, ReceiptInvariant, ReceiptTypeOK, Slot
<1>4. \A b \in ReceiptAddresses : receipts'[b] = IF b = a THEN new ELSE receipts[b]
  BY DEF CreateReceipt, ReceiptInvariant, ReceiptTypeOK
<1> HIDE DEF new
<1>5. Pending' = [Pending EXCEPT ![a] = t] /\ Pending[a] = NoReceipt
  BY <1>3, <1>4 DEF Pending, SettleableNow
<1>6. Promised!Propose(a)
  BY <1>2, <1>5 DEF Promised!Propose, Pending
<1> QED BY <1>6 DEF KeptIntents, Promised!Next

(* settle_receipt carries the intent out.                                  *)
LEMMA AsCarryOut ==
    ASSUME ReceiptInvariant, NEW a \in ReceiptAddresses, NEW S, SettleReceipt(a, S)
    PROVE  KeptIntents
<1> DEFINE t == receipts[a].terms
           n == Len(t.movements)
<1>1. /\ t \in Terms
      /\ \A o \in Owners, m \in Mints :
            Due(o, m)' + Promised!Given(t, o, m)[n] = Due(o, m) + Promised!Got(t, o, m)[n]
  BY SettleReceiptEffect DEF ReceiptInvariant
<1>2. SettleableNow(a) /\ OnePersonAtMost(t)
  BY DEF SettleReceipt
<1>3. \A b \in ReceiptAddresses : Pending'[b] = IF b = a THEN NoReceipt ELSE Pending[b]
  BY CloseForgets DEF SettleReceipt, ReceiptInvariant
<1>4. Pending' = [Pending EXCEPT ![a] = NoReceipt] /\ Pending[a] = t
  BY <1>2, <1>3 DEF Pending
<1>5. t # NoReceipt
  BY <1>1, ReceiptsAssumption
<1>6. \A o \in Owners, m \in Mints :
         Claims'[o][m] + Promised!Given(t, o, m)[n] = Claims[o][m] + Promised!Got(t, o, m)[n]
  BY <1>1 DEF Claims, Due
<1>7. \A v, w \in Promised!Parties(t) \cap Wallets : v = w
  BY <1>2 DEF OnePersonAtMost, Parties, Promised!Parties
<1> HIDE DEF t
<1>8. Promised!CarryOut(a)
  BY <1>4, <1>5, <1>6, <1>7 DEF Promised!CarryOut, Promised!Owners, Owners, Pending
<1> QED BY <1>8 DEF KeptIntents, Promised!Next

(* What is reaped was past its slot, and so not pending.                   *)
LEMMA AsReap ==
    ASSUME ReceiptInvariant, NEW a \in ReceiptAddresses, NEW o,
           Reapable(a, o), CloseOnto(a, o), UNCHANGED slot, UNCHANGED custodyVars
    PROVE  KeptIntents
<1>1. \A x \in Owners : Untouched(x)
  BY QuietEffect DEF ReceiptInvariant, Untouched
<1>2. receipts[a] # NoReceipt /\ receipts[a].slot < slot
  BY DEF Reapable
<1>3. receipts[a].slot \in Nat /\ slot \in Nat
  BY <1>2, ReceiptThere, ReceiptsAssumption DEF ReceiptInvariant, ReceiptTypeOK, Slot
<1>4. Pending[a] = NoReceipt
  BY <1>2, <1>3 DEF Pending, SettleableNow
<1>5. \A b \in ReceiptAddresses : Pending'[b] = Pending[b]
  BY <1>4, CloseForgets DEF ReceiptInvariant
<1> QED BY <1>1, <1>5, Unnoticed

(* The next slot leaves nothing pending.                                   *)
LEMMA AsForget ==
    ASSUME ReceiptInvariant, NextSlot
    PROVE  KeptIntents
<1>1. \A x \in Owners : Untouched(x)
  BY QuietEffect DEF NextSlot, ReceiptInvariant, Untouched
<1>2. Claims' = Claims
  BY <1>1 DEF Claims, Untouched, Due
<1>3. slot' = slot + 1 /\ slot \in Nat /\ receipts' = receipts
  BY ReceiptsAssumption DEF NextSlot, ReceiptInvariant, ReceiptTypeOK, Slot
<1>4. ASSUME NEW a \in ReceiptAddresses
      PROVE  ~SettleableNow(a)'
  <2>1. CASE receipts[a] = NoReceipt
    BY <1>3, <2>1 DEF SettleableNow
  <2>2. CASE receipts[a] # NoReceipt
    <3>1. receipts[a].slot \in Nat /\ receipts[a].slot <= slot
      BY <2>2, ReceiptThere DEF ReceiptInvariant, Recorded
    <3> QED BY <1>3, <3>1 DEF SettleableNow
  <2> QED BY <2>1, <2>2
<1>5. Pending' = [a \in ReceiptAddresses |-> NoReceipt]
  BY <1>4 DEF Pending
<1>6. Promised!Forget
  BY <1>2, <1>5 DEF Promised!Forget, Pending
<1> QED BY <1>6 DEF KeptIntents, Promised!Next

(* Any other instruction is a payment outside receipts.                    *)
LEMMA AsPay ==
    ASSUME ReceiptInvariant, [Next]_vars, UNCHANGED receiptVars
    PROVE  KeptIntents
<1>1. Pending' = Pending
  BY DEF receiptVars, Pending, SettleableNow
<1>2. CASE \A o \in Owners : Untouched(o)
  BY <1>1, <1>2, Unnoticed
<1>3. ASSUME NEW src \in Owners, NEW dst \in Owners, Paid(src, dst)
      PROVE  KeptIntents
  <2>1. ASSUME NEW o \in Owners \ {src, dst}
        PROVE  Claims'[o] = Claims[o]
    BY <1>3 DEF Paid, Untouched, Claims, Due
  <2>2. Promised!Pay(src, dst)
    BY <1>1, <1>3, <2>1 DEF Paid, Promised!Pay, Promised!Owners, Owners, Pending
  <2> QED BY <2>2 DEF KeptIntents, Promised!Next, Promised!Owners, Owners
<1> QED BY <1>2, <1>3, NextPays DEF ReceiptInvariant

(* Every step is one of the promise's, or none.                            *)
LEMMA IntentsStep == ReceiptInvariant /\ [RollupNext]_allVars => KeptIntents
<1> SUFFICES ASSUME ReceiptInvariant, [RollupNext]_allVars
             PROVE  KeptIntents
  OBVIOUS
<1>1. CASE Idle
  <2>1. ASSUME NEW t \in tasks, RunTask(t)
        PROVE  KeptIntents
    <3>1. t.receipt \in ReceiptAddresses
      BY DEF ReceiptInvariant, ReceiptTypeOK, Task
    <3>2. CASE Reapable(t.receipt, t.ledger)
      BY <2>1, <3>1, <3>2, AsReap DEF RunTask
    <3>3. CASE ~Reapable(t.receipt, t.ledger)
      <4>1. \A o \in Owners : Untouched(o)
        BY <2>1, QuietEffect DEF RunTask, ReceiptInvariant, Untouched
      <4>2. UNCHANGED receipts /\ UNCHANGED slot
        BY <2>1, <3>3 DEF RunTask
      <4>3. Pending' = Pending
        BY <4>2 DEF Pending, SettleableNow
      <4> QED BY <4>1, <4>3, Unnoticed
    <3> QED BY <3>2, <3>3
  <2>2. ASSUME NEW a \in ReceiptAddresses, NEW o \in Pdas, NEW S, ReapReceipt(a, o, S)
        PROVE  KeptIntents
    BY <2>2, AsReap DEF ReapReceipt
  <2> QED BY <1>1, <2>1, <2>2, AsPropose, AsForget DEF Idle
<1>2. CASE \E a \in ReceiptAddresses, S \in SignerSets : SettleReceipt(a, S)
  BY <1>2, AsCarryOut
<1>3. CASE [Next]_vars /\ UNCHANGED receiptVars
  BY <1>3, AsPay
<1> QED BY <1>1, <1>2, <1>3, StepKinds

(* Receipts implement intents: each is carried out at most once, whole,    *)
(* in the slot it was written in, and moves what its movements add up to   *)
(* between one person and programs (create_receipt.rs:83-89,               *)
(* settle_receipt.rs:34-38, 88-91, 118-131).                               *)
THEOREM IntentsKept == ReceiptSpec => KeepsIntents
<1>1. ReceiptInvariant /\ [RollupNext]_allVars => [Promised!Next]_(Promised!vars)
  BY IntentsStep DEF KeptIntents
<1> QED BY <1>1, IntentsInit, InvariantHolds, PTL DEF ReceiptSpec, KeepsIntents, Promised!Spec

----------------------------------------------------------------------------
(* Leave to list a new mint, directly or through a receipt.                *)
LeaveThrough(w) ==
    \/ w \in signed'
    \/ \E k \in signed', p \in Programs :
          /\ MayConsent(w, k, p)
          /\ \/ \E o \in signed' \cap Pdas : ProgramOf[o] = p
             \/ \E a \in ReceiptAddresses :
                   a.member = p /\ a.consenter = k /\ Consumed(a)

(* A receipt lists a new mint for its one person with that person's leave. *)
LEMMA SettleReceiptLists ==
    ASSUME ReceiptInvariant, NEW a \in ReceiptAddresses, NEW S, SettleReceipt(a, S),
           NEW w \in Wallets, NEW x \in Listed(w)', x \notin Listed(w)
    PROVE  LeaveThrough(w)
<1> DEFINE t == receipts[a].terms
           n == Len(t.movements)
<1>1. /\ t \in Terms /\ n \in Nat /\ WellFormed(t) /\ Distinct(t)
      /\ CanApply(t) /\ rollup' = Applied(t) /\ Fetchable(t)
      /\ UNCHANGED <<base, where, returning>>
      /\ \A o \in Parties(t) : o \in Owners /\ OnRollup(o)
  BY Settling DEF ReceiptInvariant
<1>2. /\ PersonConsents(a, t) /\ a.consenter \in signed' /\ a.member \in Programs
      /\ Copies /\ Copies' /\ w \in Owners
  BY Constants, SettleReceiptEffect DEF SettleReceipt, ReceiptAddresses, ReceiptInvariant
<1>3. Consumed(a)
  BY DEF SettleReceipt, SettleableNow, Consumed, CloseOnto, ReceiptInvariant, ReceiptTypeOK
<1> HIDE DEF t
<1>4. /\ \A p \in 1..Len(t.owners) : rollup'[t.owners[p]] = Runs(t)[n][p]
      /\ \A o \in Owners \ Parties(t) : rollup'[o] = rollup[o]
  BY <1>1, AppliedStores
<1>5. w \in Parties(t)
  <2>1. CASE w \notin Parties(t)
    <3>1. Live(w)' = Live(w)
      BY <1>1, <1>2, <1>4, <2>1 DEF Live
    <3> QED BY <1>2, <3>1, SameLive
  <2> QED BY <2>1
<1>6. where[w] # Basenet /\ base[w].capacity > 0 /\ where'[w] = where[w]
  BY <1>1, <1>2, <1>5, PartyThere
<1>7. PICK p \in 1..Len(t.owners) : t.owners[p] = w
  BY <1>5 DEF Parties
<1>8. x \in Mints \ {Sol} /\ Has(Runs(t)[n][p], x) /\ ~Has(rollup[w], x)
  BY <1>4, <1>6, <1>7 DEF Listed, Live, Exists
<1>9. ListsAtMost(t, n)
  BY <1>1, ListsAtLast
<1>10. GainsSlot(w, t)
  BY <1>7, <1>8, <1>9 DEF ListsAtMost, GainsSlot
<1>11. MayConsent(w, a.consenter, a.member)
  BY <1>2, <1>5, <1>10 DEF PersonConsents
<1> QED BY <1>2, <1>3, <1>11 DEF LeaveThrough

(* Whose table takes a new mint gave leave.                                *)
LEMMA ListThroughStep ==
    ASSUME ReceiptInvariant, [RollupNext]_allVars, NEW w \in Wallets
    PROVE  Listed(w)' \subseteq Listed(w) \/ LeaveThrough(w)
<1>1. CASE Idle
  <2>1. UNCHANGED <<base, rollup, where>>
    BY <1>1 DEF Idle, CreateReceipt, ReapReceipt, RunTask, NextSlot, custodyVars
  <2> QED BY <2>1 DEF Listed, Exists, Live
<1>2. CASE \E a \in ReceiptAddresses, S \in SignerSets : SettleReceipt(a, S)
  BY <1>2, SettleReceiptLists
<1>3. CASE [Next]_vars
  <2>1. Listed(w)' \subseteq Listed(w) \/ LeaveToList(w)
    BY <1>3, ListStep DEF ReceiptInvariant
  <2>2. \A o \in Pdas : ProgramOf[o] \in Programs
    BY AddressesAssumption
  <2> QED BY <2>1, <2>2 DEF LeaveToList, LeaveThrough
<1> QED BY <1>1, <1>2, <1>3, StepKinds

(* A wallet's table takes a new mint only with leave for the program that  *)
(* pays: a receipt's payouts need it as settle's do, on the table as it was*)
(* when the receipt began (settle_receipt.rs:97-112).                      *)
THEOREM SlotsNeedConsent == ReceiptSpec => SlotNeedsConsent
<1>1. ReceiptInvariant /\ [RollupNext]_allVars =>
        [\A w \in Wallets : Listed(w)' \subseteq Listed(w)
            \/ w \in signed'
            \/ \E k \in signed', p \in Programs :
                  /\ MayConsent(w, k, p)
                  /\ \/ \E o \in signed' \cap Pdas : ProgramOf[o] = p
                     \/ \E a \in ReceiptAddresses :
                           a.member = p /\ a.consenter = k /\ Consumed(a)]_allVars
  BY ListThroughStep DEF LeaveThrough
<1> QED BY <1>1, InvariantHolds, PTL DEF ReceiptSpec, SlotNeedsConsent

----------------------------------------------------------------------------
(* An amount counted at one place is so many units.                        *)
LEMMA UnitsHere ==
    ASSUME NEW x, NEW i \in Nat, NEW j \in Nat, i <= j
    PROVE  /\ IsFiniteSet({x} \X ((i + 1)..j))
           /\ Cardinality({x} \X ((i + 1)..j)) = j - i
<1> DEFINE R == (i + 1)..j
<1>1. IsFiniteSet(R) /\ Cardinality(R) = j - i
  <2>1. i + 1 \in Int /\ j \in Int
    OBVIOUS
  <2>2. /\ IsFiniteSet((i + 1)..j)
        /\ Cardinality((i + 1)..j) = IF i + 1 > j THEN 0 ELSE j - (i + 1) + 1
    BY <2>1, FS_Interval
  <2> QED BY <2>2
<1>2. IsFiniteSet({x}) /\ Cardinality({x}) = 1
  BY FS_Singleton
<1> HIDE DEF R
<1>3. IsFiniteSet({x} \X R) /\ Cardinality({x} \X R) = Cardinality({x}) * Cardinality(R)
  <2>1. \A S, T : IsFiniteSet(S) /\ IsFiniteSet(T) =>
           IsFiniteSet(S \X T) /\ Cardinality(S \X T) = Cardinality(S) * Cardinality(T)
    BY FS_Product
  <2> QED BY <1>1, <1>2, <2>1
<1>4. Cardinality({x}) * Cardinality(R) = j - i
  BY <1>1, <1>2
<1> QED BY <1>3, <1>4 DEF R

(* Where nothing differs the units are the same.                           *)
LEMMA UnitsSame ==
    ASSUME NEW f, NEW h, NEW S, \A y \in S : h[y] = f[y]
    PROVE  UnitsAt(h, S) = UnitsAt(f, S)
BY DEF UnitsAt

(* Counting more at one place adds the difference.                         *)
LEMMA UnitsRaised ==
    ASSUME NEW f, NEW h, NEW S, NEW x \in S, IsFiniteSet(UnitsAt(f, S)),
           f[x] \in Nat, h[x] \in Nat, f[x] <= h[x],
           \A y \in S \ {x} : h[y] = f[y]
    PROVE  /\ IsFiniteSet(UnitsAt(h, S))
           /\ Cardinality(UnitsAt(h, S)) = Cardinality(UnitsAt(f, S)) + (h[x] - f[x])
<1> DEFINE more == {x} \X ((f[x] + 1)..h[x])
<1>1. UnitsAt(h, S) = UnitsAt(f, S) \cup more
  <2>1. ASSUME NEW y \in S
        PROVE  {y} \X (1..h[y]) = ({y} \X (1..f[y])) \cup (IF y = x THEN more ELSE {})
    <3>1. CASE y = x
      <4>1. 1..h[x] = (1..f[x]) \cup ((f[x] + 1)..h[x])
        OBVIOUS
      <4> QED BY <3>1, <4>1
    <3>2. CASE y # x
      BY <3>2
    <3> QED BY <3>1, <3>2
  <2> HIDE DEF more
  <2> QED BY <2>1 DEF UnitsAt
<1>2. IsFiniteSet(more) /\ Cardinality(more) = h[x] - f[x]
  BY UnitsHere
<1>3. UnitsAt(f, S) \cap more = {}
  <2> SUFFICES ASSUME NEW u \in UnitsAt(f, S), u \in more
               PROVE  FALSE
    OBVIOUS
  <2>1. PICK y \in S : u \in {y} \X (1..f[y])
    BY DEF UnitsAt
  <2>2. u[1] = y /\ u[2] \in 1..f[y] /\ u[1] = x /\ u[2] \in (f[x] + 1)..h[x]
    BY <2>1
  <2> QED BY <2>2
<1> HIDE DEF more
<1>4. Cardinality(UnitsAt(f, S) \cap more) = 0
  BY <1>3, FS_EmptySet
<1>5. /\ IsFiniteSet(UnitsAt(f, S) \cup more)
      /\ Cardinality(UnitsAt(f, S) \cup more) =
            Cardinality(UnitsAt(f, S)) + Cardinality(more) - Cardinality(UnitsAt(f, S) \cap more)
  BY <1>2, FS_Union
<1>6. Cardinality(UnitsAt(f, S)) \in Nat
  BY FS_CardinalityType
<1> QED BY <1>1, <1>2, <1>4, <1>5, <1>6

(* Counting otherwise at one place changes the count by the difference.    *)
LEMMA UnitsChanged ==
    ASSUME NEW f, NEW h, NEW S, NEW x \in S, IsFiniteSet(UnitsAt(f, S)),
           f[x] \in Nat, h[x] \in Nat,
           \A y \in S \ {x} : h[y] = f[y]
    PROVE  /\ IsFiniteSet(UnitsAt(h, S))
           /\ Cardinality(UnitsAt(h, S)) = Cardinality(UnitsAt(f, S)) + h[x] - f[x]
<1>1. Cardinality(UnitsAt(f, S)) \in Nat
  BY FS_CardinalityType
<1>2. CASE f[x] <= h[x]
  BY <1>1, <1>2, UnitsRaised
<1>3. CASE ~(f[x] <= h[x])
  <2>1. h[x] <= f[x]
    BY <1>3
  <2>2. UnitsAt(h, S) \subseteq UnitsAt(f, S)
    <3>1. ASSUME NEW y \in S
          PROVE  {y} \X (1..h[y]) \subseteq {y} \X (1..f[y])
      <4>1. CASE y = x
        BY <2>1, <4>1
      <4>2. CASE y # x
        BY <4>2
      <4> QED BY <4>1, <4>2
    <3> QED BY <3>1 DEF UnitsAt
  <2>3. IsFiniteSet(UnitsAt(h, S))
    BY <2>2, FS_Subset
  <2>4. \A y \in S \ {x} : f[y] = h[y]
    OBVIOUS
  <2>5. Cardinality(UnitsAt(f, S)) = Cardinality(UnitsAt(h, S)) + (f[x] - h[x])
    BY <2>1, <2>3, <2>4, UnitsRaised
  <2>6. Cardinality(UnitsAt(h, S)) \in Nat
    BY <2>3, FS_CardinalityType
  <2> QED BY <2>3, <2>5, <2>6
<1> QED BY <1>2, <1>3

(* Receipts were asked for by a program with a ledger of its own, and what *)
(* it fronts is counted in finitely many units.                            *)
Sponsored ==
    \A a \in ReceiptAddresses : receipts[a] # NoReceipt =>
        ProgramOf[receipts[a].authority] = a.member
Counted ==
    \A g \in Programs :
        /\ IsFiniteSet(UnitsAt(lamports, PdasOf(g)))
        /\ IsFiniteSet(UnitsAt(RentAt, ReceiptsOf(g)))

(* Lamports that pass between one receipt's address and one ledger of its  *)
(* program leave every program's rent as it was.                           *)
LEMMA RentPasses ==
    ASSUME ReceiptTypeOK, Counted, NEW a \in ReceiptAddresses, NEW o \in Pdas,
           ProgramOf[o] = a.member, lamports' \in [Pdas -> Nat],
           RentHeld(a)' \in Nat,
           lamports'[o] = lamports[o] + RentHeld(a) - RentHeld(a)',
           \A p \in Pdas \ {o} : lamports'[p] = lamports[p],
           \A b \in ReceiptAddresses \ {a} : receipts'[b] = receipts[b]
    PROVE  Counted' /\ \A g \in Programs : ProgramRent(g)' = ProgramRent(g)
<1> SUFFICES ASSUME NEW g \in Programs
             PROVE  /\ IsFiniteSet(UnitsAt(lamports', PdasOf(g)))
                    /\ IsFiniteSet(UnitsAt(RentAt', ReceiptsOf(g)))
                    /\ ProgramRent(g)' = ProgramRent(g)
  BY DEF Counted, PdasOf, ReceiptsOf, ReceiptAddresses, UnitsAt
<1>1. ProgramRent(g)' = Cardinality(UnitsAt(lamports', PdasOf(g))) +
                        Cardinality(UnitsAt(RentAt', ReceiptsOf(g)))
  BY DEF ProgramRent, PdasOf, ReceiptsOf, ReceiptAddresses, UnitsAt
<1>2. /\ IsFiniteSet(UnitsAt(lamports, PdasOf(g)))
      /\ IsFiniteSet(UnitsAt(RentAt, ReceiptsOf(g)))
  BY DEF Counted
<1>3. /\ RentAt[a] = RentHeld(a) /\ RentAt'[a] = RentHeld(a)'
      /\ \A b \in ReceiptAddresses \ {a} : RentAt'[b] = RentAt[b]
  BY DEF RentAt, RentHeld, ReceiptAddresses
<1>4. RentAt[a] \in Nat /\ RentAt'[a] \in Nat /\ lamports[o] \in Nat /\ lamports'[o] \in Nat
  BY <1>3, RentNatural DEF ReceiptTypeOK
<1>5. CASE a.member = g
  <2>1. o \in PdasOf(g) /\ a \in ReceiptsOf(g)
    BY <1>5 DEF PdasOf, ReceiptsOf
  <2>2. /\ IsFiniteSet(UnitsAt(lamports', PdasOf(g)))
        /\ Cardinality(UnitsAt(lamports', PdasOf(g))) =
              Cardinality(UnitsAt(lamports, PdasOf(g))) + lamports'[o] - lamports[o]
    <3>1. \A p \in PdasOf(g) \ {o} : lamports'[p] = lamports[p]
      BY DEF PdasOf
    <3> QED BY <1>2, <1>4, <2>1, <3>1, UnitsChanged
  <2>3. /\ IsFiniteSet(UnitsAt(RentAt', ReceiptsOf(g)))
        /\ Cardinality(UnitsAt(RentAt', ReceiptsOf(g))) =
              Cardinality(UnitsAt(RentAt, ReceiptsOf(g))) + RentAt'[a] - RentAt[a]
    <3>1. \A b \in ReceiptsOf(g) \ {a} : RentAt'[b] = RentAt[b]
      BY <1>3 DEF ReceiptsOf
    <3> QED BY <1>2, <1>4, <2>1, <3>1, UnitsChanged
  <2>4. /\ Cardinality(UnitsAt(lamports, PdasOf(g))) \in Nat
        /\ Cardinality(UnitsAt(RentAt, ReceiptsOf(g))) \in Nat
    BY <1>2, FS_CardinalityType
  <2>5. lamports'[o] = lamports[o] + RentAt[a] - RentAt'[a]
    BY <1>3
  <2> QED BY <1>1, <1>4, <2>2, <2>3, <2>4, <2>5 DEF ProgramRent
<1>6. CASE a.member # g
  <2>1. UnitsAt(lamports', PdasOf(g)) = UnitsAt(lamports, PdasOf(g))
    <3>1. \A p \in PdasOf(g) : lamports'[p] = lamports[p]
      BY <1>6 DEF PdasOf
    <3> QED BY <3>1, UnitsSame
  <2>2. UnitsAt(RentAt', ReceiptsOf(g)) = UnitsAt(RentAt, ReceiptsOf(g))
    <3>1. \A b \in ReceiptsOf(g) : RentAt'[b] = RentAt[b]
      BY <1>3, <1>6 DEF ReceiptsOf
    <3> QED BY <3>1, UnitsSame
  <2> QED BY <1>1, <1>2, <2>1, <2>2 DEF ProgramRent
<1> QED BY <1>5, <1>6

(* Where receipts and lamports stay, rent does.                            *)
LEMMA RentRests ==
    ASSUME Sponsored, Counted, UNCHANGED <<receipts, lamports>>
    PROVE  /\ Sponsored' /\ Counted'
           /\ \A g \in Programs : ProgramRent(g)' = ProgramRent(g)
BY DEF Sponsored, Counted, ProgramRent, RentAt, RentHeld, UnitsAt, PdasOf, ReceiptsOf,
       ReceiptAddresses

(* An account closed onto a ledger of its program.                         *)
LEMMA ClosedInProgram ==
    ASSUME ReceiptTypeOK, Sponsored, Counted, NEW a \in ReceiptAddresses, NEW o \in Pdas,
           ProgramOf[o] = a.member, CloseOnto(a, o)
    PROVE  /\ Sponsored' /\ Counted'
           /\ \A g \in Programs : ProgramRent(g)' = ProgramRent(g)
<1>1. RentHeld(a) \in Nat /\ lamports[o] \in Nat
  BY RentNatural DEF ReceiptTypeOK
<1>2. /\ \A b \in ReceiptAddresses : receipts'[b] = IF b = a THEN NoReceipt ELSE receipts[b]
      /\ \A p \in Pdas : lamports'[p] = IF p = o THEN lamports[o] + RentHeld(a) ELSE lamports[p]
      /\ lamports' \in [Pdas -> Nat]
  BY <1>1 DEF CloseOnto, ReceiptTypeOK
<1>3. RentHeld(a)' = 0
  BY <1>2 DEF RentHeld
<1>4. lamports'[o] = lamports[o] + RentHeld(a) - RentHeld(a)'
  BY <1>1, <1>2, <1>3
<1>5. Counted' /\ \A g \in Programs : ProgramRent(g)' = ProgramRent(g)
  BY <1>2, <1>3, <1>4, RentPasses
<1>6. Sponsored'
  BY <1>2 DEF Sponsored, ReceiptAddresses
<1> QED BY <1>5, <1>6

(* A receipt written against a ledger of its program, over debris or not.  *)
LEMMA CreatedInProgram ==
    ASSUME ReceiptTypeOK, Sponsored, Counted, NEW a \in ReceiptAddresses, NEW o \in Pdas,
           NEW t \in Terms, NEW S, CreateReceipt(a, o, t, S)
    PROVE  /\ Sponsored' /\ Counted'
           /\ \A g \in Programs : ProgramRent(g)' = ProgramRent(g)
<1> DEFINE new == [terms |-> t, authority |-> o, slot |-> slot]
<1>1. RentHeld(a) \in Nat /\ lamports[o] \in Nat /\ Rent(t) \in Nat
  BY RentNatural DEF ReceiptTypeOK
<1>2. /\ \A b \in ReceiptAddresses : receipts'[b] = IF b = a THEN new ELSE receipts[b]
      /\ lamports' = [lamports EXCEPT ![o] = @ + RentHeld(a) - Rent(t)]
      /\ Rent(t) <= lamports[o] + RentHeld(a)
      /\ ProgramOf[o] = a.member
  <2> HIDE DEF new
  <2> QED BY DEF CreateReceipt, CanFront, ReceiptTypeOK, VerifyPdaOwner, new
<1>3. new # NoReceipt /\ new.terms = t /\ new.authority = o
  <2>1. new \in [terms : Terms, authority : Pdas, slot : 0..SlotBound]
    BY DEF ReceiptTypeOK, Slot
  <2> QED BY <2>1, ReceiptsAssumption
<1> HIDE DEF new
<1>4. lamports[o] + RentHeld(a) - Rent(t) \in Nat
  BY <1>1, <1>2
<1>5. /\ lamports' \in [Pdas -> Nat]
      /\ lamports'[o] = lamports[o] + RentHeld(a) - Rent(t)
      /\ \A p \in Pdas \ {o} : lamports'[p] = lamports[p]
  BY <1>2, <1>4 DEF ReceiptTypeOK
<1>6. RentHeld(a)' = Rent(t)
  <2>1. receipts'[a] = new
    BY <1>2
  <2> QED BY <1>3, <2>1 DEF RentHeld, Rent
<1>7. \A b \in ReceiptAddresses \ {a} : receipts'[b] = receipts[b]
  BY <1>2
<1>8. Counted' /\ \A g \in Programs : ProgramRent(g)' = ProgramRent(g)
  BY <1>1, <1>2, <1>5, <1>6, <1>7, RentPasses
<1>9. Sponsored'
  BY <1>2, <1>3 DEF Sponsored, ReceiptAddresses
<1> QED BY <1>8, <1>9

(* No step moves rent from one program to another.                         *)
LEMMA RentStep ==
    ASSUME ReceiptInvariant, Sponsored, Counted, [RollupNext]_allVars
    PROVE  /\ Sponsored' /\ Counted'
           /\ \A g \in Programs : ProgramRent(g)' = ProgramRent(g)
<1> USE DEF ReceiptInvariant
<1>1. ASSUME NEW a \in ReceiptAddresses, NEW o \in Pdas, NEW t \in Terms, NEW S,
             CreateReceipt(a, o, t, S)
      PROVE  /\ Sponsored' /\ Counted'
             /\ \A g \in Programs : ProgramRent(g)' = ProgramRent(g)
  BY <1>1, CreatedInProgram
<1>2. ASSUME NEW a \in ReceiptAddresses, receipts[a] # NoReceipt,
             CloseOnto(a, receipts[a].authority)
      PROVE  /\ Sponsored' /\ Counted'
             /\ \A g \in Programs : ProgramRent(g)' = ProgramRent(g)
  <2>1. receipts[a].authority \in Pdas /\ ProgramOf[receipts[a].authority] = a.member
    BY <1>2, ReceiptThere DEF Sponsored
  <2> QED BY <1>2, <2>1, ClosedInProgram
<1>3. ASSUME NEW a \in ReceiptAddresses, NEW S, SettleReceipt(a, S)
      PROVE  receipts[a] # NoReceipt /\ CloseOnto(a, receipts[a].authority)
  BY <1>3 DEF SettleReceipt, SettleableNow
<1>4. ASSUME NEW a \in ReceiptAddresses, NEW o \in Pdas, NEW S, ReapReceipt(a, o, S)
      PROVE  receipts[a] # NoReceipt /\ CloseOnto(a, receipts[a].authority)
  BY <1>4 DEF ReapReceipt, Reapable
<1>5. ASSUME NEW t \in tasks, RunTask(t)
      PROVE  \/ UNCHANGED <<receipts, lamports>>
             \/ /\ t.receipt \in ReceiptAddresses /\ receipts[t.receipt] # NoReceipt
                /\ CloseOnto(t.receipt, receipts[t.receipt].authority)
  BY <1>5 DEF RunTask, Reapable, ReceiptTypeOK, Task
<1>6. NextSlot \/ (Next /\ UNCHANGED receiptVars) \/ UNCHANGED allVars =>
         UNCHANGED <<receipts, lamports>>
  BY DEF NextSlot, receiptVars, allVars
<1>7. UNCHANGED <<receipts, lamports>> =>
         /\ Sponsored' /\ Counted'
         /\ \A g \in Programs : ProgramRent(g)' = ProgramRent(g)
  BY RentRests
<1> QED BY <1>1, <1>2, <1>3, <1>4, <1>5, <1>6, <1>7 DEF RollupNext, ReceiptNext

(* At first every ledger has the float, and no address holds anything.     *)
LEMMA RentInit == ReceiptInit => Sponsored /\ Counted /\ RentStaysInProgram
<1> SUFFICES ASSUME ReceiptInit
             PROVE  Sponsored /\ Counted /\ RentStaysInProgram
  OBVIOUS
<1>1. Sponsored
  BY DEF ReceiptInit, Sponsored
<1>2. ASSUME NEW g \in Programs
      PROVE  /\ IsFiniteSet(UnitsAt(lamports, PdasOf(g)))
             /\ Cardinality(UnitsAt(lamports, PdasOf(g))) = Float * Cardinality(PdasOf(g))
  <2>1. UnitsAt(lamports, PdasOf(g)) = PdasOf(g) \X (1..Float)
    <3>1. \A o \in PdasOf(g) : lamports[o] = Float
      BY DEF ReceiptInit, PdasOf
    <3> QED BY <3>1 DEF UnitsAt
  <2>2. IsFiniteSet(PdasOf(g))
    <3>1. PdasOf(g) \in SUBSET Owners
      BY DEF PdasOf, Owners
    <3> QED BY <3>1, AddressesAssumption, FS_Subset
  <2>3. IsFiniteSet(1..Float) /\ Cardinality(1..Float) = Float
    <3>1. Float \in Nat
      BY ReceiptsAssumption
    <3>2. /\ IsFiniteSet(1..Float)
          /\ Cardinality(1..Float) = IF 1 > Float THEN 0 ELSE Float - 1 + 1
      BY <3>1, FS_Interval
    <3> QED BY <3>1, <3>2
  <2>4. /\ IsFiniteSet(PdasOf(g) \X (1..Float))
        /\ Cardinality(PdasOf(g) \X (1..Float)) = Cardinality(PdasOf(g)) * Cardinality(1..Float)
    BY <2>2, <2>3, FS_Product
  <2>5. Cardinality(PdasOf(g)) \in Nat /\ Float \in Nat
    BY <2>2, FS_CardinalityType, ReceiptsAssumption
  <2> QED BY <2>1, <2>3, <2>4, <2>5
<1>3. ASSUME NEW g \in Programs
      PROVE  UnitsAt(RentAt, ReceiptsOf(g)) = {}
  <2>1. \A a \in ReceiptsOf(g) : RentAt[a] = 0
    BY DEF ReceiptInit, RentAt, RentHeld, ReceiptsOf
  <2> QED BY <2>1 DEF UnitsAt
<1>4. IsFiniteSet({}) /\ Cardinality({}) = 0
  BY FS_EmptySet
<1>5. Counted
  BY <1>2, <1>3, <1>4 DEF Counted
<1>6. ASSUME NEW g \in Programs
      PROVE  ProgramRent(g) = Float * Cardinality(PdasOf(g))
  <2>1. Cardinality(UnitsAt(lamports, PdasOf(g))) \in Nat
    BY <1>2, FS_CardinalityType
  <2> QED BY <1>2, <1>3, <1>4, <2>1 DEF ProgramRent
<1> QED BY <1>1, <1>5, <1>6 DEF RentStaysInProgram

(* The rent a program's ledgers fronted is in those ledgers or in receipts *)
(* the program asked for, and adds up to what they began with: settling,   *)
(* reusing and reaping a receipt move none of it to another program        *)
(* (create_receipt.rs:106-110, reap_receipt.rs:38-41).                     *)
THEOREM RentStays == ReceiptSpec => []RentStaysInProgram
<1> DEFINE RentInvariant == Sponsored /\ Counted /\ RentStaysInProgram
<1>1. Init /\ ReceiptInit => RentInvariant
  BY RentInit
<1>2. ReceiptInvariant /\ RentInvariant /\ [RollupNext]_allVars => RentInvariant'
  <2> SUFFICES ASSUME ReceiptInvariant, RentInvariant, [RollupNext]_allVars
               PROVE  RentInvariant'
    OBVIOUS
  <2>1. /\ Sponsored' /\ Counted'
        /\ \A g \in Programs : ProgramRent(g)' = ProgramRent(g)
    BY RentStep
  <2>2. ASSUME NEW g \in Programs
        PROVE  ProgramRent(g)' = Float * Cardinality(PdasOf(g))
    BY <2>1 DEF RentStaysInProgram
  <2> QED BY <2>1, <2>2 DEF RentStaysInProgram, PdasOf
<1> QED BY <1>1, <1>2, InvariantHolds, PTL DEF ReceiptSpec

=============================================================================
