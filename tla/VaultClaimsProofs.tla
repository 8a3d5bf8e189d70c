-------------------------- MODULE VaultClaimsProofs --------------------------
(***************************************************************************)
(* The abstract vault is solvent, for every finite set of owners.          *)
(***************************************************************************)
EXTENDS VaultClaims, FiniteSetTheorems, TLAPS

(* The owners are finitely many and amounts are bounded, as on chain.      *)
Finite == IsFiniteSet(Owners) /\ MaxU64 \in Nat

Book == [Owners -> [Mints -> Amount]]

(* The units owed on one mint are finitely many.                           *)
LEMMA UnitsFinite ==
    ASSUME Finite, NEW c, NEW m
    PROVE  IsFiniteSet(Units(c, m)) /\ Total(c, m) \in Nat
<1>1. IsFiniteSet(1..MaxU64)
  BY FS_Interval DEF Finite
<1>2. IsFiniteSet(Owners \X (1..MaxU64))
  BY <1>1, FS_Product DEF Finite
<1>3. Units(c, m) \in SUBSET (Owners \X (1..MaxU64))
  BY DEF Units
<1>4. IsFiniteSet(Units(c, m))
  BY <1>2, <1>3, FS_Subset
<1> QED BY <1>4, FS_CardinalityType DEF Total

(* Equal claims in a mint make equal totals.                               *)
LEMMA TotalSame ==
    ASSUME NEW c, NEW d, NEW m, \A o \in Owners : d[o][m] = c[o][m]
    PROVE  Total(d, m) = Total(c, m)
<1>1. Units(d, m) = Units(c, m)
  BY DEF Units
<1> QED BY <1>1 DEF Total

(* Raising one owner's claim raises the total by as much.                  *)
LEMMA TotalRaised ==
    ASSUME Finite, NEW c \in Book, NEW d \in Book, NEW o \in Owners, NEW m \in Mints,
           NEW a \in Nat,
           d[o][m] = c[o][m] + a,
           \A x \in Owners \ {o} : d[x][m] = c[x][m]
    PROVE  Total(d, m) = Total(c, m) + a
<1> DEFINE new == {o} \X ((c[o][m] + 1)..(c[o][m] + a))
<1>1. /\ c[o][m] \in Nat
      /\ c[o][m] + a <= MaxU64
      /\ MaxU64 \in Nat
  <2>1. c[o][m] \in Amount /\ d[o][m] \in Amount
    BY DEF Book
  <2> QED BY <2>1 DEF Amount, Finite
<1>2. Units(d, m) = Units(c, m) \cup new
  <2>1. ASSUME NEW u \in Units(d, m)
        PROVE  u \in Units(c, m) \cup new
    <3>1. u \in Owners \X (1..MaxU64) /\ u[2] <= d[u[1]][m]
      BY <2>1 DEF Units
    <3>2. CASE u[1] = o
      <4>1. CASE u[2] <= c[o][m]
        BY <3>1, <3>2, <4>1 DEF Units
      <4>2. CASE ~(u[2] <= c[o][m])
        <5>1. u[2] \in (c[o][m] + 1)..(c[o][m] + a)
          BY <3>1, <3>2, <4>2, <1>1
        <5> QED BY <3>1, <3>2, <5>1
      <4> QED BY <4>1, <4>2
    <3>3. CASE u[1] # o
      BY <3>1, <3>3 DEF Units
    <3> QED BY <3>2, <3>3
  <2>2. ASSUME NEW u \in Units(c, m)
        PROVE  u \in Units(d, m)
    <3>1. u \in Owners \X (1..MaxU64) /\ u[2] <= c[u[1]][m]
      BY <2>2 DEF Units
    <3>2. u[2] <= d[u[1]][m]
      <4>1. CASE u[1] = o
        BY <3>1, <4>1, <1>1
      <4>2. CASE u[1] # o
        BY <3>1, <4>2
      <4> QED BY <4>1, <4>2
    <3> QED BY <3>1, <3>2 DEF Units
  <2>3. ASSUME NEW u \in new
        PROVE  u \in Units(d, m)
    <3>1. u \in Owners \X (1..MaxU64) /\ u[1] = o /\ u[2] <= d[o][m]
      BY <2>3, <1>1
    <3> QED BY <3>1 DEF Units
  <2> QED BY <2>1, <2>2, <2>3
<1>3. Units(c, m) \cap new = {}
  BY <1>1 DEF Units
<1>4. IsFiniteSet(new) /\ Cardinality(new) = a
  <2>1. IsFiniteSet({o}) /\ Cardinality({o}) = 1
    BY FS_Singleton
  <2>2. /\ IsFiniteSet((c[o][m] + 1)..(c[o][m] + a))
        /\ Cardinality((c[o][m] + 1)..(c[o][m] + a)) = a
    <3>1. c[o][m] + 1 \in Int /\ c[o][m] + a \in Int
      BY <1>1
    <3>2. /\ IsFiniteSet((c[o][m] + 1)..(c[o][m] + a))
          /\ Cardinality((c[o][m] + 1)..(c[o][m] + a)) =
                IF c[o][m] + 1 > c[o][m] + a THEN 0
                ELSE (c[o][m] + a) - (c[o][m] + 1) + 1
      BY <3>1, FS_Interval
    <3> QED BY <3>2, <1>1
  <2>3. \A S, T : IsFiniteSet(S) /\ IsFiniteSet(T) =>
           IsFiniteSet(S \X T) /\ Cardinality(S \X T) = Cardinality(S) * Cardinality(T)
    BY FS_Product
  <2>4. IsFiniteSet(new) /\ Cardinality(new) = Cardinality({o}) * a
    <3> DEFINE R == (c[o][m] + 1)..(c[o][m] + a)
    <3>1. new = {o} \X R /\ IsFiniteSet(R) /\ Cardinality(R) = a
      BY <2>2
    <3> HIDE DEF R, new
    <3> QED BY <2>1, <2>3, <3>1
  <2> HIDE DEF new
  <2>5. Cardinality(new) = 1 * a
    BY <2>1, <2>4
  <2> QED BY <2>4, <2>5
<1> HIDE DEF new
<1>5. IsFiniteSet(Units(c, m)) /\ Total(c, m) \in Nat
  BY UnitsFinite
<1>6. Cardinality(Units(c, m) \cap new) = 0
  BY <1>3, FS_EmptySet
<1>7. Cardinality(Units(d, m)) = Cardinality(Units(c, m)) + Cardinality(new) - 0
  <2>1. Cardinality(Units(c, m) \cup new) =
           Cardinality(Units(c, m)) + Cardinality(new) - Cardinality(Units(c, m) \cap new)
    BY <1>4, <1>5, FS_Union
  <2> QED BY <1>2, <1>6, <2>1
<1> QED BY <1>4, <1>5, <1>7 DEF Total

(* A book where nobody is owed anything totals nothing.                    *)
LEMMA TotalNothing ==
    ASSUME NEW c, NEW m, \A o \in Owners : c[o][m] = 0
    PROVE  Total(c, m) = 0
<1>1. Units(c, m) = {}
  BY DEF Units
<1> QED BY <1>1, FS_EmptySet DEF Total

(* Lowering one owner's claim lowers the total by as much.                 *)
LEMMA LoweredTotal ==
    ASSUME Finite, NEW c \in Book, NEW d \in Book, NEW o \in Owners, NEW m \in Mints,
           NEW a \in Nat,
           d[o][m] = c[o][m] - a, a <= c[o][m],
           \A x \in Owners \ {o} : d[x][m] = c[x][m]
    PROVE  Total(d, m) = Total(c, m) - a
<1>1. c[o][m] \in Nat /\ d[o][m] \in Nat
  BY DEF Book, Amount, Finite
<1>2. c[o][m] = d[o][m] + a
  BY <1>1
<1>3. Total(c, m) = Total(d, m) + a
  BY <1>2, TotalRaised
<1>4. Total(c, m) \in Nat /\ Total(d, m) \in Nat
  BY UnitsFinite
<1> QED BY <1>3, <1>4

(* The abstract vault's claims and reserves keep their types.              *)
LEMMA TypeInvariant == Finite /\ TypeOK /\ [Next]_vars => TypeOK'
<1> SUFFICES ASSUME Finite, TypeOK, [Next]_vars
             PROVE  TypeOK'
  OBVIOUS
<1> USE DEF TypeOK, Finite
<1>1. ASSUME NEW w \in Wallets, NEW m \in Mints, NEW a \in Amount, Deposit(w, m, a)
      PROVE  TypeOK'
  <2>1. claims[w][m] + a \in Amount
    BY <1>1 DEF Deposit, Amount, Owners
  <2>2. reserve[m] + a \in Nat
    BY <1>1 DEF Amount
  <2> QED BY <1>1, <2>1, <2>2 DEF Deposit
<1>2. ASSUME NEW w \in Wallets, NEW m \in Mints, NEW a \in Amount, Withdraw(w, m, a)
      PROVE  TypeOK'
  <2>1. claims[w][m] - a \in Amount
    BY <1>2 DEF Withdraw, Amount, Owners
  <2>2. reserve[m] - a \in Nat
    BY <1>2 DEF Withdraw, Amount
  <2> QED BY <1>2, <2>1, <2>2 DEF Withdraw
<1>3. ASSUME NEW src \in Owners, NEW dst \in Owners, NEW m \in Mints, NEW a \in Amount,
             Move(src, dst, m, a)
      PROVE  TypeOK'
  <2>1. claims[src][m] - a \in Amount /\ claims[dst][m] + a \in Amount
    BY <1>3 DEF Move, Amount
  <2> QED BY <1>3, <2>1 DEF Move
<1>4. ASSUME NEW o \in Owners, Redeem(o)
      PROVE  TypeOK'
  <2>1. 0 \in Amount
    BY DEF Amount
  <2>2. \A m \in Mints : reserve[m] - claims[o][m] \in Nat
    BY <1>4 DEF Redeem, Amount
  <2> QED BY <1>4, <2>1, <2>2 DEF Redeem
<1>5. ASSUME NEW m \in Mints, NEW a \in Amount, Receive(m, a)
      PROVE  TypeOK'
  BY <1>5 DEF Receive, Amount
<1>6. CASE UNCHANGED vars
  BY <1>6 DEF vars
<1> QED BY <1>1, <1>2, <1>3, <1>4, <1>5, <1>6 DEF Next

(* Every abstract step keeps the claims covered.                           *)
LEMMA SolventStep == Finite /\ TypeOK /\ Solvent /\ [Next]_vars => Solvent'
<1> SUFFICES ASSUME Finite, TypeOK, Solvent, [Next]_vars, NEW n \in Mints
             PROVE  Total(claims', n) <= reserve'[n]
  BY DEF Solvent
<1>1. TypeOK'
  BY TypeInvariant
<1>2. /\ claims \in Book /\ claims' \in Book
      /\ reserve \in [Mints -> Nat] /\ reserve' \in [Mints -> Nat]
      /\ MaxU64 \in Nat
  BY <1>1 DEF TypeOK, Book, Finite
<1>3. /\ Total(claims, n) \in Nat
      /\ Total(claims, n) <= reserve[n]
  BY UnitsFinite DEF Solvent
<1>4. ASSUME NEW w \in Wallets, NEW m \in Mints, NEW a \in Amount, Deposit(w, m, a)
      PROVE  Total(claims', n) <= reserve'[n]
  <2>1. w \in Owners /\ a \in Nat
    BY <1>2 DEF Owners, Amount
  <2>2. CASE n = m
    <3>1. /\ claims'[w][n] = claims[w][n] + a
          /\ \A x \in Owners \ {w} : claims'[x][n] = claims[x][n]
          /\ reserve'[n] = reserve[n] + a
      BY <1>2, <1>4, <2>1, <2>2 DEF Deposit, Book
    <3>2. Total(claims', n) = Total(claims, n) + a
      BY <1>2, <2>1, <3>1, TotalRaised
    <3> QED BY <1>2, <1>3, <2>1, <3>1, <3>2
  <2>3. CASE n # m
    <3>1. /\ \A x \in Owners : claims'[x][n] = claims[x][n]
          /\ reserve'[n] = reserve[n]
      BY <1>2, <1>4, <2>1, <2>3 DEF Deposit, Book
    <3>2. Total(claims', n) = Total(claims, n)
      BY <3>1, TotalSame
    <3> QED BY <1>3, <3>1, <3>2
  <2> QED BY <2>2, <2>3
<1>5. ASSUME NEW w \in Wallets, NEW m \in Mints, NEW a \in Amount, Withdraw(w, m, a)
      PROVE  Total(claims', n) <= reserve'[n]
  <2>1. w \in Owners /\ a \in Nat
    BY <1>2 DEF Owners, Amount
  <2>2. CASE n = m
    <3>1. /\ claims'[w][n] = claims[w][n] - a
          /\ a <= claims[w][n]
          /\ \A x \in Owners \ {w} : claims'[x][n] = claims[x][n]
          /\ reserve'[n] = reserve[n] - a
      BY <1>2, <1>5, <2>1, <2>2 DEF Withdraw, Book
    <3>2. Total(claims', n) = Total(claims, n) - a
      BY <1>2, <2>1, <3>1, LoweredTotal
    <3> QED BY <1>2, <1>3, <2>1, <3>1, <3>2
  <2>3. CASE n # m
    <3>1. /\ \A x \in Owners : claims'[x][n] = claims[x][n]
          /\ reserve'[n] = reserve[n]
      BY <1>2, <1>5, <2>1, <2>3 DEF Withdraw, Book
    <3>2. Total(claims', n) = Total(claims, n)
      BY <3>1, TotalSame
    <3> QED BY <1>3, <3>1, <3>2
  <2> QED BY <2>2, <2>3
<1>6. ASSUME NEW src \in Owners, NEW dst \in Owners, NEW m \in Mints, NEW a \in Amount,
             Move(src, dst, m, a)
      PROVE  Total(claims', n) <= reserve'[n]
  <2>1. a \in Nat /\ src # dst /\ reserve' = reserve
    BY <1>2, <1>6 DEF Amount, Move
  <2>2. CASE n = m
    <3> DEFINE paid == [claims EXCEPT ![src][m] = @ - a]
    <3>1. a <= claims[src][m] /\ claims[src][m] - a \in Amount
      BY <1>2, <1>6, <2>1 DEF Move, Book, Amount
    <3>2. paid \in Book
      BY <1>2, <3>1 DEF Book
    <3>3. /\ paid[src][n] = claims[src][n] - a
          /\ \A x \in Owners \ {src} : paid[x][n] = claims[x][n]
      BY <1>2, <2>2 DEF Book
    <3>4. /\ claims'[dst][n] = paid[dst][n] + a
          /\ \A x \in Owners \ {dst} : claims'[x][n] = paid[x][n]
      BY <1>2, <1>6, <2>1, <2>2 DEF Move, Book
    <3> HIDE DEF paid
    <3>5. Total(paid, n) = Total(claims, n) - a
      BY <1>2, <2>1, <2>2, <3>1, <3>2, <3>3, LoweredTotal
    <3>6. Total(claims', n) = Total(paid, n) + a
      BY <1>2, <2>1, <3>2, <3>4, TotalRaised
    <3> QED BY <1>3, <2>1, <3>5, <3>6
  <2>3. CASE n # m
    <3>1. \A x \in Owners : claims'[x][n] = claims[x][n]
      BY <1>2, <1>6, <2>3 DEF Move, Book
    <3>2. Total(claims', n) = Total(claims, n)
      BY <3>1, TotalSame
    <3> QED BY <1>3, <2>1, <3>2
  <2> QED BY <2>2, <2>3
<1>7. ASSUME NEW o \in Owners, Redeem(o)
      PROVE  Total(claims', n) <= reserve'[n]
  <2>1. claims[o][n] \in Nat
    BY <1>2 DEF Book, Amount
  <2>2. /\ claims'[o][n] = claims[o][n] - claims[o][n]
        /\ claims[o][n] <= claims[o][n]
        /\ \A x \in Owners \ {o} : claims'[x][n] = claims[x][n]
        /\ reserve'[n] = reserve[n] - claims[o][n]
    BY <1>2, <1>7, <2>1 DEF Redeem, Book
  <2>3. Total(claims', n) = Total(claims, n) - claims[o][n]
    BY <1>2, <2>1, <2>2, LoweredTotal
  <2> QED BY <1>2, <1>3, <2>1, <2>2, <2>3
<1>8. ASSUME NEW m \in Mints, NEW a \in Amount, Receive(m, a)
      PROVE  Total(claims', n) <= reserve'[n]
  <2>1. a \in Nat /\ claims' = claims
    BY <1>2, <1>8 DEF Amount, Receive
  <2>2. reserve'[n] = reserve[n] \/ reserve'[n] = reserve[n] + a
    BY <1>2, <1>8 DEF Receive
  <2> QED BY <1>2, <1>3, <2>1, <2>2
<1>9. CASE UNCHANGED vars
  BY <1>3, <1>9 DEF vars
<1> QED BY <1>4, <1>5, <1>6, <1>7, <1>8, <1>9 DEF Next

(* The abstract vault is solvent in every behaviour: whatever is deposited,*)
(* moved, withdrawn, redeemed or given, each reserve covers the claims.    *)
THEOREM AbstractSolvency == Finite => (Spec => [](TypeOK /\ Solvent))
<1> SUFFICES ASSUME Finite
             PROVE  Spec => [](TypeOK /\ Solvent)
  OBVIOUS
<1>1. Init => TypeOK /\ Solvent
  <2> SUFFICES ASSUME Init
               PROVE  TypeOK /\ Solvent
    OBVIOUS
  <2>1. TypeOK
    BY DEF Init, TypeOK, Amount, Finite
  <2>2. ASSUME NEW m \in Mints
        PROVE  Total(claims, m) <= reserve[m]
    <3>1. Total(claims, m) = 0
      BY TotalNothing DEF Init
    <3> QED BY <3>1 DEF Init
  <2> QED BY <2>1, <2>2 DEF Solvent
<1>2. TypeOK /\ Solvent /\ [Next]_vars => (TypeOK /\ Solvent)'
  BY TypeInvariant, SolventStep
<1> QED BY <1>1, <1>2, PTL DEF Spec

=============================================================================
