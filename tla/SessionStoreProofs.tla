------------------------- MODULE SessionStoreProofs -------------------------
(***************************************************************************)
(* Theorems about the session store, for any number of wallets, programs   *)
(* and keys, any ring length and any expiry: first who may consent, then   *)
(* what the ring's operations do to the queue it stands for, then what one *)
(* step may do to the entries (Outcome), and from these that rings stay    *)
(* packed, that a grant reaches one program and that the store implements  *)
(* the queue a wallet is promised.                                         *)
(***************************************************************************)
EXTENDS SessionStore, TablesProofs, FiniteSetTheorems, SequenceTheorems

(* Types survive every step.                                               *)
LEMMA TypesStep == TypeOK /\ [Next]_vars => TypeOK'
<1> SUFFICES ASSUME TypeOK, [Next]_vars
             PROVE  TypeOK'
  OBVIOUS
<1>1. store \in Stores /\ now \in Times /\ signed \subseteq Keys
  BY DEF TypeOK, Stores
<1>2. ASSUME NEW w \in Wallets, NEW s \in Keys, Open(w, {s}) \/ Close(w, {s})
      PROVE  TypeOK'
  <2>1. store' \in Stores
    BY <1>1, <1>2, EnsureTyped DEF Open, Close
  <2>2. now' = now /\ signed' = {s}
    BY <1>2 DEF Open, Close
  <2> QED BY <1>1, <2>1, <2>2 DEF TypeOK, Stores
<1>3. ASSUME NEW w \in Wallets, NEW p \in Programs, NEW k \in Keys \cup {ZeroKey},
             NEW s \in Keys, NEW t \in Times, AuthorizeSession(w, p, k, t, {s})
      PROVE  TypeOK'
  <2>1. store' \in Stores
    BY <1>1, <1>3, AuthorizeTyped
  <2>2. now' = now /\ signed' = {s}
    BY <1>3 DEF AuthorizeSession
  <2> QED BY <1>1, <2>1, <2>2 DEF TypeOK, Stores
<1>4. ASSUME NEW w \in Wallets, NEW p \in Programs, NEW k \in Keys \cup {ZeroKey},
             NEW s \in Keys, RevokeSession(w, p, k, {s})
      PROVE  TypeOK'
  <2>1. store' \in Stores
    BY <1>1, <1>4, RevokeTyped
  <2>2. now' = now /\ signed' = {s}
    BY <1>4 DEF RevokeSession
  <2> QED BY <1>1, <2>1, <2>2 DEF TypeOK, Stores
<1>5. CASE Tick
  <2>1. now' \in Times
    BY <1>1, <1>5, SessionsAssumption DEF Tick, Times
  <2>2. store' = store /\ signed' = {}
    BY <1>5 DEF Tick
  <2> QED BY <1>1, <2>1, <2>2 DEF TypeOK, Stores
<1>6. CASE UNCHANGED vars
  BY <1>1, <1>6 DEF vars, sessionVars, TypeOK, Stores
<1> QED BY <1>2, <1>3, <1>4, <1>5, <1>6 DEF Next

(* Every reachable store is one the account can hold: its entries hold     *)
(* keys on the curve or none, and expiries within the clock's range.       *)
THEOREM StoreTyped == Spec => []TypeOK
<1>1. Init => TypeOK
  BY SessionsAssumption DEF Init, TypeOK, Times
<1> QED BY <1>1, TypesStep, PTL DEF Spec

(* A typed entry lets no PDA and no empty place through.                   *)
LEMMA TypedConsent == TypeOK => OnlyRealKeysConsent
<1> SUFFICES ASSUME TypeOK, NEW w \in Wallets, NEW p \in Programs,
                    NEW k \in Pdas \cup {ZeroKey}
             PROVE  ~MayConsent(w, k, p)
  BY DEF OnlyRealKeysConsent
<1>1. k # w
  BY KeyKinds
<1>2. ASSUME k # ZeroKey, store[w] # NoStore, Authorised(store[w], p)
      PROVE  ~EntryAllows(store[w][p], k, now)
  <2> DEFINE e == store[w][p]
  <2>1. e \in SessionEntry
    BY <1>2, StoreOperations DEF TypeOK
  <2>2. k \notin KeyOrZero
    BY <1>2, KeyKinds
  <2>3. e.temporary # k /\ k \notin Held(e)
    BY <2>1, <2>2 DEF SessionEntry, Held
  <2> QED BY <2>3 DEF EntryAllows
<1> QED BY <1>1, <1>2 DEF MayConsent, Allows

(* In no reachable state does a program's own address, or the zero key an  *)
(* empty place holds, consent for a wallet.                                *)
THEOREM RealKeysOnly == Spec => []OnlyRealKeysConsent
BY StoreTyped, TypedConsent, PTL

(* One wallet's step leaves the others' consents as they were.             *)
LEMMA ConsentStep ==
    TypeOK /\ [Next]_vars =>
        \A w \in Wallets, p \in Programs, k \in Keys :
            MayConsent(w, k, p)' /\ ~MayConsent(w, k, p) => w \in signed'
<1> SUFFICES ASSUME TypeOK, [Next]_vars, NEW w \in Wallets, NEW p \in Programs, NEW k \in Keys,
                    MayConsent(w, k, p)', ~MayConsent(w, k, p)
             PROVE  w \in signed'
  OBVIOUS
<1>1. ~(UNCHANGED store /\ UNCHANGED now)
  BY DEF MayConsent
<1>2. ASSUME NEW v \in Wallets, UNCHANGED now, v \in signed',
             \E s : store' = [store EXCEPT ![v] = s]
      PROVE  w \in signed'
  <2>1. CASE v = w
    BY <1>2, <2>1
  <2>2. CASE v # w
    <3>1. store'[w] = store[w]
      BY <1>2, <2>2 DEF TypeOK
    <3> QED BY <1>2, <3>1 DEF MayConsent
  <2> QED BY <2>1, <2>2
<1>3. ASSUME NEW v \in Wallets, NEW s \in Keys, Open(v, {s}) \/ Close(v, {s})
      PROVE  w \in signed'
  BY <1>2, <1>3 DEF Open, Close, EnsureStore, CloseStore
<1>4. ASSUME NEW v \in Wallets, NEW q \in Programs, NEW l \in Keys \cup {ZeroKey},
             NEW s \in Keys, NEW t \in Times, AuthorizeSession(v, q, l, t, {s})
      PROVE  w \in signed'
  BY <1>2, <1>4 DEF AuthorizeSession
<1>5. ASSUME NEW v \in Wallets, NEW q \in Programs, NEW l \in Keys \cup {ZeroKey},
             NEW s \in Keys, RevokeSession(v, q, l, {s})
      PROVE  w \in signed'
  BY <1>2, <1>5 DEF RevokeSession
<1>6. ~Tick
  <2> SUFFICES ASSUME Tick
               PROVE  FALSE
    OBVIOUS
  <2>1. store' = store /\ now' = now + 1 /\ now \in Nat
    BY SessionsAssumption DEF Tick, TypeOK, Times
  <2>2. /\ k # w /\ store[w] # NoStore /\ k # ZeroKey /\ Authorised(store[w], p)
        /\ EntryAllows(store[w][p], k, now')
        /\ ~EntryAllows(store[w][p], k, now)
    BY <2>1 DEF MayConsent, Allows
  <2>3. store[w][p].expiresAt \in Nat
    <3>1. store[w][p] \in SessionEntry
      BY <2>2, StoreOperations DEF TypeOK
    <3> QED BY <3>1, SessionsAssumption DEF SessionEntry, Times
  <2> QED BY <2>1, <2>2, <2>3 DEF EntryAllows
<1> QED BY <1>1, <1>3, <1>4, <1>5, <1>6 DEF Next, vars, sessionVars

(* No instruction and no passing of time makes a key consent for a wallet  *)
(* unless that wallet signed the step.                                     *)
THEOREM OwnerGrantsConsent == Spec => ConsentNeedsOwner
BY StoreTyped, ConsentStep, PTL DEF Spec, ConsentNeedsOwner

----------------------------------------------------------------------------
(* A ring as an array of places.                                           *)
Rings == [Places -> KeyOrZero]

(* The first of some places is one of them and least.                      *)
LEMMA FirstPlaceIsLeast ==
    ASSUME NEW S \in SUBSET Places, S # {}
    PROVE  FirstPlace(S) \in S /\ \A j \in S : FirstPlace(S) <= j
<1>1. S \subseteq Nat
  BY SessionsAssumption DEF Places
<1>2. \E x \in S : \A y \in S : ~(<<y, x>> \in OpToRel(<, Nat))
  BY <1>1, NatLessThanWellFounded, WFMin
<1>3. PICK x \in S : \A y \in S : ~(<<y, x>> \in OpToRel(<, Nat))
  BY <1>2
<1>4. \A y \in S : x <= y
  <2>1. \A y \in S : y < x => <<y, x>> \in OpToRel(<, Nat)
    BY <1>1, Zenon DEF OpToRel
  <2>2. \A y \in S : ~(y < x)
    BY <1>3, <2>1, Zenon
  <2> QED BY <1>1, <2>2
<1> QED BY <1>4 DEF FirstPlace

(* The first n places hold keys and no other does.                         *)
Filled(r, n) == n \in 0..Ring /\ \A i \in Places : r[i] # ZeroKey <=> i <= n

(* A packed ring is filled up to some place.                               *)
LEMMA PackedFilled ==
    ASSUME NEW r \in Rings, Packed(r)
    PROVE  \E n : Filled(r, n)
<1> DEFINE Z == {i \in Places : r[i] = ZeroKey}
<1>1. CASE Z = {}
  <2>1. Filled(r, Ring)
    BY <1>1, SessionsAssumption DEF Filled, Places
  <2> QED BY <2>1
<1>2. CASE Z # {}
  <2>1. PICK f \in Z : \A j \in Z : f <= j
    BY <1>2, FirstPlaceIsLeast
  <2>2. Filled(r, f - 1)
    BY <2>1, SessionsAssumption DEF Filled, Places, Packed
  <2> QED BY <2>2
<1> QED BY <1>1, <1>2

(* The queue of a filled ring is what its first places hold.               *)
LEMMA FilledQueue ==
    ASSUME NEW r \in Rings, NEW n, Filled(r, n)
    PROVE  /\ Queue(r) = [i \in 1..n |-> r[i]]
           /\ Queue(r) \in Seq(OnCurve) /\ Len(Queue(r)) = n
           /\ n \in Nat /\ n <= Ring
           /\ \A i \in 1..n : i \in Places /\ Queue(r)[i] = r[i]
<1>1. n \in Nat /\ n <= Ring /\ Taken(r) = 1..n
  BY SessionsAssumption DEF Filled, Taken, Places
<1>2. Cardinality(1..n) = n
  BY <1>1, FS_Interval
<1>3. Queue(r) = [i \in 1..n |-> r[i]]
  BY <1>1, <1>2 DEF Queue
<1>4. \A i \in 1..n : i \in Places /\ r[i] \in OnCurve
  BY <1>1, SessionsAssumption DEF Filled, Rings, KeyOrZero, Places
<1>5. [i \in 1..n |-> r[i]] \in [1..n -> OnCurve]
  BY <1>4
<1>6. Queue(r) \in Seq(OnCurve) /\ Len(Queue(r)) = n
  BY <1>1, <1>3, <1>5
<1> QED BY <1>1, <1>3, <1>4, <1>6

----------------------------------------------------------------------------
(* Granting fills the next place, or moves up and fills the last.          *)
LEMMA GrantedRing ==
    ASSUME NEW e \in SessionEntry, NEW k \in OnCurve, NEW n, Filled(e.ring, n), Packed(e.ring),
           k \notin Held(e)
    PROVE  LET r == Grant(e, k).ring
           IN  /\ Packed(r) /\ r \in Rings
               /\ n < Ring => /\ Filled(r, n + 1)
                              /\ r[n + 1] = k /\ \A i \in 1..n : r[i] = e.ring[i]
               /\ n = Ring => /\ Filled(r, n)
                              /\ r[n] = k /\ \A i \in 1..(n - 1) : r[i] = e.ring[i + 1]
<1> DEFINE r == Grant(e, k).ring
<1>1. /\ e.ring \in Rings /\ k # ZeroKey
      /\ \A i \in Places : e.ring[i] # k
      /\ n \in Nat /\ n <= Ring /\ Ring \in Nat \ {0}
  BY KeyKinds, SessionsAssumption DEF SessionEntry, Rings, Held, Filled
<1>2. r \in Rings
  BY EntryOperations DEF SessionEntry, Rings
<1>3. CASE n < Ring
  <2> DEFINE Z == {j \in Places : e.ring[j] = ZeroKey}
             f == FirstPlace(Z)
  <2>1. n + 1 \in Z /\ \A j \in Z : n + 1 <= j
    BY <1>1, <1>3 DEF Filled, Places
  <2>2. f \in Z /\ \A j \in Z : f <= j
    BY <2>1, FirstPlaceIsLeast
  <2>3. f = n + 1
    BY <1>1, <2>1, <2>2 DEF Places
  <2>4. ZeroKey \in Held(e)
    BY <2>1 DEF Held
  <2>5. Grant(e, k) = [e EXCEPT !.ring[f] = k]
    BY <2>4 DEF Grant
  <2> HIDE DEF f
  <2>6. r = [e.ring EXCEPT ![n + 1] = k]
    BY <2>3, <2>5 DEF SessionEntry
  <2> HIDE DEF r
  <2>7. \A i \in Places : r[i] = IF i = n + 1 THEN k ELSE e.ring[i]
    BY <1>1, <2>6 DEF Rings
  <2>8. Filled(r, n + 1) /\ r[n + 1] = k /\ \A i \in 1..n : r[i] = e.ring[i]
    BY <1>1, <1>3, <2>7 DEF Filled, Places
  <2>9. Packed(r)
    <3> SUFFICES ASSUME NEW i \in Places, NEW j \in Places, i < j
                 PROVE  /\ r[i] = ZeroKey => r[j] = ZeroKey
                        /\ r[i] = r[j] => r[i] = ZeroKey
      BY DEF Packed
    <3>1. /\ e.ring[i] = ZeroKey => e.ring[j] = ZeroKey
          /\ e.ring[i] = e.ring[j] => e.ring[i] = ZeroKey
      BY DEF Packed
    <3>2. i \in Nat /\ j \in Nat /\ e.ring[i] # k /\ e.ring[j] # k
      BY <1>1 DEF Places
    <3>3. CASE j = n + 1
      BY <1>1, <3>2, <3>3, <2>7 DEF Filled
    <3>4. CASE j # n + 1
      BY <1>1, <3>1, <3>2, <3>4, <2>7, <2>8 DEF Filled
    <3> QED BY <3>3, <3>4
  <2> QED BY <1>1, <1>2, <1>3, <2>8, <2>9 DEF r
<1>4. CASE n = Ring
  <2>1. ZeroKey \notin Held(e)
    BY <1>1, <1>4 DEF Held, Filled, Places
  <2>2. Grant(e, k) = [e EXCEPT !.ring = [i \in Places |-> IF i = Ring THEN k ELSE e.ring[i + 1]]]
    BY <2>1 DEF Grant
  <2>3. r = [i \in Places |-> IF i = Ring THEN k ELSE e.ring[i + 1]]
    BY <2>2 DEF SessionEntry
  <2> HIDE DEF r
  <2>4. \A i \in Places : i \in Nat /\ (i # Ring => i + 1 \in Places /\ e.ring[i + 1] # ZeroKey)
    BY <1>1, <1>4 DEF Filled, Places
  <2>5. Filled(r, n) /\ r[n] = k /\ \A i \in 1..(n - 1) : r[i] = e.ring[i + 1]
    BY <1>1, <1>4, <2>3, <2>4 DEF Filled, Places
  <2>6. Packed(r)
    <3> SUFFICES ASSUME NEW i \in Places, NEW j \in Places, i < j
                 PROVE  r[i] # ZeroKey /\ r[i] # r[j]
      BY DEF Packed
    <3>1. i # Ring /\ i + 1 \in Places /\ r[i] = e.ring[i + 1]
      BY <1>1, <2>3, <2>4 DEF Places
    <3>2. CASE j = Ring
      BY <1>1, <2>3, <2>4, <3>1, <3>2
    <3>3. CASE j # Ring
      <4>1. j + 1 \in Places /\ r[j] = e.ring[j + 1] /\ i + 1 < j + 1
        BY <2>3, <2>4, <3>3
      <4> QED BY <3>1, <4>1, <2>4 DEF Packed
    <3> QED BY <3>2, <3>3
  <2> QED BY <1>1, <1>2, <1>4, <2>5, <2>6 DEF r
<1> QED BY <1>1, <1>3, <1>4

(* Revoking closes up: the key at place c, if any, leaves and those behind *)
(* it move up.                                                             *)
LEMMA RevokedRing ==
    ASSUME NEW e \in SessionEntry, NEW k, k # ZeroKey, NEW n, Filled(e.ring, n),
           Packed(e.ring), NEW c \in 1..(n + 1),
           c <= n => e.ring[c] = k, c = n + 1 => k \notin Held(e)
    PROVE  LET r == Revoke(e, k).ring
               left == IF c <= n THEN n - 1 ELSE n
           IN  /\ r \in Rings /\ Filled(r, left)
               /\ \A i \in 1..left : r[i] = IF i < c THEN e.ring[i] ELSE e.ring[i + 1]
<1> DEFINE r == Revoke(e, k).ring
           left == IF c <= n THEN n - 1 ELSE n
           S == (1..n) \ {c}
<1>1. /\ e.ring \in Rings /\ n \in Nat /\ n <= Ring /\ Ring \in Nat \ {0}
      /\ c \in Nat /\ 1 <= c /\ c <= n + 1
  BY SessionsAssumption DEF SessionEntry, Rings, Filled
<1>2. r \in Rings
  BY EntryOperations DEF SessionEntry, Rings
<1>3. KeptPlaces(e.ring, k) = S
  <2>1. ASSUME NEW i \in Places
        PROVE  e.ring[i] \notin {k, ZeroKey} <=> i <= n /\ i # c
    <3>1. i \in Nat /\ 1 <= i /\ (e.ring[i] # ZeroKey <=> i <= n)
      BY <1>1 DEF Places, Filled
    <3>2. CASE i = c \/ i > n
      BY <1>1, <3>1, <3>2
    <3>3. CASE i # c /\ i <= n /\ c <= n
      <4>1. c \in Places /\ e.ring[c] = k /\ (i < c \/ c < i)
        BY <1>1, <3>1, <3>3 DEF Places
      <4>2. e.ring[i] # e.ring[c]
        BY <3>1, <3>3, <4>1 DEF Packed
      <4> QED BY <3>1, <3>3, <4>1, <4>2
    <3>4. CASE i # c /\ i <= n /\ c = n + 1
      <4>1. e.ring[i] # k
        BY <3>4 DEF Held
      <4> QED BY <3>1, <3>4, <4>1
    <3> QED BY <1>1, <3>1, <3>2, <3>3, <3>4
  <2> QED BY <1>1, <2>1 DEF KeptPlaces, Places
<1>4. ASSUME NEW j \in S
      PROVE  Cardinality({x \in S : x <= j}) = IF j < c THEN j ELSE j - 1
  <2>1. j \in Nat /\ {x \in S : x <= j} = (1..j) \ {c}
    BY <1>1
  <2>2. IsFiniteSet(1..j) /\ Cardinality(1..j) = j
    BY <2>1, FS_Interval
  <2>3. Cardinality((1..j) \ {c}) = IF c \in 1..j THEN j - 1 ELSE j
    BY <2>2, FS_RemoveElement
  <2>4. c \in 1..j <=> ~(j < c)
    BY <1>1, <2>1
  <2> QED BY <2>1, <2>3, <2>4
<1>5. ASSUME NEW i \in Places
      PROVE  r[i] = IF i <= left THEN (IF i < c THEN e.ring[i] ELSE e.ring[i + 1]) ELSE ZeroKey
  <2> DEFINE from == IthOf(S, i)
             rank(j) == Cardinality({x \in S : x <= j})
  <2>1. i \in Nat /\ 1 <= i
    BY <1>1 DEF Places
  <2>2. from = {j \in S : (IF j < c THEN j ELSE j - 1) = i}
    <3>1. \A j \in S : Cardinality({x \in S : x <= j}) = IF j < c THEN j ELSE j - 1
      BY <1>4
    <3> QED BY <3>1 DEF IthOf
  <2>3. r[i] = IF from = {} THEN ZeroKey ELSE e.ring[CHOOSE j \in from : TRUE]
    BY <1>3 DEF Revoke
  <2> HIDE DEF from, r
  <2>4. CASE i > left
    <3>1. from = {}
      BY <1>1, <2>1, <2>2, <2>4
    <3> QED BY <1>1, <2>1, <2>3, <2>4, <3>1
  <2>5. CASE i <= left
    <3>1. from = {IF i < c THEN i ELSE i + 1}
      BY <1>1, <2>1, <2>2, <2>5
    <3>2. (CHOOSE j \in from : TRUE) = IF i < c THEN i ELSE i + 1
      BY <3>1
    <3> QED BY <2>3, <2>5, <3>1, <3>2
  <2> QED BY <1>1, <2>1, <2>4, <2>5
<1> HIDE DEF r
<1>6. Filled(r, left)
  <2>1. left \in 0..Ring
    BY <1>1
  <2>2. ASSUME NEW i \in Places
        PROVE  r[i] # ZeroKey <=> i <= left
    <3>1. i \in Nat /\ 1 <= i /\ i <= Ring
      BY <1>1 DEF Places
    <3>2. i <= left /\ ~(i < c) => i + 1 \in Places /\ i + 1 <= n
      BY <1>1, <3>1 DEF Places
    <3>3. i <= left => i <= n
      BY <1>1, <3>1
    <3> QED BY <1>5, <3>2, <3>3 DEF Filled
  <2> QED BY <2>1, <2>2 DEF Filled
<1>7. \A i \in 1..left : i \in Places
  BY <1>1 DEF Places
<1>8. \A i \in 1..left : r[i] = IF i < c THEN e.ring[i] ELSE e.ring[i + 1]
  BY <1>1, <1>5, <1>7
<1> QED BY <1>2, <1>6, <1>8 DEF r

(* A filled ring without repetitions among its keys is packed.             *)
LEMMA DistinctPacked ==
    ASSUME NEW r \in Rings, NEW n, Filled(r, n),
           \A i, j \in 1..n : i < j => r[i] # r[j]
    PROVE  Packed(r)
<1> SUFFICES ASSUME NEW i \in Places, NEW j \in Places, i < j
             PROVE  /\ r[i] = ZeroKey => r[j] = ZeroKey
                    /\ r[i] = r[j] => r[i] = ZeroKey
  BY DEF Packed
<1>1. i \in Nat /\ j \in Nat /\ 1 <= i /\ 1 <= j /\ n \in Nat
  BY SessionsAssumption DEF Places, Filled
<1>2. r[i] = ZeroKey => r[j] = ZeroKey
  BY <1>1 DEF Filled
<1>3. r[i] = r[j] /\ r[i] # ZeroKey => FALSE
  <2> SUFFICES ASSUME r[i] = r[j], r[i] # ZeroKey
               PROVE  FALSE
    OBVIOUS
  <2>1. i <= n /\ j <= n
    BY DEF Filled
  <2> QED BY <1>1, <2>1
<1> QED BY <1>2, <1>3


----------------------------------------------------------------------------
(* Granting a new key appends it to the queue, the oldest leaving a full   *)
(* one.                                                                    *)
LEMMA QueueGranted ==
    ASSUME NEW e \in SessionEntry, NEW k \in OnCurve, Packed(e.ring), k \notin Held(e)
    PROVE  LET q == Queue(e.ring)
           IN  /\ Packed(Grant(e, k).ring)
               /\ q \in Seq(OnCurve) /\ \A i \in 1..Len(q) : q[i] # k
               /\ Queue(Grant(e, k).ring) = Append(IF Len(q) = Ring THEN Tail(q) ELSE q, k)
<1> DEFINE q == Queue(e.ring)
           r == Grant(e, k).ring
<1>1. e.ring \in Rings
  BY DEF SessionEntry, Rings
<1>2. PICK n : Filled(e.ring, n)
  BY <1>1, PackedFilled
<1>3. /\ q \in Seq(OnCurve) /\ Len(q) = n /\ n \in Nat /\ n <= Ring
      /\ \A i \in 1..n : i \in Places /\ q[i] = e.ring[i]
  BY <1>1, <1>2, FilledQueue
<1>4. /\ Packed(r) /\ r \in Rings
      /\ n < Ring => /\ Filled(r, n + 1)
                     /\ r[n + 1] = k /\ \A i \in 1..n : r[i] = e.ring[i]
      /\ n = Ring => /\ Filled(r, n)
                     /\ r[n] = k /\ \A i \in 1..(n - 1) : r[i] = e.ring[i + 1]
  <2>1. k \notin Held(e) /\ Packed(e.ring) /\ Filled(e.ring, n)
    BY <1>2
  <2> HIDE DEF q
  <2> QED BY ONLY <2>1, GrantedRing, e \in SessionEntry, k \in OnCurve
<1>5. \A i \in 1..Len(q) : q[i] # k
  BY <1>3 DEF Held
<1> HIDE DEF q, r
<1>6. CASE n < Ring
  <2>1. /\ Queue(r) \in Seq(OnCurve) /\ Len(Queue(r)) = n + 1
        /\ \A i \in 1..(n + 1) : Queue(r)[i] = r[i]
    BY <1>4, <1>6, FilledQueue
  <2>2. /\ Append(q, k) \in Seq(OnCurve) /\ Len(Append(q, k)) = n + 1
        /\ \A i \in 1..n : Append(q, k)[i] = q[i]
        /\ Append(q, k)[n + 1] = k
    BY <1>3, AppendProperties
  <2>3. \A i \in 1..(n + 1) : Queue(r)[i] = Append(q, k)[i]
    <3>1. \A i \in 1..(n + 1) : i = n + 1 \/ i \in 1..n
      BY <1>3
    <3> QED BY <1>3, <1>4, <1>6, <2>1, <2>2, <3>1
  <2>4. Queue(r) = Append(q, k)
    BY <2>1, <2>2, <2>3, SeqEqual
  <2>5. Len(q) # Ring
    BY <1>3, <1>6, SessionsAssumption
  <2> QED BY <1>3, <1>4, <1>5, <2>4, <2>5 DEF q, r
<1>7. CASE n = Ring
  <2>1. n \in Nat \ {0} /\ q # <<>>
    BY <1>3, <1>7, SessionsAssumption, EmptySeq
  <2>2. /\ Queue(r) \in Seq(OnCurve) /\ Len(Queue(r)) = n
        /\ \A i \in 1..n : Queue(r)[i] = r[i]
    BY <1>4, <1>7, FilledQueue
  <2>3. /\ Tail(q) \in Seq(OnCurve) /\ Len(Tail(q)) = n - 1
        /\ \A i \in 1..(n - 1) : Tail(q)[i] = q[i + 1]
    BY <1>3, <2>1, HeadTailProperties
  <2>4. /\ Append(Tail(q), k) \in Seq(OnCurve) /\ Len(Append(Tail(q), k)) = n
        /\ \A i \in 1..(n - 1) : Append(Tail(q), k)[i] = Tail(q)[i]
        /\ Append(Tail(q), k)[n] = k
    <3>1. /\ Append(Tail(q), k) \in Seq(OnCurve)
          /\ Len(Append(Tail(q), k)) = Len(Tail(q)) + 1
          /\ \A i \in 1..Len(Tail(q)) : Append(Tail(q), k)[i] = Tail(q)[i]
          /\ Append(Tail(q), k)[Len(Tail(q)) + 1] = k
      BY <2>3, AppendProperties
    <3>2. Len(Tail(q)) + 1 = n
      BY <2>1, <2>3
    <3> QED BY <2>3, <3>1, <3>2
  <2>5. \A i \in 1..n : Queue(r)[i] = Append(Tail(q), k)[i]
    <3>1. \A i \in 1..n : i = n \/ (i \in 1..(n - 1) /\ i + 1 \in 1..n)
      BY <2>1
    <3> QED BY <1>3, <1>4, <1>7, <2>1, <2>2, <2>3, <2>4, <3>1
  <2>6. Queue(r) = Append(Tail(q), k)
    BY <2>2, <2>4, <2>5, SeqEqual
  <2> QED BY <1>3, <1>4, <1>5, <1>7, <2>6 DEF q, r
<1> QED BY <1>3, <1>6, <1>7, SessionsAssumption

(* Revoking takes the key, wherever it is, out of the queue.               *)
LEMMA QueueRevoked ==
    ASSUME NEW e \in SessionEntry, NEW k, k # ZeroKey, Packed(e.ring)
    PROVE  LET q == Queue(e.ring)
               d == Queue(Revoke(e, k).ring)
           IN  /\ Packed(Revoke(e, k).ring)
               /\ q \in Seq(OnCurve)
               /\ \/ \E i \in 1..Len(q) : q[i] = k /\ d = Promise!RemoveAt(q, i)
                  \/ (\A i \in 1..Len(q) : q[i] # k) /\ d = q
<1> DEFINE q == Queue(e.ring)
           r == Revoke(e, k).ring
           d == Queue(r)
<1>1. e.ring \in Rings
  BY DEF SessionEntry, Rings
<1>2. PICK n : Filled(e.ring, n)
  BY <1>1, PackedFilled
<1>3. /\ q \in Seq(OnCurve) /\ Len(q) = n /\ n \in Nat /\ n <= Ring
      /\ \A i \in 1..n : i \in Places /\ q[i] = e.ring[i]
  BY <1>1, <1>2, FilledQueue
<1>4. \E c \in 1..(n + 1) : (c <= n => e.ring[c] = k) /\ (c = n + 1 => k \notin Held(e))
  <2>1. CASE k \in Held(e)
    <3>1. PICK c \in Places : e.ring[c] = k
      BY <2>1 DEF Held
    <3>2. c \in 1..(n + 1) /\ c # n + 1
      BY <1>2, <1>3, <3>1, SessionsAssumption DEF Filled, Places
    <3> QED BY <3>1, <3>2
  <2>2. CASE k \notin Held(e)
    <3>1. n + 1 \in 1..(n + 1) /\ ~(n + 1 <= n)
      BY <1>3
    <3> QED BY <2>2, <3>1
  <2> QED BY <2>1, <2>2
<1>5. PICK c \in 1..(n + 1) : (c <= n => e.ring[c] = k) /\ (c = n + 1 => k \notin Held(e))
  BY <1>4
<1> DEFINE left == IF c <= n THEN n - 1 ELSE n
<1>6. /\ r \in Rings /\ Filled(r, left)
      /\ \A i \in 1..left : r[i] = IF i < c THEN e.ring[i] ELSE e.ring[i + 1]
  BY <1>2, <1>5, RevokedRing
<1>7. /\ d \in Seq(OnCurve) /\ Len(d) = left /\ left \in Nat
      /\ \A i \in 1..left : d[i] = r[i]
  BY <1>6, FilledQueue
<1>8. Packed(r)
  <2> SUFFICES ASSUME NEW i \in 1..left, NEW j \in 1..left, i < j
               PROVE  r[i] # r[j]
    BY <1>6, DistinctPacked
  <2> DEFINE x == IF i < c THEN i ELSE i + 1
             y == IF j < c THEN j ELSE j + 1
  <2>1. x \in 1..n /\ y \in 1..n /\ x < y
    BY <1>3, <1>5
  <2>2. r[i] = e.ring[x] /\ r[j] = e.ring[y]
    BY <1>6
  <2> HIDE DEF x, y
  <2>3. e.ring[x] # ZeroKey
    BY <1>2, <1>3, <2>1 DEF Filled
  <2>4. e.ring[x] # e.ring[y]
    BY <1>3, <2>1, <2>3 DEF Packed
  <2> QED BY <2>2, <2>4
<1> HIDE DEF q, r, d
<1>9. CASE c <= n
  <2> DEFINE u == SubSeq(q, 1, c - 1)
             v == SubSeq(q, c + 1, n)
  <2>1. c \in 1..n /\ c \in Int /\ left = n - 1 /\ q[c] = k
    BY <1>3, <1>5, <1>9
  <2>2. /\ u \in Seq(OnCurve) /\ Len(u) = c - 1
        /\ \A i \in 1..(c - 1) : u[i] = q[i]
    <3>1. \A i \in 1..(c - 1) : q[i] \in OnCurve
      BY <1>3, <2>1, ElementOfSeq
    <3>2. /\ u \in Seq(OnCurve) /\ Len(u) = (IF 1 <= c - 1 THEN (c - 1) - 1 + 1 ELSE 0)
          /\ \A i \in 1..((c - 1) - 1 + 1) : u[i] = q[1 + i - 1]
      BY <2>1, <3>1, SubSeqProperties
    <3> QED BY <2>1, <3>2
  <2>3. /\ v \in Seq(OnCurve) /\ Len(v) = n - c
        /\ \A i \in 1..(n - c) : v[i] = q[c + i]
    <3>1. \A i \in (c + 1)..n : q[i] \in OnCurve
      BY <1>3, <2>1, ElementOfSeq
    <3>2. /\ v \in Seq(OnCurve) /\ Len(v) = (IF c + 1 <= n THEN n - (c + 1) + 1 ELSE 0)
          /\ \A i \in 1..(n - (c + 1) + 1) : v[i] = q[(c + 1) + i - 1]
      BY <1>3, <2>1, <3>1, SubSeqProperties
    <3>3. n - (c + 1) + 1 = n - c /\ \A i \in 1..(n - c) : (c + 1) + i - 1 = c + i
      BY <1>3, <2>1
    <3> QED BY <1>3, <2>1, <3>2, <3>3
  <2> HIDE DEF u, v
  <2>4. /\ u \o v \in Seq(OnCurve) /\ Len(u \o v) = n - 1
        /\ \A i \in 1..(n - 1) : (u \o v)[i] = IF i < c THEN q[i] ELSE q[i + 1]
    <3>1. /\ u \o v \in Seq(OnCurve) /\ Len(u \o v) = Len(u) + Len(v)
          /\ \A i \in 1..(Len(u) + Len(v)) : (u \o v)[i] = IF i <= Len(u) THEN u[i] ELSE v[i - Len(u)]
      BY <2>2, <2>3, ConcatProperties
    <3>2. Len(u) + Len(v) = n - 1
      BY <1>3, <2>1, <2>2, <2>3
    <3>3. ASSUME NEW i \in 1..(n - 1)
          PROVE  (u \o v)[i] = IF i < c THEN q[i] ELSE q[i + 1]
      <4>1. CASE i < c
        BY <2>1, <2>2, <3>1, <3>2, <4>1
      <4>2. CASE ~(i < c)
        <5>1. i - (c - 1) \in 1..(n - c) /\ c + (i - (c - 1)) = i + 1
          BY <1>3, <2>1, <4>2
        <5>2. (u \o v)[i] = v[i - (c - 1)]
          BY <2>1, <2>2, <3>1, <3>2, <4>2
        <5>3. v[i - (c - 1)] = q[c + (i - (c - 1))]
          BY <2>3, <5>1
        <5> QED BY <4>2, <5>1, <5>2, <5>3
      <4> QED BY <4>1, <4>2
    <3> QED BY <3>1, <3>2, <3>3
  <2>5. \A i \in 1..(n - 1) : d[i] = (u \o v)[i]
    <3>1. \A i \in 1..(n - 1) : i \in 1..n /\ i + 1 \in 1..n
      BY <1>3, <2>1
    <3> QED BY <1>3, <1>6, <1>7, <2>1, <2>4, <3>1
  <2>6. d = u \o v
    BY <1>7, <2>1, <2>4, <2>5, SeqEqual
  <2>7. d = Promise!RemoveAt(q, c)
    BY <1>3, <2>6 DEF Promise!RemoveAt, u, v
  <2> QED BY <1>3, <1>8, <2>1, <2>7 DEF q, r, d
<1>10. CASE c = n + 1
  <2>1. left = n /\ \A i \in 1..n : i < c
    BY <1>3, <1>10
  <2>2. \A i \in 1..n : d[i] = q[i]
    BY <1>3, <1>6, <1>7, <2>1
  <2>3. d = q
    BY <1>3, <1>7, <2>1, <2>2, SeqEqual
  <2>4. \A i \in 1..Len(q) : q[i] # k
    BY <1>3, <1>5, <1>10 DEF Held
  <2> QED BY <1>3, <1>8, <2>3, <2>4 DEF q, r, d
<1> QED BY <1>3, <1>5, <1>9, <1>10

----------------------------------------------------------------------------
(* The entry a program has, or would get, in the stores st.                *)
EntryIn(st, w, p) == IF st[w] = NoStore THEN NewEntry ELSE EntryFor(st[w], p)

(* It is an entry.                                                         *)
LEMMA EntryInTyped ==
    ASSUME TypeOK, NEW w \in Wallets, NEW p \in Programs
    PROVE  EntryIn(store, w, p) \in SessionEntry
<1>1. CASE store[w] = NoStore
  BY <1>1, NewEntryTyped DEF EntryIn
<1>2. CASE store[w] # NoStore
  BY <1>2, StoreOperations DEF TypeOK, EntryIn
<1> QED BY <1>1, <1>2

(* What a fresh entry allows: nothing.                                     *)
LEMMA NewEntryEmpty ==
    /\ NewEntry.temporary = ZeroKey
    /\ \A k : k \in Held(NewEntry) => k = ZeroKey
    /\ Packed(NewEntry.ring) /\ Queue(NewEntry.ring) = <<>>
<1>1. NewEntry.ring = [i \in Places |-> ZeroKey] /\ NewEntry.temporary = ZeroKey
  BY DEF NewEntry
<1>2. \A i \in Places : NewEntry.ring[i] = ZeroKey
  BY <1>1
<1>3. Taken(NewEntry.ring) = {}
  BY <1>2 DEF Taken
<1>4. Cardinality(Taken(NewEntry.ring)) = 0
  BY <1>3, FS_EmptySet
<1>5. Queue(NewEntry.ring) = [i \in 1..0 |-> NewEntry.ring[i]]
  BY <1>4 DEF Queue
<1>6. Queue(NewEntry.ring) = <<>>
  BY <1>5
<1> QED BY <1>1, <1>2, <1>6 DEF Held, Packed

(* Every entry is as it was, but one may be e.                             *)
Same == \A w \in Wallets, p \in Programs : EntryIn(store', w, p) = EntryIn(store, w, p)
Becomes(v, q, e) ==
    \A w \in Wallets, p \in Programs :
        EntryIn(store', w, p) = IF w = v /\ p = q THEN e ELSE EntryIn(store, w, p)

Granting(v, q, k) == Becomes(v, q, Grant(EntryIn(store, v, q), k))
Lending(v, q, k, t) == t > now /\ Becomes(v, q, GrantTemporary(EntryIn(store, v, q), k, t))
Revoking(v, q, k) == k # ZeroKey /\ Becomes(v, q, Revoke(EntryIn(store, v, q), k))
Closing(v) ==
    \A w \in Wallets, p \in Programs :
        EntryIn(store', w, p) = IF w = v THEN NewEntry ELSE EntryIn(store, w, p)

(* What a step may do to the entries, told without stores or accounts.     *)
Outcome ==
    \/ UNCHANGED now
       /\ \/ Same
          \/ \E v \in Wallets : Closing(v)
          \/ \E v \in Wallets, q \in Programs :
                \/ \E k \in OnCurve : Granting(v, q, k)
                \/ \E k \in OnCurve, t \in Times : Lending(v, q, k, t)
                \/ \E k \in Keys : Revoking(v, q, k)
                \/ Becomes(v, q, NewEntry)
    \/ now' = now + 1 /\ Same

(* Every step has one of these outcomes.                                   *)
LEMMA StepOutcome == TypeOK /\ [Next]_vars => Outcome
<1> SUFFICES ASSUME TypeOK, [Next]_vars
             PROVE  Outcome
  OBVIOUS
<1>1. \A q \in Programs : EntryFor(EmptyStore, q) = NewEntry
  BY DEF EntryFor, Authorised, EmptyStore
<1>2. EmptyStore \in Store
  <2>1. EmptyStore \in [{} -> SessionEntry]
    BY DEF EmptyStore
  <2> QED BY <2>1 DEF Store
<1>3. ASSUME NEW v \in Wallets, NEW S, Open(v, S)
      PROVE  Outcome
  <2>1. store' = [store EXCEPT ![v] = IF store[v] = NoStore THEN EmptyStore ELSE store[v]]
    BY <1>3 DEF Open, EnsureStore
  <2>2. Same
    BY <1>1, <2>1 DEF Same, EntryIn, TypeOK
  <2> QED BY <1>3, <2>2 DEF Open, Outcome
<1>4. ASSUME NEW v \in Wallets, NEW S, Close(v, S)
      PROVE  Outcome
  <2>1. Closing(v)
    BY <1>4 DEF Close, CloseStore, Closing, EntryIn, TypeOK
  <2> QED BY <1>4, <2>1 DEF Close, Outcome
<1>5. ASSUME NEW v \in Wallets, NEW q \in Programs, NEW k \in Keys \cup {ZeroKey}, NEW S,
             NEW t \in Times, AuthorizeSession(v, q, k, t, S)
      PROVE  Outcome
  <2> DEFINE s == IF store[v] = NoStore THEN EmptyStore ELSE store[v]
             e == EntryFor(s, q)
             f == IF t = 0 THEN Grant(e, k) ELSE GrantTemporary(e, k, t)
  <2>1. k \in OnCurve /\ UNCHANGED now /\ (t = 0 \/ t > now)
    BY <1>5, KeyKinds DEF AuthorizeSession
  <2>2. store' = [store EXCEPT ![v] = WithEntry(s, q, f)]
    BY <1>5 DEF AuthorizeSession
  <2>3. s \in Store /\ \A p \in Programs : EntryFor(s, p) = EntryIn(store, v, p)
    BY <1>1, <1>2 DEF TypeOK, EntryIn
  <2> HIDE DEF s
  <2>4. e = EntryIn(store, v, q) /\ e \in SessionEntry
    BY <2>3, EntryInTyped
  <2>5. f = (IF t = 0 THEN Grant(EntryIn(store, v, q), k) ELSE GrantTemporary(EntryIn(store, v, q), k, t))
    BY <2>4
  <2>6. f \in SessionEntry
    BY <2>1, <2>4, EntryOperations
  <2> HIDE DEF e, f
  <2>7. WithEntry(s, q, f) \in Store /\ WithEntry(s, q, f) # NoStore
    BY <2>3, <2>6, StoreOperations, StoreAssumption
  <2>8. \A p \in Programs : EntryFor(WithEntry(s, q, f), p) = IF p = q THEN f ELSE EntryFor(s, p)
    BY DEF EntryFor, WithEntry, Authorised
  <2>9. Becomes(v, q, f)
    BY <2>2, <2>3, <2>7, <2>8 DEF Becomes, EntryIn, TypeOK
  <2>10. CASE t = 0
    BY <2>1, <2>5, <2>9, <2>10 DEF Outcome, Granting
  <2>11. CASE t # 0
    BY <2>1, <2>5, <2>9, <2>11 DEF Outcome, Lending
  <2> QED BY <2>10, <2>11
<1>6. ASSUME NEW v \in Wallets, NEW q \in Programs, NEW k \in Keys \cup {ZeroKey}, NEW S,
             RevokeSession(v, q, k, S)
      PROVE  Outcome
  <2> DEFINE s == store[v]
  <2>1. UNCHANGED now /\ s # NoStore /\ s \in Store
    BY <1>6 DEF RevokeSession, TypeOK
  <2>2. \A p \in Programs : EntryFor(s, p) = EntryIn(store, v, p)
    BY <2>1 DEF EntryIn
  <2>3. CASE k = ZeroKey
    <3>1. store' = [store EXCEPT ![v] = DropEntry(s, q)]
      BY <1>6, <2>3 DEF RevokeSession
    <3>2. DropEntry(s, q) # NoStore
      BY <2>1, StoreOperations, StoreAssumption
    <3>3. \A p \in Programs : EntryFor(DropEntry(s, q), p) = IF p = q THEN NewEntry ELSE EntryFor(s, p)
      BY DEF EntryFor, DropEntry, Authorised
    <3>4. Becomes(v, q, NewEntry)
      BY <2>2, <3>1, <3>2, <3>3 DEF Becomes, EntryIn, TypeOK
    <3> QED BY <2>1, <3>4 DEF Outcome
  <2>4. CASE k # ZeroKey /\ Authorised(s, q)
    <3> DEFINE f == Revoke(s[q], k)
    <3>1. store' = [store EXCEPT ![v] = WithEntry(s, q, f)]
      BY <1>6, <2>4 DEF RevokeSession
    <3>2. s[q] = EntryIn(store, v, q)
      BY <2>1, <2>4 DEF EntryIn, EntryFor
    <3>3. f \in SessionEntry /\ f = Revoke(EntryIn(store, v, q), k)
      BY <3>2, EntryInTyped, EntryOperations
    <3> HIDE DEF f
    <3>4. WithEntry(s, q, f) # NoStore
      BY <2>1, <3>3, StoreOperations, StoreAssumption
    <3>5. \A p \in Programs : EntryFor(WithEntry(s, q, f), p) = IF p = q THEN f ELSE EntryFor(s, p)
      BY DEF EntryFor, WithEntry, Authorised
    <3>6. Becomes(v, q, f)
      BY <2>2, <3>1, <3>4, <3>5 DEF Becomes, EntryIn, TypeOK
    <3> QED BY <2>1, <2>4, <3>3, <3>6 DEF Outcome, Revoking
  <2>5. CASE k # ZeroKey /\ ~Authorised(s, q)
    <3>1. store' = [store EXCEPT ![v] = s]
      BY <1>6, <2>5 DEF RevokeSession
    <3>2. Same
      BY <2>1, <2>2, <3>1 DEF Same, EntryIn, TypeOK
    <3> QED BY <2>1, <3>2 DEF Outcome
  <2> QED BY <2>3, <2>4, <2>5
<1>7. CASE Tick
  BY <1>7 DEF Tick, Outcome, Same, EntryIn
<1>8. CASE UNCHANGED vars
  BY <1>8 DEF vars, sessionVars, Outcome, Same, EntryIn
<1> QED BY <1>3, <1>4, <1>5, <1>6, <1>7, <1>8 DEF Next


----------------------------------------------------------------------------
(* Lending a key leaves the ring as it is, a grant the temporary key.      *)
LEMMA LentAndGranted ==
    ASSUME NEW e \in SessionEntry, NEW k \in OnCurve, NEW t \in Times
    PROVE  /\ GrantTemporary(e, k, t).ring = e.ring
           /\ GrantTemporary(e, k, t).temporary = k
           /\ GrantTemporary(e, k, t).expiresAt = t
           /\ Grant(e, k).temporary = e.temporary
           /\ Grant(e, k).expiresAt = e.expiresAt
BY DEF GrantTemporary, Grant, SessionEntry

(* Packing survives every step.                                            *)
LEMMA PackedStep == TypeOK /\ RingPacked /\ Outcome => RingPacked'
<1> SUFFICES ASSUME TypeOK, RingPacked, Outcome, NEW w \in Wallets, NEW p \in Programs
             PROVE  Packed(EntryIn(store', w, p).ring)
  BY DEF RingPacked, EntryOf, EntryIn
<1>1. \A v \in Wallets, q \in Programs :
         EntryIn(store, v, q) \in SessionEntry /\ Packed(EntryIn(store, v, q).ring)
  BY EntryInTyped DEF RingPacked, EntryOf, EntryIn
<1>2. CASE Same
  BY <1>1, <1>2 DEF Same
<1>3. ASSUME NEW v \in Wallets, Closing(v)
      PROVE  Packed(EntryIn(store', w, p).ring)
  BY <1>1, <1>3, NewEntryEmpty DEF Closing
<1>4. ASSUME NEW v \in Wallets, NEW q \in Programs, NEW e, Becomes(v, q, e), Packed(e.ring)
      PROVE  Packed(EntryIn(store', w, p).ring)
  BY <1>1, <1>4 DEF Becomes
<1>5. ASSUME NEW v \in Wallets, NEW q \in Programs, NEW k \in OnCurve, Granting(v, q, k)
      PROVE  Packed(EntryIn(store', w, p).ring)
  <2> DEFINE e == EntryIn(store, v, q)
  <2>1. Packed(Grant(e, k).ring)
    <3>1. CASE k \in Held(e)
      BY <1>1, <3>1 DEF Grant
    <3>2. CASE k \notin Held(e)
      <4>1. e \in SessionEntry /\ Packed(e.ring)
        BY <1>1
      <4> HIDE DEF e
      <4> QED BY <3>2, <4>1, QueueGranted
    <3> QED BY <3>1, <3>2
  <2> QED BY <1>1, <1>5, <2>1 DEF Granting, Becomes
<1>6. ASSUME NEW v \in Wallets, NEW q \in Programs, NEW k \in OnCurve, NEW t \in Times,
             Lending(v, q, k, t)
      PROVE  Packed(EntryIn(store', w, p).ring)
  <2>1. Packed(GrantTemporary(EntryIn(store, v, q), k, t).ring)
    BY <1>1, LentAndGranted
  <2> QED BY <1>1, <1>6, <2>1 DEF Lending, Becomes
<1>7. ASSUME NEW v \in Wallets, NEW q \in Programs, NEW k \in Keys, Revoking(v, q, k)
      PROVE  Packed(EntryIn(store', w, p).ring)
  <2>1. Packed(Revoke(EntryIn(store, v, q), k).ring)
    BY <1>1, <1>7, QueueRevoked DEF Revoking
  <2> QED BY <1>1, <1>7, <2>1 DEF Revoking, Becomes
<1>8. ASSUME NEW v \in Wallets, NEW q \in Programs, Becomes(v, q, NewEntry)
      PROVE  Packed(EntryIn(store', w, p).ring)
  BY <1>1, <1>8, NewEntryEmpty DEF Becomes
<1> QED BY <1>2, <1>3, <1>5, <1>6, <1>7, <1>8 DEF Outcome

(* A ring is packed oldest first, without gaps or repetitions, whatever    *)
(* was granted, evicted, revoked, dropped and closed before.               *)
THEOREM RingsStayPacked == Spec => []RingPacked
<1>1. Init => RingPacked
  BY NewEntryEmpty DEF Init, RingPacked, EntryOf
<1>2. TypeOK /\ RingPacked /\ [Next]_vars => RingPacked'
  BY StepOutcome, PackedStep
<1> QED BY <1>1, <1>2, StoreTyped, PTL DEF Spec

----------------------------------------------------------------------------
(* No key comes to consent but one granted, lent or kept by the one entry  *)
(* that changes.                                                           *)
LEMMA OneProgramConsents ==
    ASSUME TypeOK, [Next]_vars,
           NEW w \in Wallets, NEW p \in Programs, NEW q \in Programs, NEW k \in Keys, NEW l \in Keys,
           MayConsent(w, k, p)', ~MayConsent(w, k, p),
           MayConsent(w, l, q)', ~MayConsent(w, l, q)
    PROVE  p = q
<1>1. /\ EntryAllows(EntryIn(store', w, p), k, now') /\ ~EntryAllows(EntryIn(store, w, p), k, now)
      /\ EntryAllows(EntryIn(store', w, q), l, now') /\ ~EntryAllows(EntryIn(store, w, q), l, now)
      /\ k # ZeroKey /\ l # ZeroKey
  <2>1. k # ZeroKey /\ l # ZeroKey
    BY AddressesAssumption DEF Keys
  <2>2. ~EntryAllows(NewEntry, k, now) /\ ~EntryAllows(NewEntry, l, now)
    BY <2>1, NewEntryEmpty DEF EntryAllows
  <2> QED BY <2>1, <2>2 DEF MayConsent, Allows, EntryIn, EntryFor
<1>2. Outcome
  BY StepOutcome
<1>3. UNCHANGED now
  <2>1. ASSUME now' = now + 1, Same
        PROVE  FALSE
    <3>1. EntryIn(store, w, p) \in SessionEntry /\ EntryIn(store', w, p) = EntryIn(store, w, p)
      BY <2>1, EntryInTyped DEF Same
    <3>2. now \in Nat /\ EntryIn(store, w, p).expiresAt \in Nat
      BY <3>1, SessionsAssumption DEF TypeOK, Times, SessionEntry
    <3> QED BY <1>1, <2>1, <3>1, <3>2 DEF EntryAllows
  <2> QED BY <1>2, <2>1 DEF Outcome
<1>4. ~Same
  BY <1>1, <1>3 DEF Same
<1>5. ~(\E v \in Wallets : Closing(v))
  <2>1. ~EntryAllows(NewEntry, k, now)
    BY <1>1, NewEntryEmpty DEF EntryAllows
  <2> QED BY <1>1, <1>3, <2>1 DEF Closing
<1>6. \E v \in Wallets, r \in Programs : \E e : Becomes(v, r, e)
  <2>1. now' # now + 1
    BY <1>3, SessionsAssumption DEF TypeOK, Times
  <2> QED BY <1>2, <1>4, <1>5, <2>1 DEF Outcome, Granting, Lending, Revoking
<1> QED BY <1>1, <1>3, <1>6 DEF Becomes

(* A grant reaches one program only.                                       *)
THEOREM GrantsReachOneProgram == Spec => GrantIsPerProgram
<1>1. TypeOK /\ [Next]_vars =>
         \A w \in Wallets, p, q \in Programs, k, l \in Keys :
             (/\ MayConsent(w, k, p)' /\ ~MayConsent(w, k, p)
              /\ MayConsent(w, l, q)' /\ ~MayConsent(w, l, q)) => p = q
  BY OneProgramConsents
<1> QED BY <1>1, StoreTyped, PTL DEF Spec, GrantIsPerProgram


----------------------------------------------------------------------------
(* The promise's variables, seen in the stores st.                         *)
LoanOf(e) == IF e.temporary = ZeroKey THEN ZeroKey
             ELSE [key |-> e.temporary, until |-> e.expiresAt]
HeldIn(st) == [w \in Wallets |-> [p \in Programs |-> Queue(EntryIn(st, w, p).ring)]]
LentIn(st) == [w \in Wallets |-> [p \in Programs |-> LoanOf(EntryIn(st, w, p))]]

Table(f) == f = [w \in Wallets |-> [p \in Programs |-> f[w][p]]]

(* A table that differs at one place, or at one wallet, is an update.      *)
LEMMA UpdatedAt ==
    ASSUME NEW f, NEW g, Table(f), Table(g), NEW v \in Wallets, NEW q \in Programs,
           \A w \in Wallets, p \in Programs : w # v \/ p # q => g[w][p] = f[w][p]
    PROVE  g = [f EXCEPT ![v][q] = g[v][q]]
<1> DEFINE h == [f EXCEPT ![v][q] = g[v][q]]
<1>1. /\ f = [w \in Wallets |-> f[w]] /\ g = [w \in Wallets |-> g[w]]
      /\ h = [w \in Wallets |-> h[w]]
  BY DEF Table
<1>2. \A w \in Wallets : /\ f[w] = [p \in Programs |-> f[w][p]]
                         /\ g[w] = [p \in Programs |-> g[w][p]]
  BY DEF Table
<1>3. ASSUME NEW w \in Wallets
      PROVE  h[w] = g[w]
  <2>1. CASE w = v
    <3>1. h[w] = [f[v] EXCEPT ![q] = g[v][q]]
      BY <1>1, <2>1
    <3>2. h[w] = [p \in Programs |-> IF p = q THEN g[v][q] ELSE f[v][p]]
      BY <1>2, <2>1, <3>1
    <3> QED BY <1>2, <2>1, <3>2
  <2>2. CASE w # v
    <3>1. h[w] = f[w]
      BY <1>1, <2>2
    <3> QED BY <1>2, <2>2, <3>1
  <2> QED BY <2>1, <2>2
<1> HIDE DEF h
<1>4. h = g
  BY <1>1, <1>3
<1> QED BY <1>4 DEF h

(* ... or, at a wallet, of its whole row.                                   *)
LEMMA UpdatedFor ==
    ASSUME NEW f, NEW g, Table(f), Table(g), NEW v \in Wallets,
           \A w \in Wallets, p \in Programs : w # v => g[w][p] = f[w][p]
    PROVE  g = [f EXCEPT ![v] = g[v]]
<1> DEFINE h == [f EXCEPT ![v] = g[v]]
<1>1. /\ f = [w \in Wallets |-> f[w]] /\ g = [w \in Wallets |-> g[w]]
      /\ h = [w \in Wallets |-> h[w]]
  BY DEF Table
<1>2. \A w \in Wallets : /\ f[w] = [p \in Programs |-> f[w][p]]
                         /\ g[w] = [p \in Programs |-> g[w][p]]
  BY DEF Table
<1>3. \A w \in Wallets : h[w] = g[w]
  BY <1>1, <1>2
<1> HIDE DEF h
<1>4. h = g
  BY <1>1, <1>3
<1> QED BY <1>4 DEF h

(* Tables that agree everywhere are one.                                   *)
LEMMA SameTable ==
    ASSUME NEW f, NEW g, Table(f), Table(g),
           \A w \in Wallets, p \in Programs : g[w][p] = f[w][p]
    PROVE  g = f
BY DEF Table

(* What the tables hold.                                                   *)
LEMMA InTables ==
    ASSUME NEW st
    PROVE  /\ Table(HeldIn(st)) /\ Table(LentIn(st))
           /\ \A w \in Wallets, p \in Programs :
                 /\ HeldIn(st)[w][p] = Queue(EntryIn(st, w, p).ring)
                 /\ LentIn(st)[w][p] = LoanOf(EntryIn(st, w, p))
BY DEF Table, HeldIn, LentIn

(* The refinement mapping, before and after.                               *)
LEMMA Mapped ==
    /\ [w \in Wallets |-> [p \in Programs |-> Persisted(w, p)]] = HeldIn(store)
    /\ [w \in Wallets |-> [p \in Programs |-> Lent(w, p)]] = LentIn(store)
    /\ [w \in Wallets |-> [p \in Programs |-> Persisted(w, p)']] = HeldIn(store')
    /\ [w \in Wallets |-> [p \in Programs |-> Lent(w, p)']] = LentIn(store')
BY DEF Persisted, Lent, HeldIn, LentIn, LoanOf, EntryOf, EntryIn

(* Each outcome is a step of the promise, or none.                         *)
LEMMA PromiseStep ==
    TypeOK /\ RingPacked /\ Outcome => [Promise!Next]_(Promise!vars)
<1> SUFFICES ASSUME TypeOK, RingPacked, Outcome
             PROVE  Promise!Next \/ UNCHANGED Promise!vars
  OBVIOUS
<1> DEFINE h == HeldIn(store)
           hh == HeldIn(store')
           l == LentIn(store)
           ll == LentIn(store')
<1>1. \A v \in Wallets, q \in Programs :
         EntryIn(store, v, q) \in SessionEntry /\ Packed(EntryIn(store, v, q).ring)
  BY EntryInTyped DEF RingPacked, EntryOf, EntryIn
<1>2. /\ Table(h) /\ Table(hh) /\ Table(l) /\ Table(ll)
      /\ \A w \in Wallets, p \in Programs :
            /\ h[w][p] = Queue(EntryIn(store, w, p).ring)
            /\ hh[w][p] = Queue(EntryIn(store', w, p).ring)
            /\ l[w][p] = LoanOf(EntryIn(store, w, p))
            /\ ll[w][p] = LoanOf(EntryIn(store', w, p))
  BY InTables
<1> HIDE DEF h, hh, l, ll
<1>3. ASSUME Same
      PROVE  hh = h /\ ll = l
  BY <1>2, <1>3, SameTable DEF Same
<1>4. ASSUME NEW v \in Wallets, NEW q \in Programs, NEW e, Becomes(v, q, e)
      PROVE  /\ hh = [h EXCEPT ![v][q] = Queue(e.ring)]
             /\ ll = [l EXCEPT ![v][q] = LoanOf(e)]
             /\ Queue(e.ring) = h[v][q] => hh = h
             /\ LoanOf(e) = l[v][q] => ll = l
  <2>1. \A w \in Wallets, p \in Programs :
           /\ w # v \/ p # q => hh[w][p] = h[w][p] /\ ll[w][p] = l[w][p]
           /\ hh[v][q] = Queue(e.ring) /\ ll[v][q] = LoanOf(e)
    BY <1>2, <1>4 DEF Becomes
  <2>2. hh = [h EXCEPT ![v][q] = hh[v][q]] /\ ll = [l EXCEPT ![v][q] = ll[v][q]]
    <3>1. \A w \in Wallets, p \in Programs : w # v \/ p # q => hh[w][p] = h[w][p]
      BY <2>1
    <3>2. \A w \in Wallets, p \in Programs : w # v \/ p # q => ll[w][p] = l[w][p]
      BY <2>1
    <3>3. hh = [h EXCEPT ![v][q] = hh[v][q]]
      BY ONLY <1>2, <3>1, UpdatedAt, v \in Wallets, q \in Programs
    <3>4. ll = [l EXCEPT ![v][q] = ll[v][q]]
      BY ONLY <1>2, <3>2, UpdatedAt, v \in Wallets, q \in Programs
    <3> QED BY <3>3, <3>4
  <2>3. Queue(e.ring) = h[v][q] => \A w \in Wallets, p \in Programs : hh[w][p] = h[w][p]
    BY <2>1
  <2>4. LoanOf(e) = l[v][q] => \A w \in Wallets, p \in Programs : ll[w][p] = l[w][p]
    BY <2>1
  <2> QED BY <1>2, <2>1, <2>2, <2>3, <2>4, SameTable
<1>5. ASSUME UNCHANGED now, hh = h, ll = l
      PROVE  UNCHANGED Promise!vars
  BY <1>5, Mapped DEF Promise!vars, h, hh, l, ll
<1>6. CASE Same /\ now' = now
  BY <1>3, <1>5, <1>6
<1>7. CASE Same /\ now' = now + 1
  <2>1. Promise!Pass
    BY <1>3, <1>7, Mapped DEF Promise!Pass, h, hh, l, ll
  <2> QED BY <2>1 DEF Promise!Next
<1>8. ASSUME NEW v \in Wallets, UNCHANGED now, Closing(v)
      PROVE  Promise!Next
  <2>1. \A w \in Wallets, p \in Programs :
           /\ w # v => hh[w][p] = h[w][p] /\ ll[w][p] = l[w][p]
           /\ hh[v][p] = <<>> /\ ll[v][p] = ZeroKey
    <3>1. Queue(NewEntry.ring) = <<>> /\ LoanOf(NewEntry) = ZeroKey
      BY NewEntryEmpty DEF LoanOf
    <3>2. \A w \in Wallets, p \in Programs : w # v => EntryIn(store', w, p) = EntryIn(store, w, p)
      BY <1>8 DEF Closing
    <3>3. \A p \in Programs : EntryIn(store', v, p) = NewEntry
      BY <1>8 DEF Closing
    <3> QED BY <1>2, <3>1, <3>2, <3>3
  <2>2. hh = [h EXCEPT ![v] = hh[v]] /\ ll = [l EXCEPT ![v] = ll[v]]
    BY <1>2, <2>1, UpdatedFor
  <2>3. hh[v] = [p \in Programs |-> <<>>] /\ ll[v] = [p \in Programs |-> ZeroKey]
    BY <1>2, <2>1 DEF Table
  <2>4. Promise!Leave(v)
    BY <1>8, <2>2, <2>3, Mapped DEF Promise!Leave, h, hh, l, ll
  <2> QED BY <2>4 DEF Promise!Next
<1>9. ASSUME NEW v \in Wallets, NEW q \in Programs, NEW k \in OnCurve, UNCHANGED now,
             Granting(v, q, k)
      PROVE  Promise!Next \/ UNCHANGED Promise!vars
  <2> DEFINE e == EntryIn(store, v, q)
  <2>1. e \in SessionEntry /\ Packed(e.ring) /\ h[v][q] = Queue(e.ring) /\ l[v][q] = LoanOf(e)
    BY <1>1, <1>2
  <2>2. /\ hh = [h EXCEPT ![v][q] = Queue(Grant(e, k).ring)]
        /\ Queue(Grant(e, k).ring) = h[v][q] => hh = h
        /\ LoanOf(Grant(e, k)) = l[v][q] => ll = l
    BY <1>4, <1>9 DEF Granting
  <2> HIDE DEF e
  <2>3. LoanOf(Grant(e, k)) = LoanOf(e)
    BY <2>1 DEF LoanOf, Grant, SessionEntry
  <2>4. ll = l
    BY <2>1, <2>2, <2>3
  <2>5. CASE k \in Held(e)
    <3>1. hh = h
      BY <2>1, <2>2, <2>5 DEF Grant
    <3> QED BY <1>5, <1>9, <2>4, <3>1
  <2>6. CASE k \notin Held(e)
    <3>1. /\ \A i \in 1..Len(h[v][q]) : h[v][q][i] # k
          /\ Queue(Grant(e, k).ring) =
                Append(IF Len(h[v][q]) = Ring THEN Tail(h[v][q]) ELSE h[v][q], k)
      BY <2>1, <2>6, QueueGranted
    <3>2. hh = [h EXCEPT ![v][q] = Append(IF Len(h[v][q]) = Ring THEN Tail(h[v][q]) ELSE h[v][q], k)]
      BY <2>2, <3>1
    <3>3. Promise!Persist(v, q, k)
      BY <1>9, <2>4, <3>1, <3>2, Mapped DEF Promise!Persist, Promise!Has, h, hh, l, ll
    <3> QED BY <3>3 DEF Promise!Next
  <2> QED BY <2>5, <2>6
<1>10. ASSUME NEW v \in Wallets, NEW q \in Programs, NEW k \in OnCurve, NEW t \in Times,
              UNCHANGED now, Lending(v, q, k, t)
       PROVE  Promise!Next
  <2> DEFINE e == EntryIn(store, v, q)
             f == GrantTemporary(e, k, t)
  <2>1. e \in SessionEntry /\ h[v][q] = Queue(e.ring)
    BY <1>1, <1>2
  <2>2. /\ Queue(f.ring) = h[v][q] => hh = h
        /\ ll = [l EXCEPT ![v][q] = LoanOf(f)]
    BY <1>4, <1>10 DEF Lending
  <2> HIDE DEF e
  <2>3. f.ring = e.ring /\ f.temporary = k /\ f.expiresAt = t
    BY <2>1, LentAndGranted
  <2>4. LoanOf(f) = [key |-> k, until |-> t]
    BY <2>3, KeyKinds DEF LoanOf
  <2> HIDE DEF f
  <2>5. Promise!Lend(v, q, k, t)
    BY <1>10, <2>1, <2>2, <2>3, <2>4, Mapped DEF Promise!Lend, Lending, h, hh, l, ll
  <2> QED BY <2>5 DEF Promise!Next
<1>11. ASSUME NEW v \in Wallets, NEW q \in Programs, NEW k \in Keys, UNCHANGED now,
              Revoking(v, q, k)
       PROVE  Promise!Next \/ UNCHANGED Promise!vars
  <2> DEFINE e == EntryIn(store, v, q)
             f == Revoke(e, k)
  <2>1. e \in SessionEntry /\ Packed(e.ring) /\ h[v][q] = Queue(e.ring) /\ l[v][q] = LoanOf(e)
    BY <1>1, <1>2
  <2>2. /\ hh = [h EXCEPT ![v][q] = Queue(f.ring)] /\ ll = [l EXCEPT ![v][q] = LoanOf(f)]
        /\ Queue(f.ring) = h[v][q] => hh = h
        /\ LoanOf(f) = l[v][q] => ll = l
        /\ k # ZeroKey
    BY <1>4, <1>11 DEF Revoking
  <2> HIDE DEF e
  <2>3. /\ h[v][q] \in Seq(OnCurve)
        /\ \/ \E i \in 1..Len(h[v][q]) : h[v][q][i] = k /\ Queue(f.ring) = Promise!RemoveAt(h[v][q], i)
           \/ (\A i \in 1..Len(h[v][q]) : h[v][q][i] # k) /\ Queue(f.ring) = h[v][q]
    BY <2>1, <2>2, QueueRevoked
  <2>4. /\ f.temporary = IF e.temporary = k THEN ZeroKey ELSE e.temporary
        /\ f.expiresAt = IF e.temporary = k THEN 0 ELSE e.expiresAt
    BY DEF Revoke
  <2> HIDE DEF f
  <2>5. LoanOf(f) = IF e.temporary = k THEN ZeroKey ELSE LoanOf(e)
    BY <2>4 DEF LoanOf
  <2>6. CASE k \in OnCurve
    <3>1. LoanOf(f) = IF l[v][q] # ZeroKey /\ l[v][q].key = k THEN ZeroKey ELSE l[v][q]
      BY <2>1, <2>2, <2>5 DEF LoanOf
    <3>2. ll = [l EXCEPT ![v][q] = IF l[v][q] # ZeroKey /\ l[v][q].key = k THEN ZeroKey ELSE l[v][q]]
      BY <2>2, <3>1
    <3>3. ASSUME NEW i \in 1..Len(h[v][q]), h[v][q][i] = k,
                 Queue(f.ring) = Promise!RemoveAt(h[v][q], i)
          PROVE  Promise!Forget(v, q, k)
      <4>1. hh = [h EXCEPT ![v][q] = Promise!RemoveAt(h[v][q], i)]
        BY <2>2, <3>3
      <4> QED BY <1>11, <3>2, <3>3, <4>1, Mapped DEF Promise!Forget, Promise!Has, h, hh, l, ll
    <3>4. ASSUME \A i \in 1..Len(h[v][q]) : h[v][q][i] # k, Queue(f.ring) = h[v][q]
          PROVE  Promise!Forget(v, q, k)
      <4>1. hh = h
        BY <2>2, <3>4
      <4> QED BY <1>11, <3>2, <3>4, <4>1, Mapped DEF Promise!Forget, Promise!Has, h, hh, l, ll
    <3>5. Promise!Forget(v, q, k)
      BY <2>3, <3>3, <3>4
    <3> QED BY <2>6, <3>5 DEF Promise!Next
  <2>7. CASE k \notin OnCurve
    <3>1. e.temporary # k
      BY <2>1, <2>2, <2>7 DEF SessionEntry, KeyOrZero
    <3>2. \A i \in 1..Len(h[v][q]) : h[v][q][i] # k
      BY <2>3, <2>7, ElementOfSeq
    <3>3. hh = h /\ ll = l
      BY <2>1, <2>2, <2>3, <2>5, <3>1, <3>2
    <3> QED BY <1>5, <1>11, <3>3
  <2> QED BY <2>6, <2>7
<1>12. ASSUME NEW v \in Wallets, NEW q \in Programs, UNCHANGED now, Becomes(v, q, NewEntry)
       PROVE  Promise!Next
  <2>1. Queue(NewEntry.ring) = <<>> /\ LoanOf(NewEntry) = ZeroKey
    BY NewEntryEmpty DEF LoanOf
  <2>2. hh = [h EXCEPT ![v][q] = <<>>] /\ ll = [l EXCEPT ![v][q] = ZeroKey]
    BY <1>4, <1>12, <2>1
  <2>3. Promise!DropProgram(v, q)
    BY <1>12, <2>2, Mapped DEF Promise!DropProgram, h, hh, l, ll
  <2> QED BY <2>3 DEF Promise!Next
<1> QED BY <1>6, <1>7, <1>8, <1>9, <1>10, <1>11, <1>12 DEF Outcome

(* The array of zeroable places, with its evictions, revocations and       *)
(* closings, is the queue a wallet is promised.                            *)
THEOREM QueueKept == Spec => KeepsPromise
<1>1. Init => Promise!Init
  <2> SUFFICES ASSUME Init
               PROVE  Promise!Init
    OBVIOUS
  <2>1. \A w \in Wallets, p \in Programs : EntryIn(store, w, p) = NewEntry
    BY DEF Init, EntryIn
  <2>2. /\ HeldIn(store) = [w \in Wallets |-> [p \in Programs |-> <<>>]]
        /\ LentIn(store) = [w \in Wallets |-> [p \in Programs |-> ZeroKey]]
    BY <2>1, NewEntryEmpty DEF HeldIn, LentIn, LoanOf
  <2> QED BY <2>2, Mapped DEF Promise!Init, Init
<1>2. TypeOK /\ RingPacked /\ [Next]_vars => [Promise!Next]_(Promise!vars)
  BY StepOutcome, PromiseStep
<1> QED BY <1>1, <1>2, StoreTyped, RingsStayPacked, PTL DEF Spec, KeepsPromise, Promise!Spec

=============================================================================
