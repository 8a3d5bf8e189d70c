-------------------------- MODULE LedgerRentProofs --------------------------
(***************************************************************************)
(* The lamports at the vault's accounts, for any number of owners, sizes,  *)
(* sponsors and strangers' gifts: every account is rent exempt, and what a *)
(* key put up is where it can come back to that key.                       *)
(*                                                                         *)
(* What one step does at one address is one of five things (Turn), and     *)
(* each of the five keeps that address in balance (Balanced).              *)
(***************************************************************************)
EXTENDS LedgerRent, VaultProofs

(* Who the lamports at an account go to when it closes.                    *)
Heir(a) == IF a[1] = "session" THEN a[2] ELSE base[a[2]].rentPayer

(* The kinds of addresses are apart, and so are the owners'.               *)
LEMMA AddressKinds ==
    /\ \A a \in AccountAddresses : \E o \in Owners :
          a \in {LedgerAt(o), PermissionAt(o), SessionAt(o)}
    /\ \A o \in Owners : {LedgerAt(o), PermissionAt(o), SessionAt(o)} \subseteq AccountAddresses
    /\ \A o, x : /\ LedgerAt(o) # PermissionAt(x) /\ LedgerAt(o) # SessionAt(x)
                 /\ PermissionAt(o) # SessionAt(x)
                 /\ LedgerAt(o) = LedgerAt(x) => o = x
                 /\ PermissionAt(o) = PermissionAt(x) => o = x
                 /\ SessionAt(o) = SessionAt(x) => o = x
BY DEF AccountAddresses, LedgerAt, PermissionAt, SessionAt

(* What each kind of account asks for, before and after a step.            *)
LEMMA Dues ==
    ASSUME NEW o \in Owners
    PROVE  /\ RentDue(LedgerAt(o)) = IF Exists(o) THEN 1 + base[o].capacity ELSE 0
           /\ RentDue(PermissionAt(o)) = IF permission[o] # NoPermission THEN 1 ELSE 0
           /\ RentDue(SessionAt(o)) = IF o \in Wallets /\ store[o] # NoStore
                                      THEN 1 + Cardinality(DOMAIN store[o]) ELSE 0
           /\ Heir(LedgerAt(o)) = base[o].rentPayer
           /\ Heir(PermissionAt(o)) = base[o].rentPayer
           /\ Heir(SessionAt(o)) = o
           /\ RentDue(LedgerAt(o))' = IF Exists(o)' THEN 1 + base'[o].capacity ELSE 0
           /\ RentDue(PermissionAt(o))' = IF permission'[o] # NoPermission THEN 1 ELSE 0
           /\ RentDue(SessionAt(o))' = IF o \in Wallets /\ store'[o] # NoStore
                                       THEN 1 + Cardinality(DOMAIN store'[o]) ELSE 0
           /\ Heir(LedgerAt(o))' = base'[o].rentPayer
           /\ Heir(PermissionAt(o))' = base'[o].rentPayer
           /\ Heir(SessionAt(o))' = o
BY DEF RentDue, Heir, LedgerAt, PermissionAt, SessionAt, LedgerRentFor, PermissionRent,
       SessionRentFor

----------------------------------------------------------------------------
(* The balance of one address: what is there covers what is asked for; no  *)
(* key took out more than gifts, nor has more in than is there; only the   *)
(* heir of an account that exists has anything in; and what is there and   *)
(* not the heir's are gifts, as all of it is where there is no account.    *)
Balanced(a) ==
    /\ RentDue(a) \in Nat /\ RentDue(a) <= lamports[a]
    /\ \A k \in Keys :
          /\ -gifts <= fronted[k][a] /\ fronted[k][a] <= lamports[a]
          /\ fronted[k][a] > 0 => RentDue(a) > 0 /\ k = Heir(a)
          /\ RentDue(a) = 0 \/ k = Heir(a) => lamports[a] - fronted[k][a] <= gifts

RentTypes ==
    /\ lamports \in [AccountAddresses -> Nat]
    /\ fronted \in [Keys -> [AccountAddresses -> Int]]
    /\ gifts \in Nat

(* Key k brings what is at a to n.                                         *)
Shifted(a, k, n) ==
    /\ lamports'[a] = n /\ gifts' = gifts
    /\ \A j \in Keys : fronted'[j][a] = fronted[j][a] + IF j = k THEN n - lamports[a] ELSE 0

Idle(a) ==
    /\ lamports'[a] = lamports[a] /\ gifts' \in {gifts, gifts + 1}
    /\ \A j \in Keys : fronted'[j][a] = fronted[j][a]
    /\ RentDue(a)' = RentDue(a)
    /\ RentDue(a) > 0 => Heir(a)' = Heir(a)

Given(a) ==
    /\ lamports'[a] = lamports[a] + 1 /\ gifts' = gifts + 1
    /\ \A j \in Keys : fronted'[j][a] = fronted[j][a]
    /\ RentDue(a)' = RentDue(a) /\ Heir(a)' = Heir(a)

Raised(a, k) ==
    /\ RentDue(a)' \in Nat \ {0} /\ Heir(a)' = k
    /\ RentDue(a) > 0 => Heir(a) = k
    /\ Shifted(a, k, TopUp(a, RentDue(a)'))

Lowered(a) ==
    /\ RentDue(a)' \in Nat \ {0} /\ RentDue(a) > 0 /\ RentDue(a)' <= RentDue(a)
    /\ Heir(a)' = Heir(a)
    /\ Shifted(a, Heir(a), RentDue(a)')

Emptied(a) ==
    /\ RentDue(a)' = 0 /\ RentDue(a) > 0
    /\ Shifted(a, Heir(a), 0)

Turn(a) == Idle(a) \/ Given(a) \/ (\E k \in Keys : Raised(a, k)) \/ Lowered(a) \/ Emptied(a)

(* Whichever of these happens at an address, it stays in balance.          *)
LEMMA StaysBalanced ==
    ASSUME RentTypes, RentTypes', NEW a \in AccountAddresses, Balanced(a), Turn(a)
    PROVE  Balanced(a)'
<1>1. /\ lamports[a] \in Nat /\ gifts \in Nat /\ RentDue(a) \in Nat /\ RentDue(a) <= lamports[a]
      /\ lamports'[a] \in Nat /\ gifts' \in Nat
      /\ \A k \in Keys : fronted[k][a] \in Int /\ fronted'[k][a] \in Int
  BY DEF RentTypes, Balanced
<1>2. ASSUME NEW k \in Keys
      PROVE  /\ -gifts <= fronted[k][a] /\ fronted[k][a] <= lamports[a]
             /\ fronted[k][a] > 0 => RentDue(a) > 0 /\ k = Heir(a)
             /\ RentDue(a) = 0 \/ k = Heir(a) => lamports[a] - fronted[k][a] <= gifts
  BY <1>2 DEF Balanced
<1> SUFFICES ASSUME NEW k \in Keys
             PROVE  /\ RentDue(a)' \in Nat /\ RentDue(a)' <= lamports'[a]
                    /\ -gifts' <= fronted'[k][a] /\ fronted'[k][a] <= lamports'[a]
                    /\ fronted'[k][a] > 0 => RentDue(a)' > 0 /\ k = Heir(a)'
                    /\ RentDue(a)' = 0 \/ k = Heir(a)' => lamports'[a] - fronted'[k][a] <= gifts'
  <2>1. Keys = {} => RentDue(a)' \in Nat /\ RentDue(a)' <= lamports'[a]
    BY <1>1 DEF Turn, Idle, Given, Raised, Lowered, Emptied, Shifted, TopUp
  <2> QED BY <2>1 DEF Balanced
<1>3. CASE Idle(a)
  BY <1>1, <1>2, <1>3 DEF Idle
<1>4. CASE Given(a)
  BY <1>1, <1>2, <1>4 DEF Given
<1>5. ASSUME NEW j \in Keys, Raised(a, j)
      PROVE  /\ RentDue(a)' \in Nat /\ RentDue(a)' <= lamports'[a]
             /\ -gifts' <= fronted'[k][a] /\ fronted'[k][a] <= lamports'[a]
             /\ fronted'[k][a] > 0 => RentDue(a)' > 0 /\ k = Heir(a)'
             /\ RentDue(a)' = 0 \/ k = Heir(a)' => lamports'[a] - fronted'[k][a] <= gifts'
  BY <1>1, <1>2, <1>5 DEF Raised, Shifted, TopUp
<1>6. CASE Lowered(a)
  BY <1>1, <1>2, <1>6 DEF Lowered, Shifted
<1>7. CASE Emptied(a)
  BY <1>1, <1>2, <1>7 DEF Emptied, Shifted
<1> QED BY <1>3, <1>4, <1>5, <1>6, <1>7 DEF Turn

----------------------------------------------------------------------------
(* What the instructions do, address by address.                           *)
StoresFinite == \A w \in Wallets : store[w] # NoStore => IsFiniteSet(DOMAIN store[w])

RentStep == RentTypes' /\ StoresFinite' /\ \A a \in AccountAddresses : Turn(a)

Unmoved(a) ==
    /\ lamports'[a] = lamports[a] /\ gifts' = gifts
    /\ \A j \in Keys : fronted'[j][a] = fronted[j][a]

(* A payment moves what it names and nothing else.                         *)
LEMMA MovedAt ==
    ASSUME RentTypes, NEW after, NEW by, DOMAIN after \subseteq AccountAddresses,
           \A a \in DOMAIN after : after[a] \in Nat, Moved(after, by)
    PROVE  /\ RentTypes'
           /\ \A a \in DOMAIN after : Shifted(a, by[a], after[a])
           /\ \A a \in AccountAddresses \ DOMAIN after : Unmoved(a)
<1>1. /\ lamports \in [AccountAddresses -> Nat] /\ gifts \in Nat /\ gifts' = gifts
      /\ fronted \in [Keys -> [AccountAddresses -> Int]]
      /\ lamports' = [a \in AccountAddresses |->
                         IF a \in DOMAIN after THEN after[a] ELSE lamports[a]]
      /\ fronted' = [k \in Keys |-> [a \in AccountAddresses |->
                        fronted[k][a] + IF a \in DOMAIN after /\ by[a] = k
                                        THEN after[a] - lamports[a] ELSE 0]]
  BY DEF RentTypes, Moved
<1>2. ASSUME NEW a \in AccountAddresses
      PROVE  /\ lamports'[a] = (IF a \in DOMAIN after THEN after[a] ELSE lamports[a])
             /\ lamports'[a] \in Nat
             /\ \A k \in Keys : /\ fronted'[k][a] \in Int
                                /\ fronted'[k][a] = fronted[k][a]
                                      + IF a \in DOMAIN after /\ by[a] = k
                                        THEN after[a] - lamports[a] ELSE 0
  BY <1>1, <1>2
<1>3. RentTypes'
  BY <1>1, <1>2 DEF RentTypes
<1>4. \A a \in DOMAIN after : Shifted(a, by[a], after[a])
  BY <1>1, <1>2 DEF Shifted
<1>5. \A a \in AccountAddresses \ DOMAIN after : Unmoved(a)
  BY <1>1, <1>2 DEF Unmoved
<1> QED BY <1>3, <1>4, <1>5

(* Whoever pays up accounts leaves the others alone.                       *)
LEMMA PaidUpAt ==
    ASSUME RentTypes, NEW k, NEW n \in Nat, NEW accounts \in SUBSET AccountAddresses,
           PaidUp(k, accounts, n)
    PROVE  /\ RentTypes'
           /\ \A a \in accounts : Shifted(a, k, TopUp(a, NewRent(a, n)))
           /\ \A a \in AccountAddresses \ accounts : Unmoved(a)
<1> DEFINE after == [a \in accounts |-> TopUp(a, NewRent(a, n))]
           by == [a \in DOMAIN after |-> k]
<1>1. DOMAIN after = accounts /\ \A a \in accounts : after[a] \in Nat
  BY DEF TopUp, NewRent, LedgerRentFor, PermissionRent, SessionRentFor, RentTypes
<1>2. Moved(after, by)
  BY DEF PaidUp, MovedBy
<1>3. \A a \in accounts : after[a] = TopUp(a, NewRent(a, n)) /\ by[a] = k
  BY <1>1
<1> HIDE DEF after, by
<1>4. /\ RentTypes'
      /\ \A a \in accounts : Shifted(a, by[a], after[a])
      /\ \A a \in AccountAddresses \ accounts : Unmoved(a)
  BY <1>1, <1>2, MovedAt
<1> QED BY <1>3, <1>4

(* A step that writes owner o's accounts only.                             *)
Others(o) ==
    \A x \in Owners \ {o} :
        /\ base'[x] = base[x] /\ permission'[x] = permission[x]
        /\ x \in Wallets => store'[x] = store[x]

(* Away from the owner a step is about, what no payment moves is idle.     *)
LEMMA IdleElsewhere ==
    ASSUME RentTypes, NEW o \in Owners, Others(o), NEW a \in AccountAddresses,
           a \notin {LedgerAt(o), PermissionAt(o), SessionAt(o)}, Unmoved(a)
    PROVE  Idle(a)
<1>1. PICK x \in Owners : a \in {LedgerAt(x), PermissionAt(x), SessionAt(x)}
  BY AddressKinds
<1>2. x # o
  BY <1>1
<1>3. /\ base'[x] = base[x] /\ permission'[x] = permission[x]
      /\ x \in Wallets => store'[x] = store[x]
  BY <1>1, <1>2 DEF Others
<1>4. RentDue(a)' = RentDue(a) /\ Heir(a)' = Heir(a)
  BY <1>1, <1>3, Dues DEF Exists
<1> QED BY <1>4 DEF Idle, Unmoved

(* A fresh store asks for its header.                                      *)
LEMMA EmptyStoreFacts ==
    /\ DOMAIN EmptyStore = {} /\ IsFiniteSet(DOMAIN EmptyStore)
    /\ Cardinality(DOMAIN EmptyStore) = 0 /\ EmptyStore # NoStore
<1>1. DOMAIN EmptyStore = {} /\ EmptyStore \in [{} -> SessionEntry]
  BY DEF EmptyStore
<1>2. EmptyStore \in Store
  BY <1>1 DEF Store
<1> QED BY <1>1, <1>2, StoreAssumption, FS_EmptySet

(* One owner's accounts are made or grown: k pays up those of `accounts`,  *)
(* the others stay as they are.                                            *)
LEMMA PaysUp ==
    ASSUME RentTypes, StoresFinite, NEW o \in Owners, NEW k \in Keys, NEW n \in Nat, Others(o),
           NEW accounts \in SUBSET {LedgerAt(o), PermissionAt(o), SessionAt(o)},
           PaidUp(k, accounts, n),
           IF LedgerAt(o) \in accounts
           THEN /\ Exists(o)' /\ base'[o].capacity = n /\ base'[o].rentPayer = k
                /\ Exists(o) => base[o].rentPayer = k
           ELSE base'[o] = base[o],
           IF PermissionAt(o) \in accounts
           THEN /\ permission[o] = NoPermission /\ permission'[o] # NoPermission
                /\ base'[o].rentPayer = k
           ELSE /\ permission'[o] = permission[o]
                /\ permission[o] # NoPermission => base'[o].rentPayer = base[o].rentPayer,
           IF SessionAt(o) \in accounts
           THEN o \in Wallets /\ k = o /\ store[o] = NoStore /\ store'[o] = EmptyStore
           ELSE o \in Wallets => store'[o] = store[o]
    PROVE  RentStep
<1>1. /\ RentTypes'
      /\ \A a \in accounts : Shifted(a, k, TopUp(a, NewRent(a, n)))
      /\ \A a \in AccountAddresses \ accounts : Unmoved(a)
  <2>1. accounts \in SUBSET AccountAddresses
    BY AddressKinds
  <2> QED BY ONLY <2>1, RentTypes, n \in Nat, PaidUp(k, accounts, n), PaidUpAt
<1>2. StoresFinite'
  <2> SUFFICES ASSUME NEW w \in Wallets, store'[w] # NoStore
               PROVE  IsFiniteSet(DOMAIN store'[w])
    BY DEF StoresFinite
  <2>1. w \in Owners
    BY Constants
  <2> QED BY <2>1, EmptyStoreFacts DEF StoresFinite, Others
<1>3. Turn(LedgerAt(o))
  <2>1. CASE LedgerAt(o) \in accounts
    <3>1. NewRent(LedgerAt(o), n) = 1 + n
      BY DEF NewRent, LedgerAt, LedgerRentFor
    <3>2. RentDue(LedgerAt(o))' = 1 + n /\ Heir(LedgerAt(o))' = k
      BY <2>1, Dues
    <3>3. RentDue(LedgerAt(o)) > 0 => Heir(LedgerAt(o)) = k
      BY <2>1, Dues
    <3> QED BY <1>1, <2>1, <3>1, <3>2, <3>3 DEF Turn, Raised
  <2>2. CASE LedgerAt(o) \notin accounts
    <3>1. /\ RentDue(LedgerAt(o))' = RentDue(LedgerAt(o))
          /\ Heir(LedgerAt(o))' = Heir(LedgerAt(o))
      BY <2>2, Dues DEF Exists
    <3> QED BY <1>1, <2>2, <3>1, AddressKinds DEF Turn, Idle, Unmoved
  <2> QED BY <2>1, <2>2
<1>4. Turn(PermissionAt(o))
  <2>1. CASE PermissionAt(o) \in accounts
    <3>1. NewRent(PermissionAt(o), n) = 1
      BY DEF NewRent, PermissionAt, PermissionRent
    <3>2. RentDue(PermissionAt(o))' = 1 /\ Heir(PermissionAt(o))' = k
      BY <2>1, Dues
    <3>3. RentDue(PermissionAt(o)) = 0
      BY <2>1, Dues
    <3> QED BY <1>1, <2>1, <3>1, <3>2, <3>3 DEF Turn, Raised
  <2>2. CASE PermissionAt(o) \notin accounts
    <3>1. /\ RentDue(PermissionAt(o))' = RentDue(PermissionAt(o))
          /\ RentDue(PermissionAt(o)) > 0 => Heir(PermissionAt(o))' = Heir(PermissionAt(o))
      BY <2>2, Dues
    <3> QED BY <1>1, <2>2, <3>1, AddressKinds DEF Turn, Idle, Unmoved
  <2> QED BY <2>1, <2>2
<1>5. Turn(SessionAt(o))
  <2>1. CASE SessionAt(o) \in accounts
    <3>1. NewRent(SessionAt(o), n) = 1
      BY DEF NewRent, SessionAt, SessionRentFor
    <3>2. RentDue(SessionAt(o))' = 1 /\ Heir(SessionAt(o))' = k
      BY <2>1, Dues, EmptyStoreFacts
    <3>3. RentDue(SessionAt(o)) = 0
      BY <2>1, Dues
    <3> QED BY <1>1, <2>1, <3>1, <3>2, <3>3 DEF Turn, Raised
  <2>2. CASE SessionAt(o) \notin accounts
    <3>1. /\ RentDue(SessionAt(o))' = RentDue(SessionAt(o))
          /\ Heir(SessionAt(o))' = Heir(SessionAt(o))
      BY <2>2, Dues
    <3> QED BY <1>1, <2>2, <3>1, AddressKinds DEF Turn, Idle, Unmoved
  <2> QED BY <2>1, <2>2
<1>6. \A a \in AccountAddresses \ {LedgerAt(o), PermissionAt(o), SessionAt(o)} : Turn(a)
  BY <1>1, IdleElsewhere DEF Turn
<1> QED BY <1>1, <1>2, <1>3, <1>4, <1>5, <1>6 DEF RentStep

----------------------------------------------------------------------------
(* What every instruction relies on.                                       *)
Standing ==
    /\ Copies /\ PermissionTypes /\ Guarded /\ ReadersKept /\ SessionTypes
    /\ RentTypes /\ StoresFinite /\ \A a \in AccountAddresses : Balanced(a)

(* What a wallet's header says, and where nothing guards nothing.          *)
LEMMA StandingFacts ==
    ASSUME Standing, NEW o \in Owners
    PROVE  /\ DOMAIN base = Owners /\ DOMAIN permission = Owners /\ DOMAIN store = Wallets
           /\ ~Exists(o) => permission[o] = NoPermission
           /\ o \in Wallets /\ Exists(o) => base[o].rentPayer = o
           /\ base[o].capacity \in Nat
           /\ o \in Wallets => o \notin Pdas /\ store[o] \in Store \cup {NoStore}
<1>1. Sound(o, base[o], rollup[o], where[o])
  BY DEF Standing, Copies
<1>2. DOMAIN base = Owners /\ DOMAIN permission = Owners /\ DOMAIN store = Wallets
  BY DEF Standing, Copies, PermissionTypes, SessionTypes
<1>3. o \in Wallets => store[o] \in Store \cup {NoStore}
  BY DEF Standing, SessionTypes
<1> QED BY <1>1, <1>2, <1>3, Constants DEF Standing, Guarded, Sound, HeadOf, Good, Exists

(* open_wallet_ledger.                                                     *)
LEMMA OpenWalletTurns ==
    ASSUME Standing, NEW w \in Wallets, NEW n, NEW S, PayOpenWallet(w, n, S)
    PROVE  RentStep
<1> DEFINE accounts == {LedgerAt(w)} \cup NewPermission(w) \cup NewStore(w)
<1>1. w \in Owners /\ w \in Keys
  BY Constants
<1>2. /\ OpenWalletLedger(w, n, S) /\ n \in Nat \ {0} /\ PaidUp(w, accounts, n)
      /\ accounts \in SUBSET {LedgerAt(w), PermissionAt(w), SessionAt(w)}
  BY VaultAssumption DEF PayOpenWallet, OpenWalletLedger, NewPermission, NewStore
<1>3. /\ PermissionAt(w) \in accounts <=> permission[w] = NoPermission
      /\ SessionAt(w) \in accounts <=> store[w] = NoStore
      /\ LedgerAt(w) \in accounts
  BY AddressKinds DEF NewPermission, NewStore
<1> HIDE DEF accounts
<1>4. /\ base' = [base EXCEPT ![w] = NewLedger(w, ZeroKey, n)] /\ ~Exists(w)
      /\ permission' = [permission EXCEPT ![w] = {w}] /\ permission[w] = NoPermission
      /\ store' = [store EXCEPT ![w] = IF store[w] = NoStore THEN EmptyStore ELSE store[w]]
  BY <1>2 DEF OpenWalletLedger, EnsureStore, WalletMembers
<1>5. {w} # NoPermission
  BY <1>1, VaultAssumption
<1>6. NewLedger(w, ZeroKey, n).capacity = n /\ NewLedger(w, ZeroKey, n).rentPayer = w
  BY DEF NewLedger
<1>7. Others(w)
  BY <1>1, <1>4, StandingFacts DEF Others
<1>8. Exists(w)' /\ base'[w].capacity = n /\ base'[w].rentPayer = w
  BY <1>1, <1>2, <1>4, <1>6, StandingFacts DEF Exists
<1>9. permission'[w] # NoPermission
  BY <1>1, <1>4, <1>5, StandingFacts
<1>10. store'[w] = IF store[w] = NoStore THEN EmptyStore ELSE store[w]
  BY <1>1, <1>4, StandingFacts
<1> QED BY <1>1, <1>2, <1>3, <1>4, <1>7, <1>8, <1>9, <1>10, PaysUp DEF Standing

(* open_pda_ledger.                                                        *)
LEMMA OpenPdaTurns ==
    ASSUME Standing, NEW o \in Owners, NEW k \in Sponsors, NEW g, NEW n, NEW S,
           PayOpenPda(o, k, g, n, S)
    PROVE  RentStep
<1> DEFINE accounts == {LedgerAt(o)} \cup NewPermission(o)
<1>1. k \in Keys /\ o \notin Wallets
  BY Constants DEF PayOpenPda, OpenPdaLedger, VerifyPdaOwner, IsPda
<1>2. /\ OpenPdaLedger(o, k, g, n, S) /\ n \in Nat \ {0} /\ PaidUp(k, accounts, n)
      /\ accounts \in SUBSET {LedgerAt(o), PermissionAt(o), SessionAt(o)}
  BY VaultAssumption DEF PayOpenPda, OpenPdaLedger, NewPermission
<1>3. /\ PermissionAt(o) \in accounts <=> permission[o] = NoPermission
      /\ SessionAt(o) \notin accounts
      /\ LedgerAt(o) \in accounts
  BY AddressKinds DEF NewPermission
<1> HIDE DEF accounts
<1>4. /\ base' = [base EXCEPT ![o] = NewLedger(k, g, n)] /\ ~Exists(o) /\ store' = store
      /\ permission' = [permission EXCEPT ![o] = {g, k}] /\ permission[o] = NoPermission
      /\ ProgramOf[o] = g /\ o \in Pdas
  BY <1>2 DEF OpenPdaLedger, PdaMembers, VerifyPdaOwner, IsPda, sessionVars
<1>5. {g, k} # NoPermission
  BY <1>1, <1>4, VaultAssumption, AddressesAssumption
<1>6. NewLedger(k, g, n).capacity = n /\ NewLedger(k, g, n).rentPayer = k
  BY DEF NewLedger
<1>7. Others(o)
  BY <1>4, StandingFacts DEF Others
<1>8. Exists(o)' /\ base'[o].capacity = n /\ base'[o].rentPayer = k
  BY <1>2, <1>4, <1>6, StandingFacts DEF Exists
<1>9. permission'[o] # NoPermission
  BY <1>4, <1>5, StandingFacts
<1> QED BY <1>1, <1>2, <1>3, <1>4, <1>7, <1>8, <1>9, PaysUp DEF Standing

(* grow_pda_ledger.                                                        *)
LEMMA GrowTurns ==
    ASSUME Standing, NEW o \in Owners, NEW k \in Sponsors, NEW f, NEW inc \in Nat, NEW S,
           PayGrowPda(o, k, f, inc, S)
    PROVE  RentStep
<1> DEFINE n == base'[o].capacity
           grown == EnsureHeadroom(base[o], f, inc)
<1>1. k \in Keys /\ o \notin Wallets
  BY Constants DEF PayGrowPda, GrowPdaLedger, IsPda
<1>2. GrowPdaLedger(o, k, f, inc, S) /\ PaidUp(k, {LedgerAt(o)}, n)
  BY DEF PayGrowPda
<1>3. /\ base' = [base EXCEPT ![o] = grown] /\ Home(o) /\ store' = store
      /\ permission' = permission /\ k = base[o].rentPayer
      /\ CanEnsureHeadroom(base[o], k, f, inc)
  BY <1>2 DEF GrowPdaLedger, CanEnsureHeadroom, sessionVars
<1>4. Good(base[o]) /\ base[o].capacity > 0
  BY <1>3 DEF Standing, Copies, Sound, Home, Exists
<1>5. Good(grown) /\ grown.capacity > 0 /\ grown.rentPayer = k
  BY <1>3, <1>4, HeadroomGood
<1>6. base'[o] = grown
  BY <1>3, StandingFacts
<1> HIDE DEF grown
<1>7. Others(o)
  BY <1>3, StandingFacts DEF Others
<1>8. Exists(o)' /\ base'[o].rentPayer = k /\ n \in Nat
  BY <1>5, <1>6 DEF Exists, Good
<1>9. PermissionAt(o) \notin {LedgerAt(o)} /\ SessionAt(o) \notin {LedgerAt(o)}
  BY AddressKinds
<1> QED BY <1>1, <1>2, <1>3, <1>7, <1>8, <1>9, PaysUp DEF Standing

(* deposit.                                                                *)
LEMMA DepositTurns ==
    ASSUME Standing, NEW w \in Wallets, NEW m \in Mints, NEW a \in Amount, NEW f,
           NEW inc \in Nat, NEW S, PayDeposit(w, m, a, f, inc, S)
    PROVE  RentStep
<1> DEFINE accounts == {LedgerAt(w)} \cup NewPermission(w) \cup NewStore(w)
           n == base'[w].capacity
<1>1. w \in Owners /\ w \in Keys
  BY Constants
<1>2. /\ Deposit(w, m, a, f, inc, S) /\ PaidUp(w, accounts, n)
      /\ accounts \in SUBSET {LedgerAt(w), PermissionAt(w), SessionAt(w)}
  BY DEF PayDeposit, NewPermission, NewStore
<1>3. /\ PermissionAt(w) \in accounts <=> permission[w] = NoPermission
      /\ SessionAt(w) \in accounts <=> store[w] = NoStore
      /\ LedgerAt(w) \in accounts
  BY AddressKinds DEF NewPermission, NewStore
<1> HIDE DEF accounts
<1>4. PICK b : base' = [base EXCEPT ![w] = b]
  BY <1>2 DEF Deposit
<1>5. /\ permission' = [permission EXCEPT ![w] =
                           IF permission[w] = NoPermission THEN {w} ELSE permission[w]]
      /\ store' = [store EXCEPT ![w] = IF store[w] = NoStore THEN EmptyStore ELSE store[w]]
  BY <1>2 DEF Deposit, EnsureStore, WalletMembers
<1>6. {w} # NoPermission
  BY <1>1, VaultAssumption
<1>7. Copies' /\ Exists(w)'
  BY <1>2, DepositEffect DEF Standing
<1>8. base'[w].rentPayer = w /\ n \in Nat
  BY <1>1, <1>7 DEF Copies, Sound, HeadOf, Good, Exists
<1>9. Others(w)
  BY <1>1, <1>4, <1>5, StandingFacts DEF Others
<1>10. permission'[w] = IF permission[w] = NoPermission THEN {w} ELSE permission[w]
  BY <1>1, <1>5, StandingFacts
<1>11. store'[w] = IF store[w] = NoStore THEN EmptyStore ELSE store[w]
  BY <1>1, <1>5, StandingFacts
<1>12. Exists(w) => base[w].rentPayer = w
  BY <1>1, StandingFacts
<1>13. permission[w] # NoPermission => base'[w].rentPayer = base[w].rentPayer
  BY <1>1, <1>8, <1>12, StandingFacts
<1> QED BY <1>1, <1>2, <1>3, <1>6, <1>7, <1>8, <1>9, <1>10, <1>11, <1>12, <1>13, PaysUp
        DEF Standing

(* close_ledger: what is there goes, each account's lamports to its heir.  *)
LEMMA CloseTurns ==
    ASSUME Standing, NEW o \in Owners, NEW k, NEW S, PayClose(o, k, S)
    PROVE  RentStep
<1> DEFINE gone == {LedgerAt(o)}
                      \cup {a \in {PermissionAt(o)} : permission[o] # NoPermission}
                      \cup {a \in {SessionAt(o)} : ~IsPda(o) /\ store[o] # NoStore}
           by == [a \in gone |-> IF a = SessionAt(o) THEN o ELSE k]
           after == [a \in gone |-> 0]
<1>1. CloseLedger(o, k, S) /\ Moved(after, by)
  BY DEF PayClose
<1>2. /\ DOMAIN after = gone /\ \A a \in gone : after[a] = 0
      /\ \A a \in gone : by[a] = IF a = SessionAt(o) THEN o ELSE k
      /\ gone \subseteq {LedgerAt(o), PermissionAt(o), SessionAt(o)}
      /\ LedgerAt(o) \in gone
      /\ PermissionAt(o) \in gone <=> permission[o] # NoPermission
      /\ SessionAt(o) \in gone <=> (~IsPda(o) /\ store[o] # NoStore)
  BY AddressKinds
<1> HIDE DEF after, by, gone
<1>3. /\ RentTypes'
      /\ \A a \in gone : Shifted(a, by[a], 0)
      /\ \A a \in AccountAddresses \ gone : Unmoved(a)
  BY <1>1, <1>2, MovedAt, AddressKinds DEF Standing
<1>4. /\ base' = [base EXCEPT ![o] = NoLedger] /\ Exists(o) /\ k = base[o].rentPayer
      /\ permission' = [permission EXCEPT ![o] = NoPermission]
      /\ IF IsPda(o) THEN store' = store ELSE store' = [store EXCEPT ![o] = NoStore]
  BY <1>1 DEF CloseLedger, CloseStore, Home
<1>5. NoLedger.capacity = 0 /\ (IsPda(o) <=> o \notin Wallets)
  BY NoLedgerGood, Constants DEF IsPda, Owners
<1>6. /\ ~Exists(o)' /\ permission'[o] = NoPermission
      /\ o \in Wallets => store'[o] = NoStore
      /\ o \notin Wallets => store' = store
  BY <1>4, <1>5, StandingFacts DEF Exists
<1>7. Others(o)
  BY <1>4, <1>5, StandingFacts DEF Others
<1>8. StoresFinite'
  <2> SUFFICES ASSUME NEW w \in Wallets, store'[w] # NoStore
               PROVE  IsFiniteSet(DOMAIN store'[w])
    BY DEF StoresFinite
  <2>1. w \in Owners
    BY Constants
  <2>2. store'[w] = store[w]
    BY <1>6, <1>7, <2>1 DEF Others
  <2> QED BY <2>2 DEF Standing, StoresFinite
<1>9. base[o].capacity \in Nat /\ base[o].capacity > 0
  BY <1>4, StandingFacts DEF Exists
<1>10. Turn(LedgerAt(o))
  <2>1. RentDue(LedgerAt(o))' = 0 /\ RentDue(LedgerAt(o)) > 0 /\ Heir(LedgerAt(o)) = k
    BY <1>4, <1>6, <1>9, Dues
  <2> QED BY <1>2, <1>3, <2>1, AddressKinds DEF Turn, Emptied
<1>11. Turn(PermissionAt(o))
  <2>1. CASE permission[o] # NoPermission
    <3>1. /\ RentDue(PermissionAt(o))' = 0 /\ RentDue(PermissionAt(o)) > 0
          /\ Heir(PermissionAt(o)) = k
      BY <1>4, <1>6, <2>1, Dues
    <3> QED BY <1>2, <1>3, <2>1, <3>1, AddressKinds DEF Turn, Emptied
  <2>2. CASE permission[o] = NoPermission
    <3>1. RentDue(PermissionAt(o))' = 0 /\ RentDue(PermissionAt(o)) = 0
      BY <1>6, <2>2, Dues
    <3> QED BY <1>2, <1>3, <2>2, <3>1, AddressKinds DEF Turn, Idle, Unmoved
  <2> QED BY <2>1, <2>2
<1>12. Turn(SessionAt(o))
  <2>1. CASE o \in Wallets /\ store[o] # NoStore
    <3>1. Cardinality(DOMAIN store[o]) \in Nat
      BY <2>1, FS_CardinalityType DEF Standing, StoresFinite
    <3>2. /\ RentDue(SessionAt(o))' = 0 /\ RentDue(SessionAt(o)) > 0
          /\ Heir(SessionAt(o)) = o
      BY <1>6, <2>1, <3>1, Dues
    <3> QED BY <1>2, <1>3, <1>5, <2>1, <3>2 DEF Turn, Emptied
  <2>2. CASE ~(o \in Wallets /\ store[o] # NoStore)
    <3>1. RentDue(SessionAt(o))' = 0 /\ RentDue(SessionAt(o)) = 0
      BY <1>6, <2>2, Dues
    <3> QED BY <1>2, <1>3, <1>5, <2>2, <3>1, AddressKinds DEF Turn, Idle, Unmoved
  <2> QED BY <2>1, <2>2
<1>13. \A a \in AccountAddresses \ {LedgerAt(o), PermissionAt(o), SessionAt(o)} : Turn(a)
  BY <1>2, <1>3, <1>7, IdleElsewhere DEF Turn, Standing
<1> QED BY <1>3, <1>8, <1>10, <1>11, <1>12, <1>13 DEF RentStep

(* make_public: the permission's lamports go to the rent payer.            *)
LEMMA MakePublicTurns ==
    ASSUME Standing, NEW o \in Owners, NEW k, NEW S, PayMakePublic(o, k, S)
    PROVE  RentStep
<1> DEFINE after == [a \in {PermissionAt(o)} |-> 0]
           by == [a \in DOMAIN after |-> k]
<1>1. MakePublic(o, k, S) /\ Moved(after, by)
  BY DEF PayMakePublic, MovedBy
<1>2. /\ DOMAIN after = {PermissionAt(o)} /\ after[PermissionAt(o)] = 0
      /\ by[PermissionAt(o)] = k
  OBVIOUS
<1> HIDE DEF after, by
<1>3. /\ RentTypes' /\ Shifted(PermissionAt(o), k, 0)
      /\ \A a \in AccountAddresses \ {PermissionAt(o)} : Unmoved(a)
  BY <1>1, <1>2, MovedAt, AddressKinds DEF Standing
<1>4. /\ base' = base /\ store' = store /\ k = base[o].rentPayer
      /\ permission[o] # NoPermission
      /\ permission' = [permission EXCEPT ![o] = NoPermission]
  BY <1>1 DEF MakePublic, sessionVars
<1>5. permission'[o] = NoPermission /\ Others(o)
  BY <1>4, StandingFacts DEF Others
<1>6. StoresFinite'
  BY <1>4 DEF Standing, StoresFinite
<1>7. Turn(PermissionAt(o))
  <2>1. /\ RentDue(PermissionAt(o))' = 0 /\ RentDue(PermissionAt(o)) > 0
        /\ Heir(PermissionAt(o)) = k
    BY <1>4, <1>5, Dues
  <2> QED BY <1>3, <2>1 DEF Turn, Emptied
<1>8. ASSUME NEW a \in {LedgerAt(o), SessionAt(o)}
      PROVE  Turn(a)
  <2>1. RentDue(a)' = RentDue(a) /\ Heir(a)' = Heir(a)
    BY <1>4, Dues DEF Exists
  <2>2. Unmoved(a)
    BY <1>3, AddressKinds
  <2> QED BY <2>1, <2>2 DEF Turn, Idle, Unmoved
<1>9. \A a \in AccountAddresses \ {LedgerAt(o), PermissionAt(o), SessionAt(o)} : Turn(a)
  BY <1>3, <1>5, IdleElsewhere DEF Turn, Standing
<1> QED BY <1>3, <1>6, <1>7, <1>8, <1>9 DEF RentStep

(* make_private, of a wallet's ledger or a program's.                      *)
LEMMA MakePrivateTurns ==
    ASSUME Standing, NEW o \in Owners, NEW k \in Sponsors, NEW g \in Programs, NEW S,
           PayMakePrivate(o, k, g, S)
    PROVE  RentStep
<1>1. k \in Keys
  BY Constants
<1>2. PaidUp(k, NewPermission(o), 0)
  BY DEF PayMakePrivate
<1>3. /\ base' = base /\ store' = store /\ k = base[o].rentPayer
      /\ permission[o] = NoPermission
      /\ \E ms : permission' = [permission EXCEPT ![o] = ms] /\ ms # NoPermission
  <2>1. CASE k = o /\ MakeWalletLedgerPrivate(o, S)
    <3>1. {o} # NoPermission
      BY <1>1, <2>1, VaultAssumption
    <3> QED BY <2>1, <3>1 DEF MakeWalletLedgerPrivate, WalletMembers, sessionVars
  <2>2. CASE MakePdaLedgerPrivate(o, k, g, S)
    <3>1. {g, k} # NoPermission
      BY <1>1, VaultAssumption
    <3> QED BY <2>2, <3>1 DEF MakePdaLedgerPrivate, PdaMembers, sessionVars
  <2> QED BY <2>1, <2>2 DEF PayMakePrivate
<1>4. permission'[o] # NoPermission /\ Others(o)
  BY <1>3, StandingFacts DEF Others
<1>5. /\ NewPermission(o) = {PermissionAt(o)}
      /\ LedgerAt(o) \notin NewPermission(o) /\ SessionAt(o) \notin NewPermission(o)
  BY <1>3, AddressKinds DEF NewPermission
<1> QED BY <1>1, <1>2, <1>3, <1>4, <1>5, PaysUp DEF Standing

----------------------------------------------------------------------------
(* The session store's accounts.                                           *)

(* A store that is resized to d entries: `held` its lamports then.         *)
LEMMA StoreResized ==
    ASSUME Standing, NEW w \in Wallets, NEW s \in Store,
           UNCHANGED <<base, permission>>, store' = [store EXCEPT ![w] = s],
           IsFiniteSet(DOMAIN s),
           \A a \in AccountAddresses \ {SessionAt(w)} : Unmoved(a),
           Turn(SessionAt(w)), RentTypes'
    PROVE  RentStep
<1>1. w \in Owners
  BY Constants
<1>2. store'[w] = s /\ \A x \in Wallets \ {w} : store'[x] = store[x]
  BY <1>1, StandingFacts
<1>3. Others(w)
  BY <1>2 DEF Others
<1>4. StoresFinite'
  BY <1>2 DEF Standing, StoresFinite
<1>5. ASSUME NEW a \in {LedgerAt(w), PermissionAt(w)}
      PROVE  Turn(a)
  <2>1. RentDue(a)' = RentDue(a) /\ Heir(a)' = Heir(a)
    BY <1>1, Dues DEF Exists
  <2>2. Unmoved(a)
    BY <1>1, AddressKinds
  <2> QED BY <2>1, <2>2 DEF Turn, Idle, Unmoved
<1>6. \A a \in AccountAddresses \ {LedgerAt(w), PermissionAt(w), SessionAt(w)} : Turn(a)
  BY <1>1, <1>3, IdleElsewhere DEF Turn, Standing
<1> QED BY <1>4, <1>5, <1>6 DEF RentStep

(* authorize_session: a first grant for a program sizes the store.         *)
LEMMA AuthorizeTurns ==
    ASSUME Standing, NEW w \in Wallets, NEW p \in Programs, NEW k \in Keys \cup {ZeroKey},
           NEW t \in Times, NEW S, PayAuthorize(w, p, k, t, S)
    PROVE  RentStep
<1> DEFINE need == SessionRentFor(Cardinality(DOMAIN store'[w]))
           sized == {a \in {SessionAt(w)} : store[w] = NoStore \/ ~Authorised(store[w], p)}
           after == [a \in sized |-> TopUp(a, need)]
           by == [a \in DOMAIN after |-> w]
<1>1. w \in Owners /\ w \in Keys /\ SessionAt(w) \in AccountAddresses
  BY Constants, AddressKinds
<1>2. /\ AuthorizeSession(w, p, k, t, S) /\ UNCHANGED <<base, permission>>
      /\ Moved(after, by)
  BY DEF PayAuthorize, MovedBy, custodyVars
<1>3. PICK s \in Store, f \in SessionEntry :
         /\ s = IF store[w] = NoStore THEN EmptyStore ELSE store[w]
         /\ store' = [store EXCEPT ![w] = WithEntry(s, p, f)]
         /\ WithEntry(s, p, f) \in Store
  BY <1>2, AuthorizeWrites DEF Standing, SessionTypes, Stores
<1>4. /\ DOMAIN WithEntry(s, p, f) = (DOMAIN s) \cup {p}
      /\ IsFiniteSet(DOMAIN s)
  BY <1>3, EmptyStoreFacts DEF WithEntry, Standing, StoresFinite
<1>5. /\ store'[w] = WithEntry(s, p, f) /\ store'[w] # NoStore
      /\ IsFiniteSet(DOMAIN store'[w]) /\ Cardinality(DOMAIN store'[w]) \in Nat
  <2>1. store'[w] = WithEntry(s, p, f)
    BY <1>1, <1>3, StandingFacts
  <2>2. IsFiniteSet(DOMAIN WithEntry(s, p, f))
    BY <1>4, FS_AddElement
  <2>3. Cardinality(DOMAIN WithEntry(s, p, f)) \in Nat
    BY <2>2, FS_CardinalityType
  <2>4. WithEntry(s, p, f) # NoStore
    BY <1>3, StoreAssumption
  <2> QED BY <2>1, <2>2, <2>3, <2>4
<1>6. need \in Nat \ {0} /\ RentDue(SessionAt(w))' = need /\ Heir(SessionAt(w))' = w
  BY <1>1, <1>5, Dues DEF SessionRentFor
<1>7. /\ DOMAIN after = sized /\ sized \subseteq {SessionAt(w)}
      /\ \A a \in sized : after[a] = TopUp(a, need) /\ by[a] = w
      /\ SessionAt(w) \in sized <=> (store[w] = NoStore \/ ~Authorised(store[w], p))
  OBVIOUS
<1> HIDE DEF after, by, sized, need
<1>8. \A a \in sized : TopUp(a, need) \in Nat
  BY <1>1, <1>6, <1>7 DEF TopUp, Standing, RentTypes
<1>9. /\ RentTypes'
      /\ \A a \in sized : Shifted(a, w, TopUp(a, need))
      /\ \A a \in AccountAddresses \ sized : Unmoved(a)
  BY <1>1, <1>2, <1>7, <1>8, MovedAt DEF Standing
<1>10. Turn(SessionAt(w))
  <2>1. CASE SessionAt(w) \in sized
    <3>1. Heir(SessionAt(w)) = w
      BY <1>1, Dues
    <3> QED BY <1>1, <1>6, <1>9, <2>1, <3>1 DEF Turn, Raised
  <2>2. CASE SessionAt(w) \notin sized
    <3>1. store[w] # NoStore /\ p \in DOMAIN s /\ s = store[w]
      BY <1>3, <1>7, <2>2 DEF Authorised
    <3>2. DOMAIN store'[w] = DOMAIN store[w]
      BY <1>4, <1>5, <3>1
    <3>3. RentDue(SessionAt(w))' = RentDue(SessionAt(w)) /\ Heir(SessionAt(w)) = w
      BY <1>1, <1>5, <3>1, <3>2, Dues
    <3> QED BY <1>1, <1>6, <1>9, <2>2, <3>3 DEF Turn, Idle, Unmoved
  <2> QED BY <2>1, <2>2
<1> QED BY <1>2, <1>3, <1>5, <1>7, <1>9, <1>10, StoreResized

(* revoke_session: a dropped entry's rent goes back to the wallet.         *)
LEMMA RevokeTurns ==
    ASSUME Standing, NEW w \in Wallets, NEW p \in Programs, NEW k, NEW S,
           PayRevoke(w, p, k, S)
    PROVE  RentStep
<1> DEFINE s == store[w]
           d == store'[w]
           sized == {a \in {SessionAt(w)} : k = ZeroKey /\ Authorised(store[w], p)}
           after == [a \in sized |-> IF lamports[a] > Kept(d) THEN Kept(d) ELSE lamports[a]]
           by == [a \in DOMAIN after |-> w]
<1>1. w \in Owners /\ w \in Keys /\ SessionAt(w) \in AccountAddresses
  BY Constants, AddressKinds
<1>2. /\ RevokeSession(w, p, k, S) /\ UNCHANGED <<base, permission>>
      /\ Moved(after, by)
  BY DEF PayRevoke, MovedBy, custodyVars
<1>3. s \in Store /\ IsFiniteSet(DOMAIN s) /\ s # NoStore
  BY <1>1, <1>2, StandingFacts DEF RevokeSession, Standing, StoresFinite
<1>4. d = IF k = ZeroKey THEN DropEntry(s, p)
          ELSE IF Authorised(s, p) THEN WithEntry(s, p, Revoke(s[p], k)) ELSE s
  BY <1>1, <1>2, StandingFacts DEF RevokeSession
<1>5. d \in Store
  BY <1>3, <1>4, StoreOperations, EntryOperations
<1>6. store' = [store EXCEPT ![w] = d]
  BY <1>2, <1>4 DEF RevokeSession
<1>7. /\ SessionAt(w) \in sized <=> (k = ZeroKey /\ Authorised(s, p))
      /\ sized \subseteq {SessionAt(w)} /\ DOMAIN after = sized
      /\ \A a \in sized : /\ after[a] = IF lamports[a] > Kept(d) THEN Kept(d) ELSE lamports[a]
                          /\ by[a] = w
  OBVIOUS
<1> HIDE DEF after, by, sized, s, d
<1>8. DOMAIN d = IF k = ZeroKey THEN (DOMAIN s) \ {p} ELSE DOMAIN s
  BY <1>4 DEF DropEntry, WithEntry, Authorised
<1>9. /\ IsFiniteSet(DOMAIN d) /\ Cardinality(DOMAIN d) \in Nat /\ Cardinality(DOMAIN s) \in Nat
      /\ SessionAt(w) \in sized => Cardinality(DOMAIN d) = Cardinality(DOMAIN s) - 1
      /\ SessionAt(w) \notin sized => DOMAIN d = DOMAIN s
  <2>1. /\ IsFiniteSet((DOMAIN s) \ {p})
        /\ p \in DOMAIN s => Cardinality((DOMAIN s) \ {p}) = Cardinality(DOMAIN s) - 1
    BY <1>3, FS_RemoveElement
  <2>2. p \notin DOMAIN s => (DOMAIN s) \ {p} = DOMAIN s
    OBVIOUS
  <2>3. IsFiniteSet(DOMAIN d)
    BY <1>3, <1>8, <2>1
  <2>4. Cardinality(DOMAIN d) \in Nat /\ Cardinality(DOMAIN s) \in Nat
    BY <1>3, <2>3, FS_CardinalityType
  <2>5. SessionAt(w) \in sized => Cardinality(DOMAIN d) = Cardinality(DOMAIN s) - 1
    BY <1>7, <1>8, <2>1 DEF Authorised
  <2>6. SessionAt(w) \notin sized => DOMAIN d = DOMAIN s
    BY <1>7, <1>8, <2>2 DEF Authorised
  <2> QED BY <2>3, <2>4, <2>5, <2>6
<1>10. /\ RentDue(SessionAt(w)) = 1 + Cardinality(DOMAIN s) /\ Heir(SessionAt(w)) = w
       /\ RentDue(SessionAt(w))' = 1 + Cardinality(DOMAIN d) /\ Heir(SessionAt(w))' = w
  <2>1. store[w] = s /\ store'[w] = d /\ d # NoStore
    BY <1>5, StoreAssumption DEF s, d
  <2> QED BY <1>1, <1>3, <2>1, Dues
<1>11. /\ Kept(d) = RentDue(SessionAt(w))'
       /\ lamports[SessionAt(w)] \in Nat /\ RentDue(SessionAt(w)) <= lamports[SessionAt(w)]
  BY <1>1, <1>10 DEF Kept, SessionRentFor, Standing, RentTypes, Balanced
<1>12. \A a \in sized : after[a] = Kept(d) /\ Kept(d) \in Nat
  BY <1>7, <1>9, <1>10, <1>11
<1>13. /\ RentTypes'
       /\ \A a \in sized : Shifted(a, w, Kept(d))
       /\ \A a \in AccountAddresses \ sized : Unmoved(a)
  BY <1>1, <1>2, <1>7, <1>12, MovedAt DEF Standing
<1>14. Turn(SessionAt(w))
  <2>1. CASE SessionAt(w) \in sized
    BY <1>9, <1>10, <1>11, <1>13, <2>1 DEF Turn, Lowered
  <2>2. CASE SessionAt(w) \notin sized
    BY <1>1, <1>9, <1>10, <1>13, <2>2 DEF Turn, Idle, Unmoved
  <2> QED BY <2>1, <2>2
<1> QED BY <1>2, <1>5, <1>6, <1>7, <1>9, <1>13, <1>14, StoreResized

(* Instructions that make and close nothing, and gifts.                    *)
LEMMA QuietTurns ==
    ASSUME Standing, UNCHANGED <<rentVars, store>>,
           \A o \in Owners :
              /\ Exists(o)' <=> Exists(o)
              /\ base'[o].capacity = base[o].capacity
              /\ Exists(o) => base'[o].rentPayer = base[o].rentPayer
              /\ permission'[o] = NoPermission <=> permission[o] = NoPermission
    PROVE  RentStep
<1>1. RentTypes' /\ StoresFinite'
  BY DEF Standing, RentTypes, StoresFinite, rentVars
<1>2. ASSUME NEW a \in AccountAddresses
      PROVE  Turn(a)
  <2>1. PICK o \in Owners : a \in {LedgerAt(o), PermissionAt(o), SessionAt(o)}
    BY AddressKinds
  <2>2. RentDue(a)' = RentDue(a) /\ (RentDue(a) > 0 => Heir(a)' = Heir(a))
    BY <2>1, Dues, StandingFacts
  <2> QED BY <2>2 DEF Turn, Idle, rentVars
<1> QED BY <1>1, <1>2 DEF RentStep

(* A gift is somebody else's lamports, wherever it lands.                  *)
LEMMA GiftTurns ==
    ASSUME Standing, NEW g \in AccountAddresses, Gift(g)
    PROVE  RentStep
<1>1. /\ UNCHANGED <<base, permission, store, fronted>> /\ gifts' = gifts + 1
      /\ lamports' = [lamports EXCEPT ![g] = lamports[g] + 1]
  BY DEF Gift, custodyVars, sessionVars
<1>2. RentTypes' /\ StoresFinite'
  BY <1>1 DEF Standing, RentTypes, StoresFinite
<1>3. ASSUME NEW a \in AccountAddresses
      PROVE  Turn(a)
  <2>1. PICK o \in Owners : a \in {LedgerAt(o), PermissionAt(o), SessionAt(o)}
    BY AddressKinds
  <2>2. RentDue(a)' = RentDue(a) /\ Heir(a)' = Heir(a)
    BY <1>1, <2>1, Dues DEF Exists
  <2>3. lamports'[a] = IF a = g THEN lamports[a] + 1 ELSE lamports[a]
    BY <1>1 DEF Standing, RentTypes
  <2> QED BY <1>1, <2>2, <2>3 DEF Turn, Idle, Given
<1> QED BY <1>2, <1>3 DEF RentStep

(* add_pda_caller and the delegation of a ledger keep every account.       *)
LEMMA OthersAreQuiet ==
    ASSUME Standing, UNCHANGED rentVars,
           \/ \E S \in SignerSets, o \in Owners, g, c \in Programs : AddPdaCaller(o, g, c, S)
           \/ DelegationNext
    PROVE  RentStep
<1>1. ASSUME NEW S, NEW o \in Owners, NEW g, NEW c \in Programs, AddPdaCaller(o, g, c, S)
      PROVE  RentStep
  <2> DEFINE members == permission[o] \cup {VaultId, c}
  <2>1. /\ UNCHANGED <<base, store>> /\ permission[o] # NoPermission
        /\ permission' = [permission EXCEPT ![o] = members]
    BY <1>1 DEF AddPdaCaller, sessionVars
  <2>2. members # NoPermission
    BY <2>1, VaultAssumption DEF Standing, PermissionTypes, Principals
  <2> HIDE DEF members
  <2>3. \A x \in Owners : permission'[x] = NoPermission <=> permission[x] = NoPermission
    BY <2>1, <2>2, StandingFacts
  <2> QED BY <2>1, <2>3, QuietTurns DEF Exists
<1>2. ASSUME NEW S, NEW o \in Owners, NEW v, NEW p,
             DelegateLedger(o, v, S) \/ Undelegate(o, p, S) \/ CommitFails(o)
      PROVE  RentStep
  <2>1. UNCHANGED <<base, permission, store>>
    BY <1>2 DEF DelegateLedger, Undelegate, CommitFails, sessionVars
  <2> QED BY <2>1, QuietTurns DEF Exists
<1>3. ASSUME NEW o \in Owners, CommitLands(o)
      PROVE  RentStep
  <2>1. /\ base' = [base EXCEPT ![o] = rollup[o]] /\ UNCHANGED <<permission, store>>
        /\ where[o] # Basenet
    BY <1>3 DEF CommitLands, sessionVars, Standing, Copies
  <2>2. SameHeader(base[o], rollup[o])
    BY <2>1 DEF Standing, Copies, Sound
  <2>3. \A x \in Owners : /\ base'[x].capacity = base[x].capacity
                          /\ base'[x].rentPayer = base[x].rentPayer
    BY <2>1, <2>2, StandingFacts DEF SameHeader
  <2> QED BY <2>1, <2>3, QuietTurns DEF Exists
<1> QED BY <1>1, <1>2, <1>3 DEF DelegationNext

(* Every step turns each address one of the five ways.                     *)
LEMMA EveryStepTurns == Standing /\ [RentNext]_<<vars, rentVars>> => RentStep
<1> SUFFICES ASSUME Standing, [RentNext]_<<vars, rentVars>>
             PROVE  RentStep
  OBVIOUS
<1>1. \A i \in Growths : i \in Nat
  BY VaultAssumption DEF Growths
<1>2. ASSUME NEW S \in SignerSets, NEW w \in Wallets,
        \/ \E n \in 0..CapacityBound : PayOpenWallet(w, n, S)
        \/ \E m \in Mints, a \in Amount, f \in MinFrees, n \in Growths :
              PayDeposit(w, m, a, f, n, S)
        \/ \E p \in Programs, k \in SessionKeys \cup {ZeroKey} :
            \/ \E t \in Times : PayAuthorize(w, p, k, t, S)
            \/ PayRevoke(w, p, k, S)
      PROVE  RentStep
  <2>1. SessionKeys \cup {ZeroKey} \subseteq Keys \cup {ZeroKey}
    BY DEF Keys, OnCurve
  <2> QED BY <1>1, <1>2, <2>1, OpenWalletTurns, DepositTurns, AuthorizeTurns, RevokeTurns
<1>3. ASSUME NEW S \in SignerSets, NEW o \in Owners, NEW payer \in Sponsors,
        \/ \E g \in Programs, n \in 0..CapacityBound : PayOpenPda(o, payer, g, n, S)
        \/ \E f \in MinFrees, n \in Growths : PayGrowPda(o, payer, f, n, S)
        \/ PayClose(o, payer, S)
        \/ PayMakePublic(o, payer, S)
        \/ \E g \in Programs : PayMakePrivate(o, payer, g, S)
      PROVE  RentStep
  BY <1>1, <1>3, OpenPdaTurns, GrowTurns, CloseTurns, MakePublicTurns, MakePrivateTurns
<1>4. CASE UNCHANGED <<vars, rentVars>>
  BY <1>4, QuietTurns DEF vars, custodyVars, sessionVars, Exists
<1> QED BY <1>2, <1>3, <1>4, OthersAreQuiet, GiftTurns DEF RentNext

(* With its lamports left out, a step is one of the vault's, or a gift.    *)
LEMMA RentStepsAreSteps ==
    [RentNext]_<<vars, rentVars>> =>
        [Next]_vars \/ (UNCHANGED View /\ signed' = {})
<1>1. ASSUME NEW S \in SignerSets, NEW w \in Wallets,
        \/ \E n \in 0..CapacityBound : PayOpenWallet(w, n, S)
        \/ \E m \in Mints, a \in Amount, f \in MinFrees, n \in Growths :
              PayDeposit(w, m, a, f, n, S)
        \/ \E p \in Programs, k \in SessionKeys \cup {ZeroKey} :
            \/ \E t \in Times : PayAuthorize(w, p, k, t, S)
            \/ PayRevoke(w, p, k, S)
      PROVE  Next
  <2>1. CASE \E n \in 0..CapacityBound : PayOpenWallet(w, n, S)
    BY <2>1 DEF PayOpenWallet, OpenNext, Next
  <2>2. CASE \E m \in Mints, a \in Amount, f \in MinFrees, n \in Growths :
                PayDeposit(w, m, a, f, n, S)
    BY <2>2 DEF PayDeposit, ValueNext, Next, Growths
  <2>3. CASE \E p \in Programs, k \in SessionKeys \cup {ZeroKey} :
                \/ \E t \in Times : PayAuthorize(w, p, k, t, S)
                \/ PayRevoke(w, p, k, S)
    <3>1. SessionKeys \cup {ZeroKey} \subseteq Keys \cup {ZeroKey}
      BY DEF Keys, OnCurve
    <3> QED BY <2>3, <3>1 DEF PayAuthorize, PayRevoke, SessionNext, Next
  <2> QED BY <1>1, <2>1, <2>2, <2>3
<1>2. ASSUME NEW S \in SignerSets, NEW o \in Owners, NEW payer \in Sponsors,
        \/ \E g \in Programs, n \in 0..CapacityBound : PayOpenPda(o, payer, g, n, S)
        \/ \E f \in MinFrees, n \in Growths : PayGrowPda(o, payer, f, n, S)
        \/ PayClose(o, payer, S)
        \/ PayMakePublic(o, payer, S)
        \/ \E g \in Programs : PayMakePrivate(o, payer, g, S)
      PROVE  Next
  <2>1. CASE \E g \in Programs, n \in 0..CapacityBound : PayOpenPda(o, payer, g, n, S)
    BY <2>1 DEF PayOpenPda, OpenNext, Next
  <2>2. CASE \E f \in MinFrees, n \in Growths : PayGrowPda(o, payer, f, n, S)
    BY <2>2 DEF PayGrowPda, OpenNext, Next, Growths
  <2>3. CASE PayClose(o, payer, S)
    BY <2>3, Constants DEF PayClose, ValueNext, Next
  <2>4. CASE PayMakePublic(o, payer, S)
    BY <2>4 DEF PayMakePublic, PrivacyNext, Next
  <2>5. CASE \E g \in Programs : PayMakePrivate(o, payer, g, S)
    BY <2>5 DEF PayMakePrivate, PrivacyNext, Next
  <2> QED BY <1>2, <2>1, <2>2, <2>3, <2>4, <2>5
<1>3. ASSUME NEW S \in SignerSets, NEW o \in Owners, NEW g \in Programs, NEW c \in Programs,
             AddPdaCaller(o, g, c, S)
      PROVE  Next
  BY <1>3 DEF PrivacyNext, Next
<1>4. ASSUME NEW a, Gift(a)
      PROVE  UNCHANGED View /\ signed' = {}
  BY <1>4 DEF Gift, View
<1> QED BY <1>1, <1>2, <1>3, <1>4 DEF RentNext, Next

(* What every instruction relies on holds at the start and stays.          *)
LEMMA StandingInit == RentInit => Standing
<1> SUFFICES ASSUME RentInit
             PROVE  Standing
  OBVIOUS
<1>1. Copies /\ PermissionTypes /\ SessionTypes
  BY CopiesInit, TypesInit DEF RentInit
<1>2. Guarded /\ ReadersKept /\ StoresFinite
  BY DEF RentInit, Init, Guarded, ReadersKept, StoresFinite
<1>3. RentTypes
  BY DEF RentInit, RentTypes
<1>4. ASSUME NEW a \in AccountAddresses
      PROVE  Balanced(a)
  <2>1. PICK o \in Owners : a \in {LedgerAt(o), PermissionAt(o), SessionAt(o)}
    BY AddressKinds
  <2>2. /\ ~Exists(o) /\ permission[o] = NoPermission
        /\ o \in Wallets => store[o] = NoStore
    BY NoLedgerGood DEF RentInit, Init, Exists
  <2>3. RentDue(a) = 0
    BY <2>1, <2>2, Dues
  <2>4. /\ lamports[a] = 0 /\ gifts = 0
        /\ \A k \in Keys : fronted[k][a] = 0
    BY DEF RentInit
  <2> QED BY <2>3, <2>4 DEF Balanced
<1> QED BY <1>1, <1>2, <1>3, <1>4 DEF Standing

(* Every step keeps the invariant.                                         *)
LEMMA StandingStep == Standing /\ [RentNext]_<<vars, rentVars>> => Standing'
<1> SUFFICES ASSUME Standing, [RentNext]_<<vars, rentVars>>
             PROVE  Standing'
  OBVIOUS
<1>1. Copies /\ PermissionTypes /\ Guarded /\ ReadersKept /\ SessionTypes
  BY DEF Standing
<1>2. (Copies /\ PermissionTypes /\ Guarded /\ ReadersKept /\ SessionTypes)'
  <2>1. CASE [Next]_vars
    BY <1>1, <2>1, CopiesStep, PermissionStep, ReadersStep, SessionsStep
  <2>2. CASE UNCHANGED View /\ signed' = {}
    <3>1. UNCHANGED <<base, rollup, where, returning, permission, store, now>>
      BY <2>2 DEF View, custodyVars, sessionVars
    <3>2. Copies' /\ PermissionTypes' /\ Guarded'
      BY <1>1, <3>1 DEF Copies, PermissionTypes, Guarded, Exists
    <3>3. ReadersKept' /\ SessionTypes'
      BY <1>1, <2>2, <3>1 DEF ReadersKept, SessionTypes
    <3> QED BY <3>2, <3>3
  <2> QED BY <2>1, <2>2, RentStepsAreSteps
<1>3. RentStep
  BY EveryStepTurns
<1>4. RentTypes' /\ StoresFinite' /\ \A a \in AccountAddresses : Balanced(a)'
  BY <1>3, StaysBalanced DEF RentStep, Standing
<1> QED BY <1>2, <1>4 DEF Standing

(* The invariant holds throughout.                                         *)
LEMMA StandingInvariant == RentSpec => []Standing
BY StandingInit, StandingStep, PTL DEF RentSpec

(* However accounts were opened, prefunded, grown, shared, shrunk, closed, *)
(* delegated and made anew, each holds the rent its present size asks for. *)
THEOREM AlwaysRentExempt == RentSpec => []RentExempt
<1>1. Standing => RentExempt
  BY DEF Standing, Balanced, RentExempt
<1> QED BY <1>1, StandingInvariant, PTL

(* Whoever put rent up has it at an account that exists and will return it *)
(* to them, and nobody ever got out more than they put up but for gifts.   *)
THEOREM RentReturns == RentSpec => []RentComesBack
<1>1. Standing => RentComesBack
  BY DEF Standing, Balanced, RentComesBack, Heir
<1> QED BY <1>1, StandingInvariant, PTL

=============================================================================
