-------------------------------- MODULE Vault --------------------------------
(***************************************************************************)
(* The vault program: ledgers of claims, the one reserve that backs them,  *)
(* the wallets outside, and the chain each ledger's live copy is on.       *)
(*                                                                         *)
(* One action is one instruction, executed whole or not at all; its guards *)
(* are the checks of its handler and S is the set of keys that signed (a   *)
(* PDA signs when its program invokes the vault with its seeds).  A ledger *)
(* is delegated to one validator at a time: basenet then keeps the bytes   *)
(* it had, which no instruction accepts, and the rollup's copy lives on    *)
(* until its undelegation is scheduled and, later, lands.                  *)
(*                                                                         *)
(* Rent is not counted: purses hold what is left once rent is paid.        *)
(***************************************************************************)
EXTENDS LedgerTable, Sessions

CONSTANTS
    Basenet,          \* the base chain
    Validators,       \* the rollups a ledger can be delegated to
    VaultId,          \* the vault program's own id
    Floor,            \* vault_floor(): the vault account's own rent
    FeeMints,         \* Token-2022 mints that keep a fee of every transfer
    DefaultSlots,     \* DEFAULT_SLOTS
    MaxGrowth,        \* MAX_GROWTH, the most slots one open allocates
    MaxSlotIncrease,  \* MAX_SLOT_INCREASE, the most one growth adds
    MaxMembers,       \* the most members a permission can name
    NoPermission,     \* the empty account at a permission's address
    Sponsors,         \* the on-curve keys that pay for programs' ledgers
    InitialPurse,     \* what each owner holds outside the vault
    MinFrees,         \* the `min_free` arguments tried
    CapacityBound,    \* bound on a ledger's slots
    MaxSigners        \* bound on the signers of one transaction

ASSUME VaultAssumption ==
    /\ Basenet \notin Validators
    /\ VaultId \notin Programs \cup Keys
    /\ Floor \in Nat
    /\ FeeMints \subseteq Mints \ {Sol}
    /\ DefaultSlots \in Nat \ {0}
    /\ {MaxGrowth, MaxSlotIncrease} \subseteq Nat
    /\ MaxMembers \in Nat /\ MaxMembers >= 2
    /\ \A readers \in SUBSET (Keys \cup Programs \cup {VaultId}) :
           readers # NoPermission
    /\ Sponsors \subseteq OnCurve
    /\ InitialPurse \in [Owners -> [Mints -> Nat]]

VARIABLES
    base,        \* base[o]: the bytes at o's ledger address on basenet
    rollup,      \* rollup[o]: the validator's copy of a delegated ledger
    where,       \* where[o]: the chain whose copy is the live one
    returning,   \* owners whose undelegation is scheduled and has not landed
    permission,  \* permission[o]: NoPermission, or the keys that may read
    reserve,     \* reserve[m]: lamports of the vault, or its token account
    purse        \* purse[o][m]: what owner o holds outside the vault

custodyVars == <<base, rollup, where, returning, permission, reserve, purse>>
vars == <<custodyVars, sessionVars, signed>>

(* Everything a later step can depend on: all but the history variable.    *)
View == <<custodyVars, sessionVars>>

Chains == {Basenet} \cup Validators
Principals == Keys \cup Programs \cup {VaultId}

(* No account: no slot, and no key in the header.                          *)
NoLedger == [rentPayer |-> ZeroKey, authorized |-> ZeroKey,
             capacity |-> 0, entries |-> ZeroedSlots(0)]

NewLedger(payer, program, n) ==
    [rentPayer |-> payer, authorized |-> program, capacity |-> n, entries |-> ZeroedSlots(n)]

LedgerSized(n) == LedgerOf(Keys \cup {ZeroKey}, Programs \cup {ZeroKey}, n)
IsLedger(l) == l.capacity \in Nat /\ l \in LedgerSized(l.capacity)

Exists(o) == base[o].capacity > 0
Home(o) == Exists(o) /\ where[o] = Basenet
Live(o) == IF where[o] = Basenet THEN base[o] ELSE rollup[o]

\* Mutation of Together: a ledger at home settles with a delegated one.
AcrossChains(src, dst) == Exists(src) /\ Exists(dst) /\ {src, dst} \cap returning = {}

(* Accounts an instruction of one chain may write together.                *)
Together(src, dst) ==
    /\ Exists(src) /\ Exists(dst)
    /\ where[src] = where[dst]
    /\ {src, dst} \cap returning = {}

(* What the vault can pay out: its own rent is nobody's balance.           *)
Spendable(m) == IF m # Sol THEN reserve[m]
                ELSE IF reserve[m] >= Floor THEN reserve[m] - Floor ELSE 0

(* What a transfer of `a` delivers, one unit standing for a mint's fee.    *)
Delivered(m, a) == IF m \in FeeMints /\ a > 0 THEN a - 1 ELSE a

Claims == [o \in Owners |-> [m \in Mints |-> Balance(Live(o), m)]]

----------------------------------------------------------------------------
(* utils/account.rs: ensure_headroom, one push of `inc` slots when fewer   *)
(* than `minFree` are free.                                                *)

HasHeadroom(l, minFree) == Cardinality(FreeSlots(l)) >= minFree

\* Mutation of CanEnsureHeadroom: whoever pays may grow the table.
AnyoneGrows(l, payer, minFree, inc) ==
    HasHeadroom(l, minFree) \/ inc \in 1..MaxSlotIncrease

CanEnsureHeadroom(l, payer, minFree, inc) ==
    /\ payer = l.rentPayer
    /\ HasHeadroom(l, minFree) \/ inc \in 1..MaxSlotIncrease

EnsureHeadroom(l, minFree, inc) == IF HasHeadroom(l, minFree) THEN l ELSE Grow(l, inc)

(* Permissions created by the vault.                                       *)
WalletMembers(w) == {w}

\* Mutation of PdaMembers: the sponsor is left out.
ProgramAlone(program, payer) == {program}

PdaMembers(program, payer) == {program, payer}

----------------------------------------------------------------------------
(* Opening, growing and funding.                                           *)

(* initialize_vault: anyone tops the vault up to its rent floor.           *)
InitializeVault(payer, S) ==
    /\ payer \in S
    /\ reserve[Sol] < Floor
    /\ Floor - reserve[Sol] <= purse[payer][Sol]
    /\ reserve' = [reserve EXCEPT ![Sol] = Floor]
    /\ purse' = [purse EXCEPT ![payer][Sol] = @ - (Floor - reserve[Sol])]
    /\ signed' = S
    /\ UNCHANGED <<base, rollup, where, returning, permission, sessionVars>>

OpenWalletLedger(w, n, S) ==
    /\ w \in S
    /\ ~IsPda(w)
    /\ ~Exists(w)
    /\ n \in 1..MaxGrowth
    /\ permission[w] = NoPermission
    /\ base' = [base EXCEPT ![w] = NewLedger(w, ZeroKey, n)]
    /\ EnsureStore(w)
    /\ permission' = [permission EXCEPT ![w] = WalletMembers(w)]
    /\ signed' = S
    /\ UNCHANGED <<rollup, where, returning, reserve, purse, now>>

OpenPdaLedger(o, payer, program, n, S) ==
    /\ {o, payer} \subseteq S
    /\ VerifyPdaOwner(o, program)
    /\ ~Exists(o)
    /\ n \in 1..MaxGrowth
    /\ permission[o] = NoPermission
    /\ base' = [base EXCEPT ![o] = NewLedger(payer, program, n)]
    /\ permission' = [permission EXCEPT ![o] = PdaMembers(program, payer)]
    /\ signed' = S
    /\ UNCHANGED <<rollup, where, returning, reserve, purse, sessionVars>>

GrowPdaLedger(o, payer, minFree, inc, S) ==
    /\ {o, payer} \subseteq S
    /\ IsPda(o)
    /\ Home(o)
    /\ CanEnsureHeadroom(base[o], payer, minFree, inc)
    /\ base' = [base EXCEPT ![o] = EnsureHeadroom(@, minFree, inc)]
    /\ base'[o].capacity <= CapacityBound
    /\ signed' = S
    /\ UNCHANGED <<rollup, where, returning, permission, reserve, purse, sessionVars>>

(* The ledger deposit starts from: the one there, or a default-sized one.  *)
FoundOrCreated(w) == IF Exists(w) THEN base[w] ELSE NewLedger(w, ZeroKey, DefaultSlots)

\* Mutation of Funded: lamports are taken before the vault's rent is in place.
FundedOrNot(m) == TRUE

(* The vault's own rent must be in place before it holds lamports.         *)
Funded(m) == m = Sol => reserve[Sol] >= Floor

(* deposit: stands up whatever of ledger, permission and store is missing, *)
(* keeps the free band, claims a slot, and only then moves the value.      *)
Deposit(w, m, a, minFree, inc, S) ==
    /\ w \in S
    /\ ~IsPda(w)
    /\ where[w] = Basenet
    /\ LET found == FoundOrCreated(w)
           roomy == EnsureHeadroom(found, minFree, inc)
       IN  /\ CanEnsureHeadroom(found, w, minFree, inc)
           /\ roomy.capacity <= CapacityBound
           /\ CanCredit(roomy, m, a)
           /\ base' = [base EXCEPT ![w] = Credit(roomy, m, a)]
    /\ Funded(m)
    /\ a <= purse[w][m]
    /\ purse' = [purse EXCEPT ![w][m] = @ - a]
    /\ reserve' = [reserve EXCEPT ![m] = @ + Delivered(m, a)]
    /\ permission' = [permission EXCEPT ![w] = IF @ = NoPermission THEN WalletMembers(w) ELSE @]
    /\ EnsureStore(w)
    /\ signed' = S
    /\ UNCHANGED <<rollup, where, returning, now>>

(* A plain transfer to the vault's address or token account, which no      *)
(* instruction of the vault sees.                                          *)
Donate(w, m, a) ==
    /\ a \in 1..purse[w][m]
    /\ purse' = [purse EXCEPT ![w][m] = @ - a]
    /\ reserve' = [reserve EXCEPT ![m] = @ + Delivered(m, a)]
    /\ signed' = {w}
    /\ UNCHANGED <<base, rollup, where, returning, permission, sessionVars>>

----------------------------------------------------------------------------
(* Moving and taking out.                                                  *)

Withdraw(w, m, a, S) ==
    /\ w \in S
    /\ ~IsPda(w)
    /\ Home(w)
    /\ CanDebit(base[w], m, a)
    /\ a <= Spendable(m)
    /\ base' = [base EXCEPT ![w] = Debit(@, m, a)]
    /\ reserve' = [reserve EXCEPT ![m] = @ - a]
    /\ purse' = [purse EXCEPT ![w][m] = @ + Delivered(m, a)]
    /\ signed' = S
    /\ UNCHANGED <<rollup, where, returning, permission, sessionVars>>

\* Mutation of Mediated: two wallets may settle with each other.
AnyPair(src, dst) == TRUE

(* At most one human.                                                      *)
Mediated(src, dst) == IsPda(src) \/ IsPda(dst)

\* Mutation of DebitedSideSigns: the credited side's signature is enough.
EitherSideSigns(src, dst, S) == {src, dst} \cap S # {}

DebitedSideSigns(src, dst, S) == src \in S

\* Mutation of MayClaim: a key granted for any program will do.
MayClaimForAny(src, dst, m, S) ==
    ~IsPda(dst) /\ ~Has(Live(dst), m) =>
        \E k \in S, p \in Programs : MayConsent(dst, k, p)

(* A program's ledger and a mint already there need no consent; a new slot *)
(* on a wallet's ledger needs the owner, or a session key the owner        *)
(* granted for the paying program.                                         *)
MayClaim(src, dst, m, S) ==
    ~IsPda(dst) /\ ~Has(Live(dst), m) =>
        \E k \in S : MayConsent(dst, k, Live(src).authorized)

(* settle, on whichever chain holds both ledgers.                          *)
Settle(src, dst, m, a, S) ==
    /\ src # dst
    /\ Together(src, dst)
    /\ Mediated(src, dst)
    /\ DebitedSideSigns(src, dst, S)
    /\ MayClaim(src, dst, m, S)
    /\ CanDebit(Live(src), m, a)
    /\ CanCredit(Live(dst), m, a)
    /\ LET write(table) == [table EXCEPT ![src] = Debit(Live(src), m, a),
                                         ![dst] = Credit(Live(dst), m, a)]
       IN  IF where[src] = Basenet
           THEN base' = write(base) /\ UNCHANGED rollup
           ELSE rollup' = write(rollup) /\ UNCHANGED base
    /\ signed' = S
    /\ UNCHANGED <<where, returning, permission, reserve, purse, sessionVars>>

(* close_ledger: every balance goes back to the owner, program or wallet,  *)
(* then the permission, a wallet's store and the ledger go.  With one slot *)
(* to a mint, entry by entry is mint by mint.                              *)
CloseLedger(o, payer, S) ==
    /\ {o, payer} \subseteq S
    /\ Home(o)
    /\ payer = base[o].rentPayer
    /\ \A m \in Mints : Balance(base[o], m) <= Spendable(m)
    /\ \A i \in FreeSlots(base[o]) : base[o].entries[i].amount = 0
    /\ base' = [base EXCEPT ![o] = NoLedger]
    /\ reserve' = [m \in Mints |-> reserve[m] - Balance(base[o], m)]
    /\ purse' = [purse EXCEPT ![o] =
                    [m \in Mints |-> @[m] + Delivered(m, Balance(base[o], m))]]
    /\ permission' = [permission EXCEPT ![o] = NoPermission]
    /\ IF IsPda(o) THEN UNCHANGED store ELSE CloseStore(o)
    /\ signed' = S
    /\ UNCHANGED <<rollup, where, returning, now>>

----------------------------------------------------------------------------
(* Delegation.                                                             *)

DelegateLedger(o, v, S) ==
    /\ o \in S
    /\ Home(o)
    /\ rollup' = [rollup EXCEPT ![o] = base[o]]
    /\ where' = [where EXCEPT ![o] = v]
    /\ signed' = S
    /\ UNCHANGED <<base, returning, permission, reserve, purse, sessionVars>>

(* undelegate: anyone who pays schedules the commit; the copy freezes.     *)
Undelegate(o, payer, S) ==
    /\ payer \in S
    /\ where[o] # Basenet
    /\ o \notin returning
    /\ returning' = returning \cup {o}
    /\ signed' = S
    /\ UNCHANGED <<base, rollup, where, permission, reserve, purse, sessionVars>>

\* Mutation of CommitLands: basenet keeps the bytes it had.
CommitKeepsBase(o) ==
    /\ o \in returning
    /\ rollup' = [rollup EXCEPT ![o] = NoLedger]
    /\ where' = [where EXCEPT ![o] = Basenet]
    /\ returning' = returning \ {o}
    /\ signed' = {}
    /\ UNCHANGED <<base, permission, reserve, purse, sessionVars>>

(* The delegation program's callback: the rollup's bytes become basenet's. *)
CommitLands(o) ==
    /\ o \in returning
    /\ base' = [base EXCEPT ![o] = rollup[o]]
    /\ rollup' = [rollup EXCEPT ![o] = NoLedger]
    /\ where' = [where EXCEPT ![o] = Basenet]
    /\ returning' = returning \ {o}
    /\ signed' = {}
    /\ UNCHANGED <<permission, reserve, purse, sessionVars>>

(* A commit that fails leaves the ledger delegated and writable again; the *)
(* program relies on it and does none of it itself.                        *)
CommitFails(o) ==
    /\ o \in returning
    /\ returning' = returning \ {o}
    /\ signed' = {}
    /\ UNCHANGED <<base, rollup, where, permission, reserve, purse, sessionVars>>

----------------------------------------------------------------------------
(* Privacy.                                                                *)

\* Mutation of MakePublic: the rent payer is not asked.
MakePublicByOwner(o, payer, S) ==
    /\ o \in S
    /\ Home(o)
    /\ permission[o] # NoPermission
    /\ permission' = [permission EXCEPT ![o] = NoPermission]
    /\ signed' = S
    /\ UNCHANGED <<base, rollup, where, returning, reserve, purse, sessionVars>>

MakePublic(o, payer, S) ==
    /\ {o, payer} \subseteq S
    /\ Home(o)
    /\ payer = base[o].rentPayer
    /\ permission[o] # NoPermission
    /\ permission' = [permission EXCEPT ![o] = NoPermission]
    /\ signed' = S
    /\ UNCHANGED <<base, rollup, where, returning, reserve, purse, sessionVars>>

MakeWalletLedgerPrivate(w, S) ==
    /\ w \in S
    /\ ~IsPda(w)
    /\ Home(w)
    /\ w = base[w].rentPayer
    /\ permission[w] = NoPermission
    /\ permission' = [permission EXCEPT ![w] = WalletMembers(w)]
    /\ signed' = S
    /\ UNCHANGED <<base, rollup, where, returning, reserve, purse, sessionVars>>

MakePdaLedgerPrivate(o, payer, program, S) ==
    /\ {o, payer} \subseteq S
    /\ permission[o] = NoPermission
    /\ VerifyPdaOwner(o, program)
    /\ Home(o)
    /\ payer = base[o].rentPayer
    /\ permission' = [permission EXCEPT ![o] = PdaMembers(program, payer)]
    /\ signed' = S
    /\ UNCHANGED <<base, rollup, where, returning, reserve, purse, sessionVars>>

(* add_pda_caller: on basenet, delegated or not; the vault itself joins    *)
(* with the first caller.                                                  *)
AddPdaCaller(o, program, caller, S) ==
    LET members == permission[o] \cup {VaultId, caller}
    IN  /\ o \in S
        /\ VerifyPdaOwner(o, program)
        /\ Exists(o)
        /\ permission[o] # NoPermission
        /\ members # permission[o] => Cardinality(members) <= MaxMembers
        /\ permission' = [permission EXCEPT ![o] = members]
        /\ signed' = S
        /\ UNCHANGED <<base, rollup, where, returning, reserve, purse, sessionVars>>

----------------------------------------------------------------------------
Init ==
    /\ base = [o \in Owners |-> NoLedger]
    /\ rollup = [o \in Owners |-> NoLedger]
    /\ where = [o \in Owners |-> Basenet]
    /\ returning = {}
    /\ permission = [o \in Owners |-> NoPermission]
    /\ reserve = [m \in Mints |-> 0]
    /\ purse = InitialPurse
    /\ store = [w \in Wallets |-> NoStore]
    /\ now = 0
    /\ signed = {}

SignerSets == {S \in SUBSET Keys : Cardinality(S) <= MaxSigners}

OpenNext ==
    \E S \in SignerSets :
        \/ \E p \in Wallets : InitializeVault(p, S)
        \/ \E w \in Wallets, n \in 0..CapacityBound : OpenWalletLedger(w, n, S)
        \/ \E o \in Owners, p \in Sponsors, g \in Programs, n \in 0..CapacityBound :
              OpenPdaLedger(o, p, g, n, S)
        \/ \E o \in Owners, p \in Sponsors, f \in MinFrees, n \in 0..(MaxSlotIncrease + 1) :
              GrowPdaLedger(o, p, f, n, S)

ValueNext ==
    \/ \E S \in SignerSets, m \in Mints, a \in Amount :
        \/ \E w \in Wallets, f \in MinFrees, n \in 0..(MaxSlotIncrease + 1) :
              Deposit(w, m, a, f, n, S)
        \/ \E w \in Wallets : Withdraw(w, m, a, S)
        \/ \E src, dst \in Owners : Settle(src, dst, m, a, S)
    \/ \E o \in Owners, p \in Keys, S \in SignerSets : CloseLedger(o, p, S)

DonateNext == \E w \in Wallets, m \in Mints, a \in Amount : Donate(w, m, a)

DelegationNext ==
    \/ \E o \in Owners, S \in SignerSets :
        \/ \E v \in Validators : DelegateLedger(o, v, S)
        \/ \E p \in Wallets : Undelegate(o, p, S)
    \/ \E o \in Owners : CommitLands(o) \/ CommitFails(o)

PrivacyNext ==
    \E o \in Owners, S \in SignerSets :
        \/ \E p \in Sponsors : MakePublic(o, p, S)
        \/ MakeWalletLedgerPrivate(o, S)
        \/ \E p \in Sponsors, g \in Programs : MakePdaLedgerPrivate(o, p, g, S)
        \/ \E g, c \in Programs : AddPdaCaller(o, g, c, S)

SessionNext ==
    \/ /\ \E w \in Wallets, p \in Programs, k \in Keys \cup {ZeroKey}, S \in SignerSets :
            \/ \E t \in Times : AuthorizeSession(w, p, k, t, S)
            \/ RevokeSession(w, p, k, S)
       /\ UNCHANGED custodyVars
    \/ Tick /\ UNCHANGED custodyVars

Next == OpenNext \/ ValueNext \/ DonateNext \/ DelegationNext \/ PrivacyNext \/ SessionNext

Spec == Init /\ [][Next]_vars

----------------------------------------------------------------------------
LedgerTypes ==
    /\ DOMAIN base = Owners /\ DOMAIN rollup = Owners
    /\ \A o \in Owners : IsLedger(base[o]) /\ IsLedger(rollup[o])
    /\ where \in [Owners -> Chains]
    /\ returning \subseteq {o \in Owners : where[o] # Basenet}

MoneyTypes ==
    /\ reserve \in [Mints -> Nat]
    /\ purse \in [Owners -> [Mints -> Nat]]

PermissionTypes == permission \in [Owners -> (SUBSET Principals) \cup {NoPermission}]

SessionTypes ==
    /\ store \in [Wallets -> Store \cup {NoStore}]
    /\ now \in Times
    /\ signed \subseteq Keys

(* The variables keep their types: no table changes its width, no slot or  *)
(* reserve goes below zero or past a u64, and only delegated ledgers are on*)
(* their way home.                                                         *)
TypeOK == LedgerTypes /\ MoneyTypes /\ PermissionTypes /\ SessionTypes

(* In every copy of every ledger, live or stale: slot 0 is SOL's, no mint  *)
(* has two slots, and no value sits in a slot that counts as free.  This   *)
(* is what index_of's first match and close_ledger's sweep rely on.        *)
SlotDiscipline == \A o \in Owners : Disciplined(base[o]) /\ Disciplined(rollup[o])

(* A delegated ledger exists and comes home the size it left, naming the   *)
(* same rent payer and program; a program's ledger names the program that  *)
(* derives its owner, whoever sponsored it, and a wallet pays for its own. *)
HeadersFixed ==
    /\ \A o \in Owners : Exists(o) =>
          /\ o \in Pdas => base[o].authorized = ProgramOf[o]
          /\ o \in Wallets => base[o].rentPayer = o /\ base[o].authorized = ZeroKey
    /\ \A o \in Owners : where[o] # Basenet =>
          /\ Exists(o)
          /\ rollup[o].rentPayer = base[o].rentPayer
          /\ rollup[o].authorized = base[o].authorized
          /\ rollup[o].capacity = base[o].capacity
    /\ \A o \in Owners : where[o] = Basenet => rollup[o] = NoLedger

Promise == INSTANCE VaultClaims WITH
               claims <- Claims, reserve <- [m \in Mints |-> Spendable(m)]

(* Solvency across chains: what can be paid out of a mint covers the live  *)
(* claims on it, on basenet and on every rollup together.                  *)
Solvent == Promise!Solvent

(* Every step is one the abstract vault allows, or leaves claims and       *)
(* reserves alone.                                                         *)
KeepsPromise == Promise!Spec

(* The debited side signs: no step lowers what an owner is owed, on any    *)
(* chain, unless that owner signed it - neither a program, a validator's   *)
(* commit nor another wallet can.                                          *)
DebitNeedsOwner ==
    [][\A o \in Owners, m \in Mints : Claims'[o][m] < Claims[o][m] => o \in signed']_vars

Wealth(o, m) == purse[o][m] + Claims[o][m]

(* No instruction pays one person another: a wallet gets richer, counting  *)
(* what it holds and what it is owed, only in a step some program signed.  *)
NoPaymentRail ==
    [][\A w \in Wallets, m \in Mints :
          Wealth(w, m)' > Wealth(w, m) => signed' \cap Pdas # {}]_vars

Listed(o) == {m \in Mints \ {Sol} : Exists(o) /\ Has(Live(o), m)}

(* A wallet's table takes a new mint only if the wallet signed, or a key   *)
(* signed that the wallet granted to the program whose PDA signed too.     *)
ClaimNeedsConsent ==
    [][\A w \in Wallets : Listed(w)' \subseteq Listed(w)
          \/ w \in signed'
          \/ \E k \in signed', p \in signed' \cap Pdas : MayConsent(w, k, ProgramOf[p])]_vars

(* A ledger is never readable by everyone behind its owner's back: no      *)
(* permission outlives its ledger, a ledger opens with one, and a ledger   *)
(* that stays loses it only if owner and rent payer both signed - which no *)
(* step does while the ledger is on a rollup.                              *)
PrivateUntilWaived ==
    [][\A o \in Owners :
          /\ ~Exists(o)' => permission'[o] = NoPermission
          /\ Exists(o)' /\ permission'[o] = NoPermission =>
                \/ Exists(o) /\ permission[o] = NoPermission
                \/ {o, base[o].rentPayer} \subseteq signed' /\ Home(o)]_vars

(* A permission never loses the readers it exists for: a wallet reads its  *)
(* own ledger alone; a program and the sponsor who pays for its ledger     *)
(* keep reading it whatever callers join.                                  *)
ReadersKept ==
    \A o \in Owners : permission[o] # NoPermission =>
        /\ o \in Wallets => permission[o] = {o}
        /\ o \in Pdas => {ProgramOf[o], base[o].rentPayer} \subseteq permission[o]
        /\ Cardinality(permission[o]) <= MaxMembers

=============================================================================
