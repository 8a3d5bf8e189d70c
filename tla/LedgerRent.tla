----------------------------- MODULE LedgerRent -----------------------------
(***************************************************************************)
(* The lamports at the accounts the vault stands up for an owner: the      *)
(* ledger, its permission and a wallet's session store.  Every instruction *)
(* of Vault that makes, resizes or closes one of them is here with its     *)
(* lamports; all the others leave them alone.                              *)
(*                                                                         *)
(* An account needs rent in proportion to its size: the header counts for  *)
(* one, and so does each slot or entry.  Whatever else lies at an address  *)
(* was sent there by somebody, before or after the account was made; that  *)
(* is also the float a program's ledger fronts receipts from.              *)
(***************************************************************************)
EXTENDS Vault, Integers

CONSTANT GiftBound   \* bound on the lamports sent to addresses

VARIABLES
    lamports,  \* lamports[a]: what the account at address a holds
    fronted,   \* history: fronted[k][a], what k paid to a less what k got from it
    gifts      \* history: the lamports sent to addresses so far

rentVars == <<lamports, fronted, gifts>>
RentView == <<View, rentVars>>

LedgerAt(o) == <<"ledger", o>>
PermissionAt(o) == <<"permission", o>>
SessionAt(o) == <<"session", o>>
AccountAddresses == {"ledger", "permission", "session"} \X Owners

LedgerRentFor(n) == 1 + n
SessionRentFor(n) == 1 + n
PermissionRent == 1

(* An account short of its rent is topped up; what it had already counts.  *)
TopUp(a, need) == IF lamports[a] < need THEN need ELSE lamports[a]

(* The lamports at the addresses of `after` become `after`, the difference *)
(* at address a to or from the key by[a].                                  *)
Moved(after, by) ==
    /\ lamports' = [a \in AccountAddresses |-> IF a \in DOMAIN after THEN after[a] ELSE lamports[a]]
    /\ fronted' = [k \in Keys |-> [a \in AccountAddresses |->
                      fronted[k][a] + IF a \in DOMAIN after /\ by[a] = k
                                      THEN after[a] - lamports[a] ELSE 0]]
    /\ UNCHANGED gifts

MovedBy(k, after) == Moved(after, [a \in DOMAIN after |-> k])

(* The rent of an account when it is made, a ledger of n slots.            *)
NewRent(a, n) ==
    IF a[1] = "ledger" THEN LedgerRentFor(n)
    ELSE IF a[1] = "permission" THEN PermissionRent ELSE SessionRentFor(0)

(* k tops up each account of `accounts`, a ledger for n slots.             *)
PaidUp(k, accounts, n) == MovedBy(k, [a \in accounts |-> TopUp(a, NewRent(a, n))])

(* A permission and a store are made where there is none.                  *)
NewPermission(o) == {a \in {PermissionAt(o)} : permission[o] = NoPermission}
NewStore(w) == {a \in {SessionAt(w)} : store[w] = NoStore}

----------------------------------------------------------------------------
PayOpenWallet(w, n, S) ==
    /\ OpenWalletLedger(w, n, S)
    /\ PaidUp(w, {LedgerAt(w)} \cup NewPermission(w) \cup NewStore(w), n)

PayOpenPda(o, payer, program, n, S) ==
    /\ OpenPdaLedger(o, payer, program, n, S)
    /\ PaidUp(payer, {LedgerAt(o)} \cup NewPermission(o), n)

(* A table that grows is topped up for its new size by whoever grows it.   *)
PayGrowPda(o, payer, minFree, inc, S) ==
    /\ GrowPdaLedger(o, payer, minFree, inc, S)
    /\ PaidUp(payer, {LedgerAt(o)}, base'[o].capacity)

PayDeposit(w, m, a, minFree, inc, S) ==
    /\ Deposit(w, m, a, minFree, inc, S)
    /\ PaidUp(w, {LedgerAt(w)} \cup NewPermission(w) \cup NewStore(w), base'[w].capacity)

(* The ledger's and the permission's lamports go to the rent payer, the    *)
(* store's to the owner.                                                   *)
PayClose(o, payer, S) ==
    LET gone == {LedgerAt(o)}
                   \cup {a \in {PermissionAt(o)} : permission[o] # NoPermission}
                   \cup {a \in {SessionAt(o)} : ~IsPda(o) /\ store[o] # NoStore}
        heir == [a \in gone |-> IF a = SessionAt(o) THEN o ELSE payer]
    IN  /\ CloseLedger(o, payer, S)
        /\ Moved([a \in gone |-> 0], heir)

PayMakePublic(o, payer, S) ==
    /\ MakePublic(o, payer, S)
    /\ MovedBy(payer, [a \in {PermissionAt(o)} |-> 0])

PayMakePrivate(o, payer, program, S) ==
    /\ \/ payer = o /\ MakeWalletLedgerPrivate(o, S)
       \/ MakePdaLedgerPrivate(o, payer, program, S)
    /\ PaidUp(payer, NewPermission(o), 0)

(* A first grant for a program adds its entry; the store may be new too.   *)
PayAuthorize(w, p, k, t, S) ==
    /\ AuthorizeSession(w, p, k, t, S)
    /\ LET sized == {a \in {SessionAt(w)} : store[w] = NoStore \/ ~Authorised(store[w], p)}
       IN  MovedBy(w, [a \in sized |->
                          TopUp(a, SessionRentFor(Cardinality(DOMAIN store'[w])))])
    /\ UNCHANGED custodyVars

\* Mutation of Kept: the store's bare header is all that is paid for.
KeptForHeader(s) == SessionRentFor(0)

(* The rent of what a dropped entry leaves stays; the rest is refunded.    *)
Kept(s) == SessionRentFor(Cardinality(DOMAIN s))

PayRevoke(w, p, k, S) ==
    /\ RevokeSession(w, p, k, S)
    /\ LET sized == {a \in {SessionAt(w)} : k = ZeroKey /\ Authorised(store[w], p)}
           keep == Kept(store'[w])
       IN  MovedBy(w, [a \in sized |-> IF lamports[a] > keep THEN keep ELSE lamports[a]])
    /\ UNCHANGED custodyVars

(* A transfer to an address of the vault's, account or not.                *)
Gift(a) ==
    /\ gifts < GiftBound
    /\ lamports' = [lamports EXCEPT ![a] = @ + 1]
    /\ gifts' = gifts + 1
    /\ signed' = {}
    /\ UNCHANGED <<custodyVars, sessionVars, fronted>>

----------------------------------------------------------------------------
RentInit ==
    /\ Init
    /\ lamports = [a \in AccountAddresses |-> 0]
    /\ fronted = [k \in Keys |-> [a \in AccountAddresses |-> 0]]
    /\ gifts = 0

Growths == 0..(MaxSlotIncrease + 1)

RentNext ==
    \/ \E S \in SignerSets, w \in Wallets :
        \/ \E n \in 0..CapacityBound : PayOpenWallet(w, n, S)
        \/ \E m \in Mints, a \in Amount, f \in MinFrees, n \in Growths :
              PayDeposit(w, m, a, f, n, S)
        \/ \E p \in Programs, k \in SessionKeys \cup {ZeroKey} :
            \/ \E t \in Times : PayAuthorize(w, p, k, t, S)
            \/ PayRevoke(w, p, k, S)
    \/ \E S \in SignerSets, o \in Owners, payer \in Sponsors :
        \/ \E g \in Programs, n \in 0..CapacityBound : PayOpenPda(o, payer, g, n, S)
        \/ \E f \in MinFrees, n \in Growths : PayGrowPda(o, payer, f, n, S)
        \/ PayClose(o, payer, S)
        \/ PayMakePublic(o, payer, S)
        \/ \E g \in Programs : PayMakePrivate(o, payer, g, S)
    \/ \E S \in SignerSets, o \in Owners, g, c \in Programs :
          AddPdaCaller(o, g, c, S) /\ UNCHANGED rentVars
    \/ DelegationNext /\ UNCHANGED rentVars
    \/ \E a \in AccountAddresses : Gift(a)

RentSpec == RentInit /\ [][RentNext]_<<vars, rentVars>>

----------------------------------------------------------------------------
(* What an account's size asks for; nothing, where there is no account.    *)
RentDue(a) ==
    LET o == a[2]
    IN  IF a[1] = "ledger" THEN IF Exists(o) THEN LedgerRentFor(base[o].capacity) ELSE 0
        ELSE IF a[1] = "permission" THEN IF permission[o] # NoPermission THEN PermissionRent ELSE 0
        ELSE IF o \in Wallets /\ store[o] # NoStore
             THEN SessionRentFor(Cardinality(DOMAIN store[o])) ELSE 0

(* account.rs:112-144, session.rs:57-68, 91-100: however the accounts were *)
(* opened, prefunded, grown, shared, shrunk, delegated and made anew, each *)
(* holds the rent its present size asks for, or the runtime would refuse   *)
(* or collect it.                                                          *)
RentExempt == \A a \in AccountAddresses : RentDue(a) <= lamports[a]

(* account.rs:120, close_ledger.rs:118-140: what a key put up is all at    *)
(* accounts that exist and will return to that key (a ledger and its       *)
(* permission to the recorded rent payer, a store to its owner), and no    *)
(* key ever gets out more than it put up, strangers' gifts aside: rent is  *)
(* no way to hand somebody money.                                          *)
RentComesBack ==
    \A k \in Keys, a \in AccountAddresses :
        /\ fronted[k][a] > 0 =>
              /\ RentDue(a) > 0
              /\ k = IF a[1] = "session" THEN a[2] ELSE base[a[2]].rentPayer
              /\ fronted[k][a] <= lamports[a]
        /\ -gifts <= fronted[k][a]

=============================================================================
