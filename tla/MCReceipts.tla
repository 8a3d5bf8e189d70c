----------------------------- MODULE MCReceipts -----------------------------
(***************************************************************************)
(* Small instances of Receipts, all on a rollup where every ledger has     *)
(* arrived, the wallets' with a mint or none, the programs' funded.        *)
(***************************************************************************)
EXTENDS Receipts, FiniteSetsExt

CONSTANTS Alice, Bob, House, Till, Shop, Gold, Game, Market

(* House and Till are the Game's PDAs, Shop the Market's.                  *)
MCProgramOf == [p \in Pdas |-> IF p = Shop THEN Market ELSE Game]

NoPurse == [o \in Owners |-> [m \in Mints |-> 0]]

Mv(m, x, f, t) == [mint |-> m, amount |-> x, from |-> f, to |-> t]
Order(owners, movements) == [owners |-> owners, movements |-> movements]

(* A purchase, a payout, and both in one receipt: the coin passes through  *)
(* Alice on its way from House to Till.                                    *)
Buy == Order(<<Alice, House>>, <<Mv(Gold, 1, 1, 2)>>)
Win == Order(<<House, Alice>>, <<Mv(Gold, 1, 1, 2)>>)
Through == Order(<<House, Alice, Till>>, <<Mv(Gold, 1, 1, 2), Mv(Gold, 1, 2, 3)>>)

(* Lent and given back: the ledgers end as they were.                      *)
Refund == Order(<<House, Alice>>, <<Mv(Gold, 1, 1, 2), Mv(Gold, 1, 2, 1)>>)

(* Orders the vault should refuse: between people, from another program,   *)
(* from a ledger to itself, out of range, named twice.                     *)
Gift == Order(<<Alice, Bob, House>>, <<Mv(Gold, 1, 1, 2)>>)
Raid == Order(<<Shop, House>>, <<Mv(Gold, 1, 1, 2)>>)
Loop == Order(<<House, Alice>>, <<Mv(Gold, 1, 1, 1)>>)
Stray == Order(<<House, Alice>>, <<Mv(Gold, 1, 1, 3)>>)
Twice == Order(<<House, Alice, House>>, <<Mv(Gold, 1, 1, 3)>>)
Empty == Order(<<>>, <<>>)

LifeTerms == {Win, Through}
AllTerms == {Buy, Win, Through, Refund, Gift, Raid, Loop, Stray, Twice, Empty}

(* A table of two slots with a gold or none, or with room for it.          *)
Table(o, rich, spent) ==
    [rentPayer |-> IF o \in Wallets THEN o ELSE Alice,
     authorized |-> IF o \in Wallets THEN ZeroKey ELSE ProgramOf[o],
     capacity |-> 2,
     entries |-> [i \in 0..1 |-> CASE i = 1 /\ o \in rich -> [mint |-> Gold, amount |-> 1]
                                 [] i = 1 /\ o \in spent -> [mint |-> Gold, amount |-> 0]
                                 [] OTHER -> EmptyEntry]]

(* Four scenes: direct settlement beside receipts, with keys granted and   *)
(* revoked; orders of every shape; sponsors, debris and rent while the     *)
(* sponsors' ledgers leave and come back; receipts that are abandoned.     *)
(* Each has the owners whose ledgers are there, those that have gold or    *)
(* list it and have none, the terms asked for, and the keys that ask.      *)
Scene ==
    [trade |-> [there |-> {Alice, House, Till}, rich |-> {House, Till}, spent |-> {},
                terms |-> {Buy, Win, Through}, keys |-> {Bob}],
     odd   |-> [there |-> {Alice, Bob, House, Shop}, rich |-> {Alice, Shop}, spent |-> {Bob},
                terms |-> {Buy, Refund, Gift, Raid, Loop, Stray, Twice, Empty},
                keys |-> {Alice}],
     rent  |-> [there |-> {Alice, House, Till, Shop}, rich |-> {House, Till, Shop}, spent |-> {},
                terms |-> LifeTerms, keys |-> {Alice}],
     reap  |-> [there |-> {Alice, House, Till}, rich |-> {House, Till}, spent |-> {},
                terms |-> LifeTerms, keys |-> {Alice, Bob}]]

CONSTANT Scenes   \* the names of the scenes a run plays

VARIABLE scene    \* the one a behaviour is in

MCVars == <<allVars, scene>>
MCView == <<ReceiptView, scene>>

(* The people have stores that name no program.                            *)
MCInit ==
    /\ scene \in Scenes
    /\ LET c == Scene[scene]
       IN  /\ base = [o \in Owners |-> IF o \in c.there THEN Table(o, c.rich, c.spent) ELSE NoLedger]
           /\ reserve = [m \in Mints |-> IF m = Gold THEN Cardinality(c.rich) ELSE 0]
    /\ rollup = [o \in Owners |-> IF o \in Scene[scene].there THEN base[o] ELSE NoLedger]
    /\ where = [o \in Owners |-> IF o \in Scene[scene].there THEN Er ELSE Basenet]
    /\ returning = {}
    /\ permission = [o \in Owners |-> NoPermission]
    /\ purse = InitialPurse
    /\ store = [w \in Wallets |-> EmptyStore]
    /\ now = 0
    /\ signed = {}
    /\ ReceiptInit

(* Receipts as the scene has them; trade begins in slot 1.                 *)
Written ==
    /\ ReceiptNext
    /\ scene = "trade" => slot > 0 \/ UNCHANGED <<receipts, tasks>>
    /\ \A a \in ReceiptAddresses : receipts'[a] # NoReceipt =>
          a.consenter \in Scene[scene].keys /\ receipts'[a].terms \in Scene[scene].terms

Paid ==
    /\ \E src, dst \in Scene[scene].there, m \in Mints, x \in Amount, S \in SignerSets :
          Settle(src, dst, m, x, S)
    /\ UNCHANGED receiptVars

(* Alice alone grants, to the Game.                                        *)
Granted ==
    /\ SessionNext /\ UNCHANGED receiptVars
    /\ store'[Bob] = store[Bob] /\ DOMAIN store'[Alice] \subseteq {Game}

(* House's ledger alone comes and goes.                                    *)
Travelled ==
    /\ DelegationNext /\ UNCHANGED receiptVars
    /\ \A o \in Owners \ {House} :
          where'[o] = where[o] /\ (o \in returning' <=> o \in returning)

MCNext ==
    /\ \/ Written
       \/ scene = "trade" /\ (Paid \/ Granted)
       \/ scene = "rent" /\ Travelled
    /\ UNCHANGED scene

MCSpec == MCInit /\ [][MCNext]_MCVars

(* The scheduler keeps running and ledgers stay on the rollup.             *)
ReapSpec == MCSpec /\ ReceiptFairness

=============================================================================
