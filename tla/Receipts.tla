------------------------------ MODULE Receipts ------------------------------
(***************************************************************************)
(* Receipts on one rollup (create_receipt.rs, settle_receipt.rs,           *)
(* reap_receipt.rs, state/receipt.rs, utils/crank.rs), composed with the   *)
(* ledgers they move value between, their delegation and the sessions that *)
(* consent.  A receipt is the account of one program and one key: it is    *)
(* written by the program, settles only in the slot it was written in, and *)
(* is debris afterwards, until a task, anybody's reap or the next receipt  *)
(* takes it away.                                                          *)
(*                                                                         *)
(* An ephemeral account's rent leaves its sponsor's ledger when it is made *)
(* and reaches the ledger it is closed onto; the scheduler keeps one task  *)
(* per receipt and authority.  Both are the rollup's, seen only as used.   *)
(***************************************************************************)
EXTENDS Vault, Sequences

CONSTANTS
    Er,          \* the rollup the receipts are on
    NoReceipt,   \* the empty account at a receipt's address
    Terms,       \* the terms programs ask for, sound or not
    Consenters,  \* the keys that ask for receipts
    Float,       \* lamports each program's ledger may front as rent
    FiresAtOnce, \* whether a task may run in the slot that scheduled it
    SlotBound    \* bound on the rollup's slots

ASSUME ReceiptsAssumption ==
    /\ Er \in Validators
    /\ Consenters \subseteq Keys
    /\ NoReceipt \notin Terms
    /\ NoReceipt \notin [terms : Terms, authority : Pdas, slot : 0..SlotBound]
    /\ Float \in Nat /\ SlotBound \in Nat
    /\ FiresAtOnce \in BOOLEAN
    /\ \A t \in Terms : t.owners \in Seq(Owners) /\ t.movements \in Seq(
          [mint : Mints, amount : Amount, from : Nat \ {0}, to : Nat \ {0}])

VARIABLES
    receipts,  \* receipts[a]: the account at the address a
    tasks,     \* the reaps scheduled and not yet run
    lamports,  \* lamports[o]: what a program's ledger still has to front
    slot       \* the rollup's slot

receiptVars == <<receipts, tasks, lamports, slot>>
allVars == <<vars, receiptVars>>
ReceiptView == <<View, receiptVars>>

(* ["receipt", member_program, consenter]                                  *)
ReceiptAddresses == [member : Programs, consenter : Consenters]

Slot == 0..SlotBound

(* The discriminator is not a field: it is zeroed and the account closed   *)
(* within one instruction.                                                 *)
Receipt == [terms : Terms, authority : Pdas, slot : Slot]
Task == [receipt : ReceiptAddresses, ledger : Pdas, scheduled : Slot]

Parties(t) == {t.owners[i] : i \in 1..Len(t.owners)}

(* len_for: bytes, and so rent, are linear in what the terms list.         *)
Rent(t) == 1 + Len(t.owners) + Len(t.movements)
RentHeld(a) == IF receipts[a] = NoReceipt THEN 0 ELSE Rent(receipts[a].terms)

(* A ledger the vault owns on the rollup, and may write there.             *)
OnRollup(o) == where[o] = Er /\ o \notin returning

----------------------------------------------------------------------------
(* create_receipt.                                                         *)

Distinct(t) == \A i, j \in 1..Len(t.owners) : t.owners[i] = t.owners[j] => i = j

(* Owners are distinct, and every movement joins two of them.              *)
WellFormed(t) ==
    /\ t.owners # <<>>
    /\ Distinct(t)
    /\ \A i \in 1..Len(t.movements) :
          /\ {t.movements[i].from, t.movements[i].to} \subseteq 1..Len(t.owners)
          /\ t.movements[i].from # t.movements[i].to

\* Mutation of Overwritable: a live receipt gives way to the next one.
AlwaysOverwritable(a) == TRUE

(* An empty address, or one that holds an earlier slot's debris.           *)
Overwritable(a) == receipts[a] # NoReceipt => receipts[a].slot # slot

(* One task per receipt and authority, the last one scheduled.             *)
TaskFor(a, o) == {t \in tasks : t.receipt = a /\ t.ledger = o}
\* Mutation of ScheduleReap: the task of a reused address is kept as it is.
ScheduleReapOnce(a, o) ==
    tasks' = IF \E t \in tasks : t.receipt = a THEN tasks
             ELSE tasks \cup {[receipt |-> a, ledger |-> o, scheduled |-> slot]}

ScheduleReap(a, o) ==
    tasks' = (tasks \ TaskFor(a, o)) \cup {[receipt |-> a, ledger |-> o, scheduled |-> slot]}

\* Mutation of CanFront: nobody counts the sponsor's lamports.
FrontsAnything(a, o, t) == TRUE

(* The sponsor pays what the account needs beyond the rent it holds.       *)
CanFront(a, o, t) == Rent(t) <= lamports[o] + RentHeld(a)

(* The account is made, or resized, against `o`'s ledger, whoever fronted  *)
(* what it held.                                                           *)
CreateReceipt(a, o, t, S) ==
    /\ {o, a.consenter} \subseteq S
    /\ VerifyPdaOwner(o, a.member)
    /\ WellFormed(t)
    /\ Overwritable(a)
    /\ OnRollup(o)
    /\ CanFront(a, o, t)
    /\ receipts' = [receipts EXCEPT ![a] = [terms |-> t, authority |-> o, slot |-> slot]]
    /\ lamports' = [lamports EXCEPT ![o] = @ + RentHeld(a) - Rent(t)]
    /\ ScheduleReap(a, o)
    /\ signed' = S
    /\ UNCHANGED <<custodyVars, sessionVars, slot>>

----------------------------------------------------------------------------
(* settle_receipt.                                                         *)

Giver(t, i) == t.owners[t.movements[i].from]
Taker(t, i) == t.owners[t.movements[i].to]

(* Movements are applied in order to copies of the ledgers, one copy to a  *)
(* party: a balance one movement brings may leave with the next.           *)
CanCarry(copies, mv) ==
    /\ CanDebit(copies[mv.from], mv.mint, mv.amount)
    /\ CanCredit(copies[mv.to], mv.mint, mv.amount)

\* Mutation of Carried: the taker's ledger is read afresh for each movement.
CarriedAfresh(t, copies, i) ==
    LET mv == t.movements[i]
    IN  [copies EXCEPT ![mv.from] = Debit(@, mv.mint, mv.amount),
                       ![mv.to] = Credit(rollup[Taker(t, i)], mv.mint, mv.amount)]

Carried(t, copies, i) ==
    LET mv == t.movements[i]
    IN  [copies EXCEPT ![mv.from] = Debit(@, mv.mint, mv.amount),
                       ![mv.to] = Credit(@, mv.mint, mv.amount)]

(* The copies after each movement, from none of them to all.               *)
Runs(t) ==
    LET run[i \in 0..Len(t.movements)] ==
            IF i = 0 THEN [p \in 1..Len(t.owners) |-> rollup[t.owners[p]]]
            ELSE Carried(t, run[i - 1], i)
    IN  run

CanApply(t) == \A i \in 1..Len(t.movements) : CanCarry(Runs(t)[i - 1], t.movements[i])

(* Every copy is stored where its party's ledger is.                       *)
Applied(t) ==
    LET copies == Runs(t)[Len(t.movements)]
    IN  [o \in Owners |->
            IF o \in Parties(t) THEN copies[CHOOSE p \in 1..Len(t.owners) : t.owners[p] = o]
            ELSE rollup[o]]

\* Mutation of LedgersMatch: another program's ledger is let in.
LedgersPresent(a, t) == Distinct(t) /\ \A o \in Parties(t) : OnRollup(o)

(* Every party's ledger is here and listed once, a program's naming the    *)
(* receipt's member.                                                       *)
LedgersMatch(a, t) ==
    /\ Distinct(t)
    /\ \A o \in Parties(t) : OnRollup(o) /\ (IsPda(o) => rollup[o].authorized = a.member)

\* Mutation of OnePersonAtMost: any number of people.
AnyCrowd(t) == TRUE

OnePersonAtMost(t) == \A v, w \in Parties(t) \cap Wallets : v = w

Debited(w, t) == \E i \in 1..Len(t.movements) : Giver(t, i) = w
GainsSlot(w, t) ==
    \E i \in 1..Len(t.movements) : Taker(t, i) = w /\ ~Has(rollup[w], t.movements[i].mint)

\* Mutation of PersonConsents: only a debit needs the person's consent.
PersonConsentsToDebit(a, t) ==
    \A w \in Parties(t) \cap Wallets :
        Debited(w, t) => MayConsent(w, a.consenter, a.member)

\* Mutation of PersonConsents: only a new slot needs the person's consent.
PersonConsentsToSlot(a, t) ==
    \A w \in Parties(t) \cap Wallets :
        GainsSlot(w, t) => MayConsent(w, a.consenter, a.member)

(* The one person gives, or takes a new mint, only if the consenter is     *)
(* theirs for this program.                                                *)
PersonConsents(a, t) ==
    \A w \in Parties(t) \cap Wallets :
        Debited(w, t) \/ GainsSlot(w, t) => MayConsent(w, a.consenter, a.member)

SettleableNow(a) == receipts[a] # NoReceipt /\ receipts[a].slot = slot

(* The account goes, its rent onto ledger `o`.                             *)
CloseOnto(a, o) ==
    /\ receipts' = [receipts EXCEPT ![a] = NoReceipt]
    /\ lamports' = [lamports EXCEPT ![o] = @ + RentHeld(a)]

(* The member program's callback may refuse, and then nothing happens; the *)
(* sponsor's own ledger must be one of the parties.                        *)
SettleReceipt(a, S) ==
    /\ SettleableNow(a)
    /\ a.consenter \in S
    /\ LET t == receipts[a].terms
           o == receipts[a].authority
       IN  /\ LedgersMatch(a, t)
           /\ OnePersonAtMost(t)
           /\ PersonConsents(a, t)
           /\ CanApply(t)
           /\ o \in Parties(t)
           /\ rollup' = Applied(t)
           /\ CloseOnto(a, o)
           /\ tasks' = tasks \ TaskFor(a, o)
    /\ signed' = S
    /\ UNCHANGED <<base, where, returning, permission, reserve, purse, sessionVars, slot>>

----------------------------------------------------------------------------
(* reap_receipt and the task that calls it.                                *)

\* Mutation of Reapable: the rent may be closed onto any ledger.
ReapableOnto(a, o) == receipts[a] # NoReceipt /\ receipts[a].slot < slot /\ OnRollup(o)

(* Past the creation slot, onto the ledger of the receipt's own authority. *)
Reapable(a, o) ==
    /\ receipts[a] # NoReceipt
    /\ receipts[a].slot < slot
    /\ OnRollup(o)
    /\ o = receipts[a].authority

(* Anybody may reap; where the code returns early nothing happens.         *)
ReapReceipt(a, o, S) ==
    /\ Reapable(a, o)
    /\ CloseOnto(a, o)
    /\ signed' = S
    /\ UNCHANGED <<custodyVars, sessionVars, tasks, slot>>

(* A task runs once, whether its reap closes the receipt, finds nothing to *)
(* do or fails.                                                            *)
RunTask(t) ==
    /\ t \in tasks
    /\ FiresAtOnce \/ t.scheduled < slot
    /\ tasks' = tasks \ {t}
    /\ IF Reapable(t.receipt, t.ledger) THEN CloseOnto(t.receipt, t.ledger)
       ELSE UNCHANGED <<receipts, lamports>>
    /\ signed' = {}
    /\ UNCHANGED <<custodyVars, sessionVars, slot>>

NextSlot ==
    /\ slot < SlotBound
    /\ slot' = slot + 1
    /\ signed' = {}
    /\ UNCHANGED <<custodyVars, sessionVars, receipts, tasks, lamports>>

----------------------------------------------------------------------------
ReceiptInit ==
    /\ receipts = [a \in ReceiptAddresses |-> NoReceipt]
    /\ tasks = {}
    /\ lamports = [o \in Pdas |-> Float]
    /\ slot = 0

(* No receipt is written in the last slot the bound leaves.                *)
ReceiptNext ==
    \/ \E a \in ReceiptAddresses, S \in SignerSets :
        \/ slot < SlotBound /\ \E o \in Pdas, t \in Terms : CreateReceipt(a, o, t, S)
        \/ SettleReceipt(a, S)
        \/ \E o \in Pdas : ReapReceipt(a, o, S)
    \/ \E t \in tasks : RunTask(t)
    \/ NextSlot

(* The vault's other instructions leave receipts alone.                    *)
RollupNext == ReceiptNext \/ (Next /\ UNCHANGED receiptVars)

(* Slots go by, and the scheduler runs what it was given.                  *)
ReceiptFairness ==
    /\ WF_allVars(NextSlot)
    /\ \A t \in Task : WF_allVars(RunTask(t))

ReceiptSpec == Init /\ ReceiptInit /\ [][RollupNext]_allVars

----------------------------------------------------------------------------
(* Receipts, tasks and fronted lamports keep their types; no ledger fronts *)
(* more than it has.                                                       *)
ReceiptTypeOK ==
    /\ receipts \in [ReceiptAddresses -> Receipt \cup {NoReceipt}]
    /\ tasks \subseteq Task
    /\ lamports \in [Pdas -> Nat]
    /\ slot \in Slot

Consumed(a) == SettleableNow(a) /\ receipts'[a] = NoReceipt

(* Nobody's claims go down without leave: the owner signed, or the step    *)
(* took a receipt written in this very slot by the owner's own program, or *)
(* by a program and a key that may consent for the wallet there, the key   *)
(* signing again (settle_receipt.rs:36-53, 97-112).                        *)
DebitNeedsReceipt ==
    [][\A o \in Owners, m \in Mints : Claims'[o][m] < Claims[o][m] =>
          \/ o \in signed'
          \/ \E a \in ReceiptAddresses :
                /\ Consumed(a) /\ a.consenter \in signed'
                /\ IF IsPda(o) THEN ProgramOf[o] = a.member
                   ELSE MayConsent(o, a.consenter, a.member)]_allVars

(* A wallet's table takes a new mint only with leave for the program that  *)
(* pays, through a receipt as by settle: the owner signed, or a key that   *)
(* may consent for the program whose PDA signed or whose receipt settled.  *)
SlotNeedsConsent ==
    [][\A w \in Wallets : Listed(w)' \subseteq Listed(w)
          \/ w \in signed'
          \/ \E k \in signed', p \in Programs :
                /\ MayConsent(w, k, p)
                /\ \/ \E o \in signed' \cap Pdas : ProgramOf[o] = p
                   \/ \E a \in ReceiptAddresses :
                         a.member = p /\ a.consenter = k /\ Consumed(a)]_allVars

(* Value never passes between people, however many movements a receipt     *)
(* has: no step touches the claims of two wallets.                         *)
OneWalletPerStep ==
    [][\A v, w \in Wallets :
          (Claims'[v] # Claims[v] /\ Claims'[w] # Claims[w]) => v = w]_allVars

PdasOf(g) == {o \in Pdas : ProgramOf[o] = g}
ReceiptsOf(g) == {a \in ReceiptAddresses : a.member = g}

(* The units `f` counts at the members of `S`, each apart from the others. *)
UnitsAt(f, S) == UNION {{x} \X (1..f[x]) : x \in S}

RentAt == [a \in ReceiptAddresses |-> RentHeld(a)]
ProgramRent(g) ==
    Cardinality(UnitsAt(lamports, PdasOf(g))) + Cardinality(UnitsAt(RentAt, ReceiptsOf(g)))

(* Rent fronted for receipts stays with the program that asked for them,   *)
(* in its ledgers or its receipts, whoever settles, reuses or reaps them.  *)
RentStaysInProgram ==
    \A g \in Programs :
        ProgramRent(g) = Float * Cardinality(PdasOf(g))

(* An intent is pending from its creation until it settles or its slot     *)
(* ends; what lies at the address after that is not one.                   *)
Promised == INSTANCE Intents WITH
                Places <- ReceiptAddresses,
                None <- NoReceipt,
                pending <- [a \in ReceiptAddresses |->
                               IF SettleableNow(a) THEN receipts[a].terms ELSE NoReceipt],
                claims <- Claims

(* Every step carries out a pending intent, proposes one, lets them lapse  *)
(* or leaves them alone; none is carried out twice, late, or partly.       *)
KeepsIntents == Promised!Spec

(* "Nothing is left behind either way" (README.md:405): once no more are   *)
(* written, every receipt is gone, settled or reaped.                      *)
NothingLeftBehind == <>[](\A a \in ReceiptAddresses : receipts[a] = NoReceipt)

=============================================================================
