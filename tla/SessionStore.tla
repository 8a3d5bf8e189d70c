---------------------------- MODULE SessionStore ----------------------------
(***************************************************************************)
(* The session store on its own: opened with its wallet's ledger, edited   *)
(* by the owner's two instructions, aged by the clock, closed with the     *)
(* ledger.                                                                 *)
(***************************************************************************)
EXTENDS Sessions, Sequences

vars == <<sessionVars, signed>>
View == sessionVars

(* deposit and open_wallet_ledger, as far as the store goes.               *)
Open(w, S) ==
    /\ w \in S
    /\ EnsureStore(w)
    /\ signed' = S
    /\ UNCHANGED now

(* close_ledger, as far as the store goes.                                 *)
Close(w, S) ==
    /\ w \in S
    /\ CloseStore(w)
    /\ signed' = S
    /\ UNCHANGED now

Init ==
    /\ store = [w \in Wallets |-> NoStore]
    /\ now = 0
    /\ signed = {}

Next ==
    \/ \E w \in Wallets, s \in Keys : Open(w, {s}) \/ Close(w, {s})
    \/ \E w \in Wallets, p \in Programs, k \in Keys \cup {ZeroKey}, s \in Keys :
        \/ \E t \in Times : AuthorizeSession(w, p, k, t, {s})
        \/ RevokeSession(w, p, k, {s})
    \/ Tick

Spec == Init /\ [][Next]_vars

----------------------------------------------------------------------------
(* Every store is one the account can hold: keys of the curve or empty     *)
(* places, and expiries the clock can reach (state/session.rs, Entry).     *)
TypeOK ==
    /\ store \in [Wallets -> Store \cup {NoStore}]
    /\ now \in Times
    /\ signed \subseteq Keys

EntryOf(w, p) == IF store[w] = NoStore THEN NewEntry ELSE EntryFor(store[w], p)

Packed(ring) ==
    \A i, j \in Places : i < j =>
        /\ ring[i] = ZeroKey => ring[j] = ZeroKey
        /\ ring[i] = ring[j] => ring[i] = ZeroKey

(* A ring is always packed oldest first, with no key twice and no gap: a   *)
(* grant into a gap would put a new key before older ones and the next     *)
(* grant would push out the wrong one.                                     *)
RingPacked == \A w \in Wallets, p \in Programs : Packed(EntryOf(w, p).ring)

(* No address a program signs for, and no empty place, ever consents for a *)
(* wallet: the paying program cannot agree to its own payment.             *)
OnlyRealKeysConsent ==
    \A w \in Wallets, p \in Programs, k \in Pdas \cup {ZeroKey} : ~MayConsent(w, k, p)

(* A key comes to consent for a wallet only in a step the wallet signed;   *)
(* time passing only takes consent away.                                   *)
ConsentNeedsOwner ==
    [][\A w \in Wallets, p \in Programs, k \in Keys :
          MayConsent(w, k, p)' /\ ~MayConsent(w, k, p) => w \in signed']_vars

(* A grant reaches one program: a step that lets a key consent for one     *)
(* program lets no key consent for another.                                *)
GrantIsPerProgram ==
    [][\A w \in Wallets, p, q \in Programs, k, l \in Keys :
          (/\ MayConsent(w, k, p)' /\ ~MayConsent(w, k, p)
           /\ MayConsent(w, l, q)' /\ ~MayConsent(w, l, q)) => p = q]_vars

Taken(ring) == {i \in Places : ring[i] # ZeroKey}
Queue(ring) == [i \in 1..Cardinality(Taken(ring)) |-> ring[i]]
Persisted(w, p) == Queue(EntryOf(w, p).ring)
Lent(w, p) == LET e == EntryOf(w, p) IN
                 IF e.temporary = ZeroKey THEN ZeroKey
                 ELSE [key |-> e.temporary, until |-> e.expiresAt]

Promise == INSTANCE SessionPromise WITH
              held <- [w \in Wallets |-> [p \in Programs |-> Persisted(w, p)]],
              lent <- [w \in Wallets |-> [p \in Programs |-> Lent(w, p)]],
              time <- now, Nobody <- ZeroKey, Grantable <- OnCurve

(* The array of zeroable places behaves as the queue a wallet is promised: *)
(* granting, evicting, revoking, dropping and closing included.            *)
KeepsPromise == Promise!Spec

=============================================================================
