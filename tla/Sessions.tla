------------------------------ MODULE Sessions ------------------------------
(***************************************************************************)
(* The session store of each wallet (state/session.rs) and the two         *)
(* handlers that edit it (instructions/session.rs).  A store holds one     *)
(* entry per program: a temporary key with the second it dies at, and a    *)
(* ring of persisted keys, oldest first, a zero key being an empty place.  *)
(*                                                                         *)
(* EnsureStore and CloseStore are the part of deposit, open_wallet_ledger  *)
(* and close_ledger that touches the store.                                *)
(***************************************************************************)
EXTENDS Addresses

CONSTANTS
    Ring,       \* RING, the persisted keys an entry holds
    NoStore,    \* the empty account at a store's address
    TimeBound   \* bound on the clock and on the expiries granted

ASSUME SessionsAssumption ==
    /\ Ring \in Nat \ {0}
    /\ TimeBound \in Nat

VARIABLES
    store,   \* store[w]: NoStore, or the entries by program
    now,     \* the chain's unix time
    signed   \* history: the keys that signed the last instruction

sessionVars == <<store, now>>

Places == 1..Ring
KeyOrZero == OnCurve \cup {ZeroKey}
Times == 0..TimeBound

SessionEntry == [temporary : KeyOrZero, expiresAt : Times, ring : [Places -> KeyOrZero]]
Store == UNION {[D -> SessionEntry] : D \in SUBSET Programs}

ASSUME StoreAssumption == NoStore \notin Store

NewEntry == [temporary |-> ZeroKey, expiresAt |-> 0, ring |-> [i \in Places |-> ZeroKey]]
EmptyStore == [p \in {} |-> NewEntry]

Held(e) == {e.ring[i] : i \in Places}

FirstPlace(S) == CHOOSE i \in S : \A j \in S : i <= j

----------------------------------------------------------------------------
(* The entry's operations.                                                 *)

(* A key already held stays where it is; a new one takes the first free    *)
(* place, or the oldest one's, the rest moving up.                         *)
Grant(e, k) ==
    IF k \in Held(e) THEN e
    ELSE IF ZeroKey \in Held(e)
         THEN [e EXCEPT !.ring[FirstPlace({i \in Places : e.ring[i] = ZeroKey})] = k]
         ELSE [e EXCEPT !.ring = [i \in Places |-> IF i = Ring THEN k ELSE e.ring[i + 1]]]

GrantTemporary(e, k, t) == [e EXCEPT !.temporary = k, !.expiresAt = t]

\* Mutation of Revoke: the place of the revoked key is zeroed, not closed up.
RevokeLeavesGap(e, k) ==
    [temporary |-> IF e.temporary = k THEN ZeroKey ELSE e.temporary,
     expiresAt |-> IF e.temporary = k THEN 0 ELSE e.expiresAt,
     ring |-> [i \in Places |-> IF e.ring[i] = k THEN ZeroKey ELSE e.ring[i]]]

\* Mutation of Revoke: a key held both ways is only forgotten as temporary.
RevokeTemporaryOnly(e, k) ==
    IF e.temporary = k THEN [e EXCEPT !.temporary = ZeroKey, !.expiresAt = 0]
    ELSE RevokeLeavesGap(e, k)

(* Forgets a key wherever it sits, the ring closing up behind it.          *)
KeptPlaces(ring, k) == {i \in Places : ring[i] \notin {k, ZeroKey}}
IthOf(S, i) == {j \in S : Cardinality({x \in S : x <= j}) = i}
Revoke(e, k) ==
    [temporary |-> IF e.temporary = k THEN ZeroKey ELSE e.temporary,
     expiresAt |-> IF e.temporary = k THEN 0 ELSE e.expiresAt,
     ring |-> [i \in Places |->
                  LET from == IthOf(KeptPlaces(e.ring, k), i)
                  IN  IF from = {} THEN ZeroKey ELSE e.ring[CHOOSE j \in from : TRUE]]]

\* Mutation of EntryAllows: the expiry is compared the wrong way round.
EntryAllowsOnceDead(e, k, t) == (e.temporary = k /\ e.expiresAt <= t) \/ k \in Held(e)

EntryAllows(e, k, t) == (e.temporary = k /\ t < e.expiresAt) \/ k \in Held(e)

----------------------------------------------------------------------------
(* The store's operations.                                                 *)

Authorised(s, p) == p \in DOMAIN s
EntryFor(s, p) == IF Authorised(s, p) THEN s[p] ELSE NewEntry
WithEntry(s, p, e) == [q \in DOMAIN s \cup {p} |-> IF q = p THEN e ELSE s[q]]
DropEntry(s, p) == [q \in DOMAIN s \ {p} |-> s[q]]

\* Mutation of Allows: the key is looked for in every program's entry.
AllowsAnyProgram(s, k, p, t) ==
    k # ZeroKey /\ \E q \in DOMAIN s : EntryAllows(s[q], k, t)

(* Whether `k` may consent for `p` at time `t`.                            *)
Allows(s, k, p, t) ==
    k # ZeroKey /\ Authorised(s, p) /\ EntryAllows(s[p], k, t)

(* The owner itself, or a key its store holds for that program.  A wallet  *)
(* that has no store has no session keys.                                  *)
MayConsent(w, k, p) ==
    \/ k = w
    \/ store[w] # NoStore /\ Allows(store[w], k, p, now)

----------------------------------------------------------------------------
(* The handlers, each one transaction signed by the keys in S.             *)

EnsureStore(w) ==
    store' = [store EXCEPT ![w] = IF @ = NoStore THEN EmptyStore ELSE @]

CloseStore(w) == store' = [store EXCEPT ![w] = NoStore]

\* Mutation of RealKey: off-curve and zero keys are let through.
AnyKey(k) == TRUE

RealKey(k) == k # ZeroKey /\ ~IsPda(k)

(* authorize_session: t = 0 persists the key, any other value is when it   *)
(* dies, which must not have passed.  Creates the store of a wallet that   *)
(* has none.                                                               *)
AuthorizeSession(w, p, k, t, S) ==
    /\ w \in S
    /\ RealKey(k)
    /\ ~IsPda(w)
    /\ t = 0 \/ t > now
    /\ LET s == IF store[w] = NoStore THEN EmptyStore ELSE store[w]
           e == EntryFor(s, p)
       IN  store' = [store EXCEPT ![w] =
                        WithEntry(s, p, IF t = 0 THEN Grant(e, k) ELSE GrantTemporary(e, k, t))]
    /\ signed' = S
    /\ UNCHANGED now

(* revoke_session: the zero key drops the program's entry whole.           *)
RevokeSession(w, p, k, S) ==
    /\ w \in S
    /\ store[w] # NoStore
    /\ store' = [store EXCEPT ![w] =
                    IF k = ZeroKey THEN DropEntry(@, p)
                    ELSE IF Authorised(@, p) THEN WithEntry(@, p, Revoke(@[p], k))
                    ELSE @]
    /\ signed' = S
    /\ UNCHANGED now

Tick ==
    /\ now < TimeBound
    /\ now' = now + 1
    /\ signed' = {}
    /\ UNCHANGED store

=============================================================================
