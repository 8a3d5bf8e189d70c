----------------------------- MODULE WatchLedger -----------------------------
(***************************************************************************)
(* The client's watch on one ledger (VaultSession.watchLedger and          *)
(* SwappableWatch): a basenet subscription that stays up and says where    *)
(* the ledger lives, and a rollup subscription swapped in beneath it, each *)
(* change of mind handed to a coroutine.  The call that starts the watch   *)
(* and the callback of the basenet subscription run beside each other, and *)
(* may be interleaved between any two of their statements.                 *)
(***************************************************************************)
EXTENDS Naturals, Sequences

CONSTANTS
    NotYet,            \* nothing has been published
    VersionBound,      \* bound on the changes of the ledger's contents
    HandoverBound,     \* bound on its handovers between the chains
    MovesEarly,        \* whether it may change hands while the watch starts
    Threaded,          \* whether the call and the callback may run at once
    StartsFail         \* whether a rollup subscription may fail to start

ASSUME WatchAssumption ==
    /\ VersionBound \in Nat /\ HandoverBound \in Nat
    /\ NotYet \notin Nat
    /\ MovesEarly \in BOOLEAN /\ Threaded \in BOOLEAN /\ StartsFail \in BOOLEAN

Version == 0..VersionBound

(* The two threads that ask SwappableWatch for a rollup subscription.      *)
Threads == {"caller", "notifier"}

VARIABLES
    away,       \* the chain: the ledger is delegated
    version,    \* its contents
    handovers,  \* how often it has changed hands
    told,       \* basenet notifications on their way
    words,      \* rollup notifications on their way
    delegated,  \* the client: where it believes the ledger lives
    shown,      \* the contents last published
    stage,      \* how far the watch's own call has got
    answer,     \* what the first read saw
    at,         \* how far each thread is within `want`
    on,         \* what it asks for
    wanted,     \* SwappableWatch: a rollup subscription is wanted
    held,       \* ... and held
    jobs,       \* coroutines launched that do not have the lock yet
    lock,       \* what the holder of the lock is doing
    cancelled,  \* the coroutines' scope is cancelled
    open        \* rollup subscriptions open at the node

chainVars == <<away, version, handovers>>
watchVars == <<wanted, held, jobs, lock, cancelled, open>>
vars == <<chainVars, told, words, delegated, shown, stage, answer, at, on, watchVars>>

Init ==
    /\ away \in BOOLEAN
    /\ version = 0 /\ handovers = 0
    /\ told = <<>> /\ words = <<>>
    /\ delegated = FALSE
    /\ shown = NotYet
    /\ stage = "subscribing"
    /\ answer = FALSE
    /\ at = [t \in Threads |-> "idle"]
    /\ on = [t \in Threads |-> FALSE]
    /\ wanted = FALSE /\ held = FALSE
    /\ jobs = 0 /\ lock = "free" /\ cancelled = FALSE
    /\ open = 0

----------------------------------------------------------------------------
(* The chains.                                                             *)

Subscribed == stage \notin {"subscribing", "closed"}

(* From the basenet subscription to the end of the call's own `want`.      *)
Starting == stage \in {"subscribed", "reading"} \/ at["caller"] # "idle"

(* What basenet says of the ledger now, to who subscribed.                 *)
Notify == told' = IF Subscribed THEN Append(told, [away |-> away', version |-> version']) ELSE told

(* A deposit hands the ledger to the rollup, a withdrawal brings it home.  *)
Handover ==
    /\ handovers < HandoverBound
    /\ Starting => MovesEarly
    /\ away' = ~away
    /\ handovers' = handovers + 1
    /\ UNCHANGED version
    /\ Notify
    /\ UNCHANGED <<words, delegated, shown, stage, answer, at, on, watchVars>>

(* The live copy changes, and its chain says so.                           *)
Change ==
    /\ version < VersionBound
    /\ version' = version + 1
    /\ UNCHANGED <<away, handovers>>
    /\ IF away
       THEN /\ words' = IF open > 0 THEN Append(words, version') ELSE words
            /\ UNCHANGED told
       ELSE Notify /\ UNCHANGED words
    /\ UNCHANGED <<delegated, shown, stage, answer, at, on, watchVars>>

----------------------------------------------------------------------------
(* SwappableWatch.                                                         *)

(* `t` may run: it is between two calls of `want`, the other too unless    *)
(* they have threads of their own.                                         *)
Free(t) == at[t] = "idle" /\ (~Threaded => \A u \in Threads : at[u] = "idle")

(* The first half of `want`: nothing to do if that is wanted already.      *)
Ask(t) ==
    /\ at[t] = "asking"
    /\ on' = [on EXCEPT ![t] = delegated]
    /\ at' = [at EXCEPT ![t] = IF delegated = wanted THEN "idle" ELSE "setting"]
    /\ UNCHANGED <<chainVars, told, words, delegated, shown, stage, answer, watchVars>>

(* The second: a coroutine is launched, unless the scope is cancelled.     *)
Set(t) ==
    /\ at[t] = "setting"
    /\ wanted' = on[t]
    /\ jobs' = IF cancelled THEN jobs ELSE jobs + 1
    /\ at' = [at EXCEPT ![t] = "idle"]
    /\ UNCHANGED <<chainVars, told, words, delegated, shown, stage, answer, on,
                   held, lock, cancelled, open>>

\* Mutation of Todo: a subscription is started whatever is held.
TodoRegardless ==
    CASE wanted -> "starting"
      [] ~wanted /\ held -> "closing"
      [] OTHER -> "free"

(* What a coroutine does with the lock is decided once it has it.          *)
Todo ==
    CASE wanted /\ ~held -> "starting"
      [] ~wanted /\ held -> "closing"
      [] OTHER -> "free"

\* Mutation of Begin: a coroutine that finds the lock taken gives up.
BeginOrGiveUp ==
    /\ jobs > 0
    /\ jobs' = jobs - 1
    /\ lock' = IF lock = "free" THEN Todo ELSE lock
    /\ UNCHANGED <<chainVars, told, words, delegated, shown, stage, answer, at, on,
                   wanted, held, cancelled, open>>

Begin ==
    /\ jobs > 0 /\ lock = "free"
    /\ jobs' = jobs - 1
    /\ lock' = Todo
    /\ UNCHANGED <<chainVars, told, words, delegated, shown, stage, answer, at, on,
                   wanted, held, cancelled, open>>

(* A start may fail, and is not tried again before the ledger moves; one   *)
(* under way when the scope is cancelled may be cut short.                 *)
Started ==
    /\ lock = "starting"
    /\ lock' = "free"
    /\ \/ open' = open + 1 /\ held' = TRUE
       \/ (cancelled \/ StartsFail) /\ UNCHANGED <<open, held>>
    /\ UNCHANGED <<chainVars, told, words, delegated, shown, stage, answer, at, on,
                   wanted, jobs, cancelled>>

(* What was on its way on a closed subscription is lost.                   *)
Release ==
    /\ open' = IF held THEN open - 1 ELSE open
    /\ words' = IF open' = 0 THEN <<>> ELSE words
    /\ held' = FALSE

Stopped ==
    /\ lock = "closing"
    /\ lock' = "free"
    /\ Release
    /\ UNCHANGED <<chainVars, told, delegated, shown, stage, answer, at, on,
                   wanted, jobs, cancelled>>

----------------------------------------------------------------------------
(* watchLedger.                                                            *)

Subscribe ==
    /\ stage = "subscribing"
    /\ stage' = "subscribed"
    /\ UNCHANGED <<chainVars, told, words, delegated, shown, answer, at, on, watchVars>>

(* isDelegated: basenet answers with what it holds now ...                 *)
Read ==
    /\ stage = "subscribed"
    /\ stage' = "reading"
    /\ answer' = away
    /\ UNCHANGED <<chainVars, told, words, delegated, shown, at, on, watchVars>>

(* ... and the answer is taken whenever it arrives.                        *)
Answer ==
    /\ stage = "reading" /\ Free("caller")
    /\ stage' = "up"
    /\ delegated' = answer
    /\ at' = [at EXCEPT !["caller"] = "asking"]
    /\ UNCHANGED <<chainVars, told, words, shown, answer, on, watchVars>>

(* A basenet notification: where the ledger lives, and its contents if it  *)
(* is home.                                                                *)
Hear ==
    /\ told # <<>> /\ Subscribed /\ Free("notifier")
    /\ told' = Tail(told)
    /\ delegated' = Head(told).away
    /\ shown' = IF Head(told).away THEN shown ELSE Head(told).version
    /\ at' = [at EXCEPT !["notifier"] = "asking"]
    /\ UNCHANGED <<chainVars, words, stage, answer, on, watchVars>>

\* Mutation of Counts: the rollup's last word is published as well.
CountsAlways == TRUE

(* Where the ledger lives decides whose updates count.                     *)
Counts == delegated

HearRollup ==
    /\ words # <<>>
    /\ words' = Tail(words)
    /\ shown' = IF Counts THEN Head(words) ELSE shown
    /\ UNCHANGED <<chainVars, told, delegated, stage, answer, at, on, watchVars>>

----------------------------------------------------------------------------
(* Closing, once the watch was handed out: the scope is cancelled, then    *)
(* the rollup subscription goes, then basenet's.                           *)

\* Mutation of Cancel: the coroutines are left to finish.
CancelNothing == UNCHANGED <<cancelled, jobs>>

(* Coroutines that have not begun never will.                              *)
Cancel == cancelled' = TRUE /\ jobs' = 0

Close ==
    /\ stage = "up" /\ at["caller"] = "idle"
    /\ stage' = "closing"
    /\ Cancel
    /\ wanted' = FALSE
    /\ UNCHANGED <<chainVars, told, words, delegated, shown, answer, at, on, held, lock, open>>

CloseRollup ==
    /\ stage = "closing" /\ lock = "free"
    /\ stage' = "closed rollup"
    /\ Release
    /\ UNCHANGED <<chainVars, told, delegated, shown, answer, at, on,
                   wanted, jobs, lock, cancelled>>

CloseBase ==
    /\ stage = "closed rollup"
    /\ stage' = "closed"
    /\ told' = <<>>
    /\ UNCHANGED <<chainVars, words, delegated, shown, answer, at, on, watchVars>>

----------------------------------------------------------------------------
Environment == Handover \/ Change

Client ==
    \/ Subscribe \/ Read \/ Answer \/ Hear \/ HearRollup
    \/ \E t \in Threads : Ask(t) \/ Set(t)
    \/ Begin \/ Started \/ Stopped
    \/ CloseRollup \/ CloseBase

Next == Environment \/ Client \/ Close

(* Every call returns, every notification arrives and every coroutine is   *)
(* scheduled; nobody has to move the ledger or to close the watch.         *)
Fairness ==
    /\ WF_vars(Subscribe) /\ WF_vars(Read) /\ WF_vars(Answer)
    /\ WF_vars(Hear) /\ WF_vars(HearRollup)
    /\ \A t \in Threads : WF_vars(Ask(t)) /\ WF_vars(Set(t))
    /\ WF_vars(Begin) /\ WF_vars(Started) /\ WF_vars(Stopped)
    /\ WF_vars(CloseRollup) /\ WF_vars(CloseBase)

Spec == Init /\ [][Next]_vars /\ Fairness

----------------------------------------------------------------------------
(* The client's variables keep their types, and its counters what they     *)
(* count: no burst of updates leaves two rollup subscriptions open         *)
(* (VaultSession.kt:394-396).                                              *)
TypeOK ==
    /\ {delegated, wanted, held, cancelled} \subseteq BOOLEAN
    /\ shown \in Version \cup {NotYet}
    /\ at \in [Threads -> {"idle", "asking", "setting"}]
    /\ lock \in {"free", "starting", "closing"}
    /\ jobs \in Nat
    /\ open \in {0, 1}

(* A watch that was closed stays closed, whatever arrived while it was     *)
(* closing: no rollup subscription is open and none is being opened.       *)
ClosedForGood == stage = "closed" => open = 0 /\ jobs = 0 /\ lock = "free"

(* Once the ledger stops changing hands, the rollup is watched if the      *)
(* ledger lives there, and not otherwise: the watch is on whichever chain  *)
(* holds the live copy (VaultSession.kt:108).                              *)
FollowsLedger == <>[](stage = "up" => (open = 1 <=> away) /\ (delegated <=> away))

(* Once the ledger is home for good, what was published last, if anything  *)
(* was, is what it holds: the rollup's last word never stays on display    *)
(* (VaultSession.kt:119-121).                                              *)
HomeBalanceShown == <>[](stage = "up" /\ ~away => shown \in {NotYet, version})

=============================================================================
