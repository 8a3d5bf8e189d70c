---------------------------- MODULE AwaitAccount ----------------------------
(***************************************************************************)
(* The client's wait for an account to change (VaultSession.awaitAccount,  *)
(* askUntil and readUpdate): subscribe, fire the trigger, read once, wait  *)
(* for a notification until the deadline, read once more; or, where there  *)
(* is no subscription, ask again and again until the deadline.             *)
(*                                                                         *)
(* Notifications may be late or lost, a read may fail and its answer takes *)
(* a while, the account may change back, the trigger may fail and the      *)
(* caller may be cancelled at any time.  A cancelled coroutine is stopped  *)
(* where it next suspends, but a read or a subscription that is cut short  *)
(* so counts as failed and the wait goes on to its next suspension.        *)
(***************************************************************************)
EXTENDS Naturals

CONSTANT FlipBound   \* bound on the changes of the account

ASSUME FlipAssumption == FlipBound \in Nat

VARIABLES
    ready,      \* the account: it is as awaited
    flips,      \* how often it has changed
    watch,      \* the subscription: "none", "open" or "closed"
    told,       \* a notification of the awaited state is on its way
    hit,        \* such a notification arrived
    stage,      \* where the wait has got to
    answer,     \* of the read under way: "none", "ready", "not", "failed"
    expired,    \* the deadline has passed
    cancelled,  \* the caller was cancelled
    result,     \* "none", "hit", "late", "failed" or "cancelled"
    kept        \* history: ready since before the deadline passed

chain == <<ready, flips, told, kept>>
vars == <<ready, flips, watch, told, hit, stage, answer, expired, cancelled, result, kept>>

Init ==
    /\ ready \in BOOLEAN
    /\ flips = 0
    /\ watch = "none"
    /\ told = FALSE /\ hit = FALSE
    /\ stage = "subscribing"
    /\ answer = "none"
    /\ expired = FALSE /\ cancelled = FALSE
    /\ result = "none"
    /\ kept = FALSE

----------------------------------------------------------------------------
(* The chain and the network.                                              *)

Flip ==
    /\ flips < FlipBound
    /\ flips' = flips + 1
    /\ ready' = ~ready
    /\ told' = (told \/ (watch = "open" /\ ready'))
    /\ kept' = (kept /\ ready')
    /\ UNCHANGED <<watch, hit, stage, answer, expired, cancelled, result>>

Lose ==
    /\ told
    /\ told' = FALSE
    /\ UNCHANGED <<ready, flips, kept, watch, hit, stage, answer, expired, cancelled, result>>

(* hit.complete, from whichever thread notifies.                           *)
Arrive ==
    /\ told /\ watch = "open"
    /\ told' = FALSE
    /\ hit' = TRUE
    /\ UNCHANGED <<ready, flips, kept, watch, stage, answer, expired, cancelled, result>>

Cancel ==
    /\ stage # "done" /\ ~cancelled
    /\ cancelled' = TRUE
    /\ UNCHANGED <<chain, watch, hit, stage, answer, expired, result>>

----------------------------------------------------------------------------
(* awaitAccount.                                                           *)

Leave(r) == stage' = "leaving" /\ result' = r

\* Mutation of Interrupted: a read is cut short like any other call.
InterruptedAnywhere ==
    /\ cancelled
    /\ stage \in {"triggering", "reading", "waiting", "pausing"}
    /\ Leave("cancelled")
    /\ UNCHANGED <<chain, watch, hit, answer, expired, cancelled>>

(* A suspension of a cancelled coroutine throws.                           *)
Interrupted ==
    /\ cancelled
    /\ stage \in {"triggering", "waiting", "pausing"}
    /\ Leave("cancelled")
    /\ UNCHANGED <<chain, watch, hit, answer, expired, cancelled>>

(* A platform without subscriptions, a failure or a cancellation: none.    *)
Subscribe ==
    /\ stage = "subscribing"
    /\ stage' = "triggering"
    /\ \/ ~cancelled /\ watch' = "open"
       \/ watch' = "none"
    /\ UNCHANGED <<chain, hit, answer, expired, cancelled, result>>

Trigger ==
    /\ stage = "triggering" /\ ~cancelled
    /\ \/ stage' = "reading" /\ UNCHANGED result
       \/ Leave("failed")
    /\ UNCHANGED <<chain, watch, hit, answer, expired, cancelled>>

(* readUpdate: the node looks, and its answer travels; a failure is a null.*)
Look ==
    /\ stage \in {"reading", "rereading", "asking"}
    /\ answer = "none"
    /\ \/ ~cancelled /\ answer' = (IF ready THEN "ready" ELSE "not")
       \/ answer' = "failed"
    /\ UNCHANGED <<chain, watch, hit, stage, expired, cancelled, result>>

\* Mutation of Otherwise: asking does not mind the deadline.
OtherwiseAgain ==
    CASE stage = "rereading" -> Leave("late")
      [] stage = "reading" /\ watch = "open" -> stage' = "waiting" /\ UNCHANGED result
      [] OTHER -> stage' = "pausing" /\ UNCHANGED result

(* What follows a read that did not find what is awaited.                  *)
Otherwise ==
    CASE stage = "rereading" -> Leave("late")
      [] stage = "reading" /\ watch = "open" -> stage' = "waiting" /\ UNCHANGED result
      [] OTHER -> IF expired THEN Leave("late") ELSE stage' = "pausing" /\ UNCHANGED result

Answer ==
    /\ answer # "none"
    /\ answer' = "none"
    /\ IF answer = "ready" THEN Leave("hit") ELSE Otherwise
    /\ UNCHANGED <<chain, watch, hit, expired, cancelled>>

Wake ==
    /\ stage = "waiting" /\ hit
    /\ Leave("hit")
    /\ UNCHANGED <<chain, watch, hit, answer, expired, cancelled>>

(* The deadline runs from the wait's own start, or from the first asking.  *)
Expire ==
    /\ ~expired
    /\ stage \in {"waiting", "pausing", "asking"}
    /\ expired' = TRUE
    /\ kept' = ready
    /\ UNCHANGED <<ready, flips, told, watch, hit, stage, answer, cancelled, result>>

\* Mutation of GiveUp: the deadline is taken for the truth.
GiveUpAtOnce ==
    /\ stage = "waiting" /\ expired
    /\ Leave("late")
    /\ UNCHANGED <<chain, watch, hit, answer, expired, cancelled>>

(* withTimeoutOrNull ran out: read once more.                              *)
GiveUp ==
    /\ stage = "waiting" /\ expired
    /\ stage' = "rereading"
    /\ UNCHANGED <<chain, watch, hit, answer, expired, cancelled, result>>

(* askUntil's delay is over.                                               *)
Pause ==
    /\ stage = "pausing" /\ ~cancelled
    /\ stage' = "asking"
    /\ UNCHANGED <<chain, watch, hit, answer, expired, cancelled, result>>

\* Mutation of Unwatch: a cancelled caller does not get to unsubscribe.
UnwatchUnlessCancelled ==
    watch' = IF watch = "open" /\ ~cancelled THEN "closed" ELSE watch

(* finally, NonCancellable.                                                *)
Unwatch == watch' = IF watch = "open" THEN "closed" ELSE watch

Finish ==
    /\ stage = "leaving"
    /\ stage' = "done"
    /\ Unwatch
    /\ told' = FALSE
    /\ UNCHANGED <<ready, flips, kept, hit, answer, expired, cancelled, result>>

----------------------------------------------------------------------------
Client ==
    \/ Subscribe \/ Trigger \/ Interrupted \/ Look \/ Answer
    \/ Wake \/ GiveUp \/ Pause \/ Finish

Next == Flip \/ Lose \/ Arrive \/ Cancel \/ Expire \/ Client

(* Calls of the node return, delays and deadlines pass.                    *)
Fairness == WF_vars(Client) /\ WF_vars(Expire)

Spec == Init /\ [][Next]_vars /\ Fairness

----------------------------------------------------------------------------
(* The wait's variables keep their types; a wait has a result once it is   *)
(* on its way out, and never with an answer still to come.                 *)
TypeOK ==
    /\ {ready, told, hit, expired, cancelled, kept} \subseteq BOOLEAN
    /\ flips \in 0..FlipBound
    /\ watch \in {"none", "open", "closed"}
    /\ answer \in {"none", "ready", "not", "failed"}
    /\ stage \in {"subscribing", "triggering", "reading", "waiting", "rereading",
                  "pausing", "asking", "leaving", "done"}
    /\ result \in IF stage \in {"leaving", "done"}
                  THEN {"hit", "late", "failed", "cancelled"} ELSE {"none"}
    /\ answer # "none" => stage \in {"reading", "rereading", "asking"}

(* VaultSession.kt:335-336, "a notification is the fast path, not the      *)
(* truth": whatever notification was lost or late, a subscribed wait that  *)
(* reports lateness, its last read not having failed, does so for an       *)
(* account that was not as awaited at some time after the deadline.  (A    *)
(* wait that only asks has no such read: an answer on its way when the     *)
(* deadline passes may be the last.)                                       *)
NoFalseAlarm ==
    [][result # "late" /\ result' = "late" /\ watch = "open" /\ answer # "failed"
          => ~kept]_vars

(* VaultSession.kt:331, "always unsubscribes on the way out": returned,    *)
(* late, failed or cancelled at any point, a wait leaves no subscription.  *)
Unsubscribed == stage = "done" => watch # "open"

(* Every wait ends, whatever is lost and however often reads fail.         *)
WaitEnds == <>(stage = "done")

=============================================================================
