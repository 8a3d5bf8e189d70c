------------------------- MODULE AwaitAccountProofs -------------------------
(***************************************************************************)
(* The client's wait for an account keeps its types, unsubscribes on every *)
(* way out and raises no false alarm, for any number of changes of the     *)
(* account.                                                                *)
(*                                                                         *)
(* What the alarm rests on: a subscribed wait is late only after a read    *)
(* that began past the deadline, and such a read that came back empty saw  *)
(* the account not as awaited.                                             *)
(***************************************************************************)
EXTENDS AwaitAccount, TLAPS

(* Nothing is subscribed before the first step, and what was is let go at  *)
(* the last.                                                               *)
Watched ==
    /\ stage = "subscribing" => watch = "none"
    /\ stage = "done" => watch # "open"

(* A wait with a subscription asks no more than twice: it waits in between,*)
(* and reads again past the deadline only.                                 *)
Reads ==
    /\ watch = "open" => stage \notin {"pausing", "asking"}
    /\ stage = "waiting" => watch = "open"
    /\ stage = "rereading" => expired

(* Ready since before the deadline is ready now, and an empty answer past  *)
(* the deadline saw the account, not as awaited.                           *)
Truthful ==
    /\ kept => ready
    /\ stage = "rereading" /\ answer = "not" => ~kept

AwaitInvariant == TypeOK /\ Watched /\ Reads /\ Truthful

(* What the chain, the network and the clock do.                           *)
LEMMA OutsideKeeps ==
    AwaitInvariant /\ (Flip \/ Lose \/ Arrive \/ Cancel \/ Expire) => AwaitInvariant'
<1> SUFFICES ASSUME AwaitInvariant, Flip \/ Lose \/ Arrive \/ Cancel \/ Expire
             PROVE  AwaitInvariant'
  OBVIOUS
<1> USE FlipAssumption DEF AwaitInvariant, TypeOK, Watched, Reads, Truthful, chain
<1>1. CASE Flip
  BY <1>1 DEF Flip
<1>2. CASE Lose
  BY <1>2 DEF Lose
<1>3. CASE Arrive
  BY <1>3 DEF Arrive
<1>4. CASE Cancel
  BY <1>4 DEF Cancel
<1>5. CASE Expire
  BY <1>5 DEF Expire
<1> QED BY <1>1, <1>2, <1>3, <1>4, <1>5

(* What the wait itself does.                                              *)
LEMMA ClientKeeps == AwaitInvariant /\ Client => AwaitInvariant'
<1> SUFFICES ASSUME AwaitInvariant, Client
             PROVE  AwaitInvariant'
  OBVIOUS
<1> USE DEF AwaitInvariant, TypeOK, Watched, Reads, Truthful, chain, Leave
<1>1. CASE Subscribe
  BY <1>1 DEF Subscribe
<1>2. CASE Trigger
  BY <1>2 DEF Trigger
<1>3. CASE Interrupted
  BY <1>3 DEF Interrupted
<1>4. CASE Look
  <2>1. /\ UNCHANGED <<ready, flips, told, kept, watch, hit, stage, expired, cancelled, result>>
        /\ stage \in {"reading", "rereading", "asking"}
        /\ answer' \in {"ready", "not", "failed"}
        /\ answer' = "not" => ~ready
    BY <1>4 DEF Look
  <2>2. kept => ready
    OBVIOUS
  <2> QED BY <2>1, <2>2
<1>5. CASE Answer
  BY <1>5 DEF Answer, Otherwise
<1>6. CASE Wake
  BY <1>6 DEF Wake
<1>7. CASE GiveUp
  BY <1>7 DEF GiveUp
<1>8. CASE Pause
  BY <1>8 DEF Pause
<1>9. CASE Finish
  BY <1>9 DEF Finish, Unwatch
<1> QED BY <1>1, <1>2, <1>3, <1>4, <1>5, <1>6, <1>7, <1>8, <1>9 DEF Client

(* The four together are inductive.                                        *)
LEMMA AwaitStep == AwaitInvariant /\ [Next]_vars => AwaitInvariant'
<1> SUFFICES ASSUME AwaitInvariant, [Next]_vars
             PROVE  AwaitInvariant'
  OBVIOUS
<1>1. CASE UNCHANGED vars
  BY <1>1 DEF vars, AwaitInvariant, TypeOK, Watched, Reads, Truthful
<1> QED BY <1>1, OutsideKeeps, ClientKeeps DEF Next

(* The invariant holds throughout.                                         *)
LEMMA AwaitKeeps == Spec => []AwaitInvariant
<1>1. Init => AwaitInvariant
  <2>1. 0 \in 0..FlipBound
    BY FlipAssumption
  <2> QED BY <2>1 DEF Init, AwaitInvariant, TypeOK, Watched, Reads, Truthful
<1> QED BY <1>1, AwaitStep, PTL DEF Spec

(* A wait has a result once it is on its way out, and no answer to come.   *)
THEOREM AwaitTypes == Spec => []TypeOK
BY AwaitKeeps, PTL DEF AwaitInvariant

(* A wait that returned, was late, failed or was cancelled, at any point,  *)
(* leaves no subscription (VaultSession.kt:331).                           *)
THEOREM AlwaysUnsubscribes == Spec => []Unsubscribed
<1>1. AwaitInvariant => Unsubscribed
  BY DEF AwaitInvariant, Watched, Unsubscribed
<1> QED BY <1>1, AwaitKeeps, PTL

(* A step after which a subscribed wait is late, its last read not having  *)
(* failed: the account has not been as awaited throughout.                 *)
LEMMA LateStep ==
    ASSUME AwaitInvariant, [Next]_vars,
           result # "late", result' = "late", watch = "open", answer # "failed"
    PROVE  ~kept
<1>1. Answer
  BY DEF Next, Client, vars, chain, Flip, Lose, Arrive, Cancel, Expire, Subscribe, Trigger,
         Interrupted, Look, Wake, GiveUp, Pause, Finish, Leave
<1>2. answer = "not" /\ stage \in {"reading", "rereading", "asking"}
  BY <1>1 DEF Answer, Leave, AwaitInvariant, TypeOK
<1>3. stage = "rereading"
  BY <1>1, <1>2 DEF Answer, Otherwise, Leave, AwaitInvariant, Reads
<1> QED BY <1>2, <1>3 DEF AwaitInvariant, Truthful

(* A notification is the fast path, not the truth: whatever notification   *)
(* was lost or late, a subscribed wait is late only for an account that    *)
(* was not as awaited at some time past the deadline                       *)
(* (VaultSession.kt:335-336).                                              *)
THEOREM AlarmsAreTrue == Spec => NoFalseAlarm
<1>1. AwaitInvariant /\ [Next]_vars =>
         (result # "late" /\ result' = "late" /\ watch = "open" /\ answer # "failed" => ~kept)
  BY LateStep
<1> QED BY <1>1, AwaitKeeps, PTL DEF Spec, NoFalseAlarm

=============================================================================
