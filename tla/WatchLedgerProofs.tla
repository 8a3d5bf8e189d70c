-------------------------- MODULE WatchLedgerProofs --------------------------
(***************************************************************************)
(* The client's watch on a ledger keeps its types and closes for good, for *)
(* any number of changes and handovers, with one thread or two, whether or *)
(* not subscriptions may fail to start.                                    *)
(*                                                                         *)
(* Neither is inductive: that one rollup subscription is open at most      *)
(* rests on what the holder of the lock found when it took it, and that    *)
(* none is opened after the close on there being no coroutine left to take *)
(* the lock once the scope is cancelled.                                   *)
(***************************************************************************)
EXTENDS WatchLedger, SequenceTheorems, TLAPS

Told == [away : BOOLEAN, version : Version]
Ending == {"closing", "closed rollup", "closed"}

(* What TypeOK leaves out: the chains, the notifications and the call.     *)
Rest ==
    /\ {away, answer} \subseteq BOOLEAN
    /\ version \in Version
    /\ told \in Seq(Told) /\ words \in Seq(Version)
    /\ on \in [Threads -> BOOLEAN]
    /\ stage \in {"subscribing", "subscribed", "reading", "up"} \cup Ending

(* The node has what the client holds; who has the lock to start found     *)
(* nothing held, who has it to close found something.                      *)
LockKept ==
    /\ open = IF held THEN 1 ELSE 0
    /\ lock = "starting" => ~held
    /\ lock = "closing" => held

(* From the close on no coroutine is waiting, and once the rollup          *)
(* subscription was let go none has the lock and nothing is held.          *)
NobodyLeft ==
    /\ cancelled <=> stage \in Ending
    /\ cancelled => jobs = 0
    /\ stage \in {"closed rollup", "closed"} => lock = "free" /\ ~held

WatchInvariant == TypeOK /\ Rest /\ LockKept /\ NobodyLeft

(* The next contents and the next notification are typed.                  *)
LEMMA NotifyTyped ==
    ASSUME told \in Seq(Told), away' \in BOOLEAN, version' \in Version, Notify
    PROVE  told' \in Seq(Told)
<1>1. [away |-> away', version |-> version'] \in Told
  BY DEF Told
<1>2. \A m \in Told : Append(told, m) \in Seq(Told)
  BY AppendProperties
<1> QED BY <1>1, <1>2 DEF Notify

(* Taking a notification off a queue leaves a queue.                       *)
LEMMA TakeTyped ==
    ASSUME NEW M, NEW q \in Seq(M), q # <<>>
    PROVE  Head(q) \in M /\ Tail(q) \in Seq(M)
BY HeadTailProperties

(* What the chains do leaves the client alone.                             *)
LEMMA EnvironmentKeeps == WatchInvariant /\ Environment => WatchInvariant'
<1> SUFFICES ASSUME WatchInvariant, Environment
             PROVE  WatchInvariant'
  OBVIOUS
<1> USE DEF WatchInvariant
<1>1. /\ UNCHANGED <<delegated, shown, stage, answer, at, on, watchVars>>
      /\ away' \in BOOLEAN
  BY DEF Environment, Handover, Change, Rest
<1>2. version' \in Version
  BY WatchAssumption DEF Environment, Handover, Change, Rest, Version
<1>3. told' \in Seq(Told)
  <2>1. Notify => told' \in Seq(Told)
    BY <1>1, <1>2, NotifyTyped DEF Rest
  <2> QED BY <2>1 DEF Environment, Handover, Change, Rest
<1>4. words' \in Seq(Version)
  <2>1. Append(words, version') \in Seq(Version)
    BY <1>2, AppendProperties DEF Rest
  <2> QED BY <2>1 DEF Environment, Handover, Change, Rest
<1>5. TypeOK' /\ LockKept' /\ NobodyLeft'
  BY <1>1 DEF watchVars, TypeOK, LockKept, NobodyLeft
<1>6. Rest'
  BY <1>1, <1>2, <1>3, <1>4 DEF Rest
<1> QED BY <1>5, <1>6

(* The two halves of `want`: no coroutine is launched in a cancelled scope.*)
LEMMA WantKeeps ==
    ASSUME WatchInvariant, NEW t \in Threads, Ask(t) \/ Set(t)
    PROVE  WatchInvariant'
<1> USE DEF WatchInvariant
<1>1. CASE Ask(t)
  <2>1. UNCHANGED <<chainVars, told, words, delegated, shown, stage, answer, watchVars>>
    BY <1>1 DEF Ask
  <2>2. at' \in [Threads -> {"idle", "asking", "setting"}] /\ on' \in [Threads -> BOOLEAN]
    BY <1>1 DEF Ask, TypeOK, Rest
  <2> QED BY <2>1, <2>2 DEF chainVars, watchVars, TypeOK, Rest, LockKept, NobodyLeft
<1>2. CASE Set(t)
  <2>1. /\ UNCHANGED <<chainVars, told, words, delegated, shown, stage, answer, on>>
        /\ UNCHANGED <<held, lock, cancelled, open>>
    BY <1>2 DEF Set
  <2>2. at' \in [Threads -> {"idle", "asking", "setting"}] /\ wanted' \in BOOLEAN
    BY <1>2 DEF Set, TypeOK, Rest
  <2>3. jobs' \in Nat /\ (cancelled => jobs' = 0)
    <3>1. jobs \in Nat /\ jobs + 1 \in Nat
      BY DEF TypeOK
    <3>2. jobs' = IF cancelled THEN jobs ELSE jobs + 1
      BY <1>2 DEF Set
    <3>3. cancelled => jobs = 0
      BY DEF NobodyLeft
    <3> QED BY <3>1, <3>2, <3>3
  <2> QED BY <2>1, <2>2, <2>3 DEF chainVars, TypeOK, Rest, LockKept, NobodyLeft
<1> QED BY <1>1, <1>2

(* A subscription let go is closed at the node.                            *)
LEMMA Released ==
    ASSUME Rest, LockKept, Release
    PROVE  held' = FALSE /\ open' = 0 /\ words' \in Seq(Version)
<1>1. open' = 0
  <2>1. open = (IF held THEN 1 ELSE 0) /\ open' = IF held THEN open - 1 ELSE open
    BY DEF LockKept, Release
  <2>2. CASE held
    <3>1. open = 1 /\ open' = open - 1
      BY <2>1, <2>2
    <3> QED BY <3>1
  <2>3. CASE ~held
    BY <2>1, <2>3
  <2> QED BY <2>2, <2>3
<1>2. <<>> \in Seq(Version)
  BY EmptySeq
<1> QED BY <1>1, <1>2 DEF Release, Rest

(* What a coroutine does, from taking the lock to giving it back.          *)
LEMMA CoroutineKeeps == WatchInvariant /\ (Begin \/ Started \/ Stopped) => WatchInvariant'
<1> SUFFICES ASSUME WatchInvariant, Begin \/ Started \/ Stopped
             PROVE  WatchInvariant'
  OBVIOUS
<1> USE DEF WatchInvariant
<1>1. CASE Begin
  <2>1. UNCHANGED <<chainVars, told, words, delegated, shown, stage, answer, at, on,
                    wanted, held, cancelled, open>>
    BY <1>1 DEF Begin
  <2>2. ~cancelled /\ jobs' \in Nat
    <3>1. jobs # 0 /\ jobs - 1 \in Nat
      BY <1>1 DEF Begin, TypeOK
    <3>2. cancelled => jobs = 0
      BY DEF NobodyLeft
    <3> QED BY <1>1, <3>1, <3>2 DEF Begin
  <2>3. /\ Todo \in {"free", "starting", "closing"}
        /\ Todo = "starting" => ~held
        /\ Todo = "closing" => held
    BY DEF Todo
  <2>4. lock' = Todo
    BY <1>1 DEF Begin
  <2> QED BY <2>1, <2>2, <2>3, <2>4 DEF chainVars, TypeOK, Rest, LockKept, NobodyLeft
<1>2. CASE Started
  <2>1. UNCHANGED <<chainVars, told, words, delegated, shown, stage, answer, at, on,
                    wanted, jobs, cancelled>>
    BY <1>2 DEF Started
  <2>2. /\ lock = "starting" /\ lock' = "free" /\ ~held /\ open = 0
        /\ (open' = 1 /\ held' = TRUE) \/ (open' = open /\ held' = held)
    <3>1. lock = "starting" /\ ~held /\ open = 0
      BY <1>2 DEF Started, LockKept
    <3>2. open + 1 = 1
      BY <3>1
    <3> QED BY <1>2, <3>1, <3>2 DEF Started
  <2>3. stage \notin {"closed rollup", "closed"}
    BY <2>2 DEF NobodyLeft
  <2>4. open' \in {0, 1} /\ held' \in BOOLEAN /\ LockKept'
    <3>1. (open' = 1 /\ held' = TRUE) \/ (open' = 0 /\ held' = FALSE)
      BY <2>2 DEF TypeOK
    <3>2. lock' = "free"
      BY <2>2
    <3> QED BY <3>1, <3>2 DEF LockKept
  <2>5. TypeOK' /\ Rest'
    BY <2>1, <2>2, <2>4 DEF chainVars, TypeOK, Rest
  <2>6. NobodyLeft'
    BY <2>1, <2>3 DEF NobodyLeft
  <2> QED BY <2>4, <2>5, <2>6
<1>3. CASE Stopped
  <2>1. UNCHANGED <<chainVars, told, delegated, shown, stage, answer, at, on,
                    wanted, jobs, cancelled>>
    BY <1>3 DEF Stopped
  <2>2. lock' = "free" /\ held' = FALSE /\ open' = 0 /\ words' \in Seq(Version)
    BY <1>3, Released DEF Stopped
  <2> QED BY <2>1, <2>2 DEF chainVars, TypeOK, Rest, LockKept, NobodyLeft
<1> QED BY <1>1, <1>2, <1>3

(* The watch's own call, and the notifications it hears.                   *)
LEMMA CallKeeps ==
    WatchInvariant /\ (Subscribe \/ Read \/ Answer \/ Hear \/ HearRollup) => WatchInvariant'
<1> SUFFICES ASSUME WatchInvariant, Subscribe \/ Read \/ Answer \/ Hear \/ HearRollup
             PROVE  WatchInvariant'
  OBVIOUS
<1> USE DEF WatchInvariant
<1>1. UNCHANGED <<chainVars, on, watchVars>>
  BY DEF Subscribe, Read, Answer, Hear, HearRollup
<1>2. /\ stage' \in {"subscribing", "subscribed", "reading", "up"} \cup Ending
      /\ stage' \in Ending <=> stage \in Ending
      /\ stage' \in {"closed rollup", "closed"} => stage \in {"closed rollup", "closed"}
  BY DEF Subscribe, Read, Answer, Hear, HearRollup, Rest, Ending
<1>3. answer' \in BOOLEAN
  BY DEF Subscribe, Read, Answer, Hear, HearRollup, Rest
<1>4. at' \in [Threads -> {"idle", "asking", "setting"}]
  BY DEF Subscribe, Read, Answer, Hear, HearRollup, TypeOK
<1>5. /\ told' \in Seq(Told) /\ words' \in Seq(Version)
      /\ delegated' \in BOOLEAN /\ shown' \in Version \cup {NotYet}
  <2>1. told # <<>> => /\ Head(told).away \in BOOLEAN /\ Head(told).version \in Version
                       /\ Tail(told) \in Seq(Told)
    <3>1. told # <<>> => Head(told) \in Told /\ Tail(told) \in Seq(Told)
      BY TakeTyped DEF Rest
    <3> QED BY <3>1 DEF Told
  <2>2. words # <<>> => Head(words) \in Version /\ Tail(words) \in Seq(Version)
    BY TakeTyped DEF Rest
  <2> QED BY <2>1, <2>2 DEF Subscribe, Read, Answer, Hear, HearRollup, Rest, TypeOK
<1> QED BY <1>1, <1>2, <1>3, <1>4, <1>5
        DEF chainVars, watchVars, TypeOK, Rest, LockKept, NobodyLeft

(* Closing: nobody is left to take the lock, then nothing is held.         *)
LEMMA CloseKeeps == WatchInvariant /\ (Close \/ CloseRollup \/ CloseBase) => WatchInvariant'
<1> SUFFICES ASSUME WatchInvariant, Close \/ CloseRollup \/ CloseBase
             PROVE  WatchInvariant'
  OBVIOUS
<1> USE DEF WatchInvariant
<1>1. CASE Close
  <2>1. /\ UNCHANGED <<chainVars, told, words, delegated, shown, answer, at, on>>
        /\ UNCHANGED <<held, lock, open>>
    BY <1>1 DEF Close
  <2>2. stage' = "closing" /\ cancelled' = TRUE /\ jobs' = 0 /\ wanted' = FALSE
    BY <1>1 DEF Close, Cancel
  <2> QED BY <2>1, <2>2 DEF chainVars, TypeOK, Rest, LockKept, NobodyLeft, Ending
<1>2. CASE CloseRollup
  <2>1. UNCHANGED <<chainVars, told, delegated, shown, answer, at, on,
                    wanted, jobs, lock, cancelled>>
    BY <1>2 DEF CloseRollup
  <2>2. /\ stage = "closing" /\ stage' = "closed rollup" /\ lock = "free"
        /\ held' = FALSE /\ open' = 0
    BY <1>2, Released DEF CloseRollup
  <2>3. words' \in Seq(Version)
    BY <1>2, Released DEF CloseRollup
  <2> QED BY <2>1, <2>2, <2>3 DEF chainVars, TypeOK, Rest, LockKept, NobodyLeft, Ending
<1>3. CASE CloseBase
  <2>1. UNCHANGED <<chainVars, words, delegated, shown, answer, at, on, watchVars>>
    BY <1>3 DEF CloseBase
  <2>2. stage = "closed rollup" /\ stage' = "closed" /\ told' = <<>>
    BY <1>3 DEF CloseBase
  <2>3. told' \in Seq(Told)
    BY <2>2, EmptySeq
  <2> QED BY <2>1, <2>2, <2>3
          DEF chainVars, watchVars, TypeOK, Rest, LockKept, NobodyLeft, Ending
<1> QED BY <1>1, <1>2, <1>3

(* The four together are inductive.                                        *)
LEMMA WatchKeeps == Spec => []WatchInvariant
<1>1. Init => WatchInvariant
  <2> SUFFICES ASSUME Init
               PROVE  WatchInvariant
    OBVIOUS
  <2>1. 0 \in Version
    BY WatchAssumption DEF Version
  <2>2. told \in Seq(Told) /\ words \in Seq(Version)
    BY DEF Init
  <2> QED BY <2>1, <2>2
          DEF Init, WatchInvariant, TypeOK, Rest, LockKept, NobodyLeft, Ending
<1>2. WatchInvariant /\ [Next]_vars => WatchInvariant'
  <2> SUFFICES ASSUME WatchInvariant, [Next]_vars
               PROVE  WatchInvariant'
    OBVIOUS
  <2>1. CASE UNCHANGED vars
    BY <2>1 DEF vars, chainVars, watchVars, WatchInvariant, TypeOK, Rest, LockKept, NobodyLeft
  <2> QED BY <2>1, EnvironmentKeeps, WantKeeps, CoroutineKeeps, CallKeeps, CloseKeeps
          DEF Next, Client
<1> QED BY <1>1, <1>2, PTL DEF Spec

(* No burst of notifications, from either thread, leaves two rollup        *)
(* subscriptions open (VaultSession.kt:394-396).                           *)
THEOREM OneSubscription == Spec => []TypeOK
BY WatchKeeps, PTL DEF WatchInvariant

(* A closed watch has no rollup subscription, and no coroutine that could  *)
(* open one, whatever was under way when it was closed                     *)
(* (VaultSession.kt:140-146, 407-441).                                     *)
THEOREM StaysClosed == Spec => []ClosedForGood
<1>1. WatchInvariant => ClosedForGood
  BY DEF WatchInvariant, TypeOK, LockKept, NobodyLeft, ClosedForGood, Ending
<1> QED BY <1>1, WatchKeeps, PTL

=============================================================================
