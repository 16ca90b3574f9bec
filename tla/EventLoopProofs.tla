-------------------------- MODULE EventLoopProofs --------------------------
(***************************************************************************)
(* For every set of callers and of tasks: the types and flags of EventLoop *)
(* are invariant, no wakeup is lost, and the loop implements TaskQueue     *)
(* (its safety part; liveness is left to TLC), so that no task is lost or  *)
(* run twice.                                                              *)
(***************************************************************************)
EXTENDS EventLoop, SequenceTheorems, TLAPS

(***************************************************************************)
(* Types.                                                                  *)
(***************************************************************************)

(* Handing over a task keeps what is pending a sequence of tasks. *)
LEMMA PushType ==
  ASSUME NEW t \in Tasks, TypeOK, Push(t)
  PROVE  pending' \in Seq(Tasks) /\ born' \in SUBSET Tasks
BY DEF TypeOK, Push

(* TypeOK holds in every reachable state: the flag callingPendingFunctors_ *)
(* is up exactly while doPendingFunctors() runs.                           *)
THEOREM TypeCorrect == Safety => []TypeOK
<1>1. Init => TypeOK
  <2> SUFFICES ASSUME Init PROVE TypeOK
    OBVIOUS
  <2>1. callerPc \in [Callers -> {"idle", "wakeup"}]
    BY DEF Init
  <2>2. <<>> \in Seq(Tasks)
    OBVIOUS
  <2>3. QED
    BY <2>1, <2>2 DEF Init, TypeOK, LoopPcs
<1>2. TypeOK /\ [Next]_vars => TypeOK'
  <2> SUFFICES ASSUME TypeOK, [Next]_vars PROVE TypeOK'
    OBVIOUS
  <2>1. CASE LoopStep
    <3>1. CASE LoopStart
      BY <3>1 DEF LoopStart, TypeOK, LoopPcs
    <3>2. CASE LoopTest
      BY <3>2 DEF LoopTest, TypeOK, LoopPcs
    <3>3. CASE Poll
      BY <3>3 DEF Poll, TypeOK, LoopPcs, Channels
    <3>4. CASE HandleWakeup
      BY <3>4 DEF HandleWakeup, TypeOK
    <3>5. CASE HandleIo
      BY <3>5 DEF HandleIo, TypeOK
    <3>6. CASE BeginPending
      BY <3>6 DEF BeginPending, TypeOK, LoopPcs
    <3>7. CASE SwapPending
      BY <3>7 DEF SwapPending, TypeOK, LoopPcs
    <3>8. CASE RunFunctor
      BY <3>8 DEF RunFunctor, TypeOK
    <3>9. CASE EndPending
      BY <3>9 DEF EndPending, TypeOK, LoopPcs
    <3>10. QED
      BY <2>1, <3>1, <3>2, <3>3, <3>4, <3>5, <3>6, <3>7, <3>8, <3>9 DEF LoopStep
  <2>2. CASE LoopCall
    <3>1. ASSUME NEW t \in Tasks, LoopQueueInLoop(t) PROVE TypeOK'
      BY <3>1, PushType DEF LoopQueueInLoop, TypeOK, loopVars
    <3>2. ASSUME NEW t \in Tasks, LoopRunInLoop(t) PROVE TypeOK'
      BY <3>2 DEF LoopRunInLoop, TypeOK, loopVars
    <3>3. CASE LoopQuit
      BY <3>3 DEF LoopQuit, TypeOK, loopVars
    <3>4. QED
      BY <2>2, <3>1, <3>2, <3>3 DEF LoopCall
  <2>3. ASSUME NEW c \in Callers, CallerStep(c) PROVE TypeOK'
    <3>1. ASSUME NEW t \in Tasks, CallerQueueInLoop(c, t) PROVE TypeOK'
      BY <3>1, PushType DEF CallerQueueInLoop, TypeOK, loopVars
    <3>2. CASE CallerQuit(c)
      BY <3>2 DEF CallerQuit, TypeOK, loopVars
    <3>3. CASE CallerWakeup(c)
      BY <3>3 DEF CallerWakeup, TypeOK, loopVars
    <3>4. QED
      BY <2>3, <3>1, <3>2, <3>3 DEF CallerStep
  <2>4. CASE UNCHANGED vars
    BY <2>4 DEF vars, loopVars, TypeOK
  <2>5. QED
    BY <2>1, <2>2, <2>3, <2>4 DEF Next
<1>3. QED
  BY <1>1, <1>2, PTL DEF Safety

-----------------------------------------------------------------------------
(***************************************************************************)
(* No wakeup is lost.  Together with TypeOK, which ties calling to the     *)
(* loop thread's place in its cycle, both invariants are inductive.        *)
(***************************************************************************)
WakeInv == NoLostWakeup /\ NoLostQuit

(* Nobody who was about to wake the loop is forgotten while neither the    *)
(* eventfd nor callerPc changes.                                           *)
LEMMA WakingKept ==
  ASSUME UNCHANGED <<wakeupFd, callerPc>>
  PROVE  Waking' <=> Waking
BY DEF Waking

(* A step of the loop thread: it starts a new wait only from states in     *)
(* which nothing was lost.                                                 *)
LEMMA LoopStepKeepsWakeInv ==
  ASSUME TypeOK, WakeInv, LoopStep
  PROVE  WakeInv'
<1> USE DEF WakeInv, NoLostWakeup, NoLostQuit
<1>1. CASE LoopStart
  BY <1>1, WakingKept DEF LoopStart
<1>2. CASE LoopTest
  BY <1>2, WakingKept DEF LoopTest
<1>3. CASE Poll
  BY <1>3 DEF Poll
<1>4. CASE HandleWakeup
  BY <1>4 DEF HandleWakeup
<1>5. CASE HandleIo
  BY <1>5 DEF HandleIo
<1>6. CASE BeginPending
  BY <1>6 DEF BeginPending
<1>7. CASE SwapPending
  BY <1>7 DEF SwapPending
<1>8. CASE RunFunctor
  BY <1>8, WakingKept DEF RunFunctor
<1>9. CASE EndPending
  BY <1>9, WakingKept DEF EndPending
<1>10. QED
  BY <1>1, <1>2, <1>3, <1>4, <1>5, <1>6, <1>7, <1>8, <1>9 DEF LoopStep

(* A call by the loop thread: a functor queued from a functor wakes the    *)
(* loop because callingPendingFunctors_ is set, one queued from a channel  *)
(* callback is swapped out before the next poll().                         *)
LEMMA LoopCallKeepsWakeInv ==
  ASSUME TypeOK, WakeInv, LoopCall
  PROVE  WakeInv'
<1> USE DEF WakeInv, NoLostWakeup, NoLostQuit
<1>1. ASSUME NEW t \in Tasks, LoopQueueInLoop(t)
      PROVE  WakeInv'
  <2>1. CASE loopPc = "handle"
    BY <1>1, <2>1 DEF LoopQueueInLoop, loopVars
  <2>2. CASE loopPc = "run"
    <3>1. wakeupFd'
      BY <1>1, <2>2 DEF LoopQueueInLoop, NeedsWakeup, TypeOK
    <3>2. QED
      BY <3>1 DEF Waking
  <2>3. QED
    BY <1>1, <2>1, <2>2 DEF LoopQueueInLoop, InCallback
<1>2. ASSUME NEW t \in Tasks, LoopRunInLoop(t)
      PROVE  WakeInv'
  BY <1>2, WakingKept DEF LoopRunInLoop, loopVars
<1>3. CASE LoopQuit
  BY <1>3, WakingKept DEF LoopQuit, loopVars, InCallback
<1>4. QED
  BY <1>1, <1>2, <1>3 DEF LoopCall

(* Another thread that stored something is at "wakeup" until it has        *)
(* written the eventfd.                                                    *)
LEMMA CallerKeepsWakeInv ==
  ASSUME TypeOK, WakeInv, NEW c \in Callers, CallerStep(c)
  PROVE  WakeInv'
<1>1. Waking'
  <2>1. ASSUME NEW t \in Tasks, CallerQueueInLoop(c, t) PROVE Waking'
    BY <2>1 DEF CallerQueueInLoop, NeedsWakeup, Waking, TypeOK
  <2>2. CASE CallerQuit(c)
    BY <2>2 DEF CallerQuit, Waking, TypeOK
  <2>3. CASE CallerWakeup(c)
    BY <2>3 DEF CallerWakeup, Waking
  <2>4. QED
    BY <2>1, <2>2, <2>3 DEF CallerStep
<1>2. QED
  BY <1>1 DEF WakeInv, NoLostWakeup, NoLostQuit

(* WakeInv is invariant. *)
LEMMA WakeInvHolds == Safety => []WakeInv
<1>1. Init => WakeInv
  BY DEF Init, WakeInv, NoLostWakeup, NoLostQuit
<1>2. TypeOK /\ WakeInv /\ [Next]_vars => WakeInv'
  <2> SUFFICES ASSUME TypeOK, WakeInv, [Next]_vars PROVE WakeInv'
    OBVIOUS
  <2>1. CASE UNCHANGED vars
    BY <2>1, WakingKept DEF vars, loopVars, WakeInv, NoLostWakeup, NoLostQuit
  <2>2. QED
    BY <2>1, LoopStepKeepsWakeInv, LoopCallKeepsWakeInv, CallerKeepsWakeInv DEF Next
<1>3. QED
  BY <1>1, <1>2, TypeCorrect, PTL DEF Safety

(* NoLostWakeup holds in every reachable state: the loop thread never      *)
(* blocks on a functor that nobody will announce.                          *)
THEOREM WakeupsKept == Safety => []NoLostWakeup
BY WakeInvHolds, PTL DEF WakeInv

(* NoLostQuit holds in every reachable state: nor does it block on a       *)
(* quit() that nobody will announce.                                       *)
THEOREM QuitsKept == Safety => []NoLostQuit
BY WakeInvHolds, PTL DEF WakeInv

-----------------------------------------------------------------------------
(***************************************************************************)
(* Refinement.                                                             *)
(***************************************************************************)

(* Pushing on pendingFunctors_ appends to the queue as a whole. *)
LEMMA PushAppends ==
  ASSUME NEW t \in Tasks, TypeOK, Push(t), UNCHANGED functors
  PROVE  (functors \o pending)' = Append(functors \o pending, t)
BY DEF TypeOK, Push

(* Finishing the head of the batch takes the head of the queue. *)
LEMMA RunTakesHead ==
  ASSUME TypeOK, functors # <<>>,
         functors' = Tail(functors), UNCHANGED pending
  PROVE  /\ functors \o pending # <<>>
         /\ Head(functors \o pending) = Head(functors)
         /\ (functors \o pending)' = Tail(functors \o pending)
BY DEF TypeOK

(* Swapping the vectors leaves the queue as it was. *)
LEMMA SwapKeepsQueue ==
  ASSUME TypeOK, SwapPending
  PROVE  (functors \o pending)' = functors \o pending
<1>1. functors = <<>>
  BY DEF TypeOK, SwapPending
<1>2. QED
  BY <1>1 DEF TypeOK, SwapPending

(* Every step of the loop is a step of the task queue or leaves it alone.  *)
LEMMA StepRefines ==
  ASSUME TypeOK, [Next]_vars
  PROVE  [Queue!Next]_(Queue!vars)
<1> USE DEF Queue!vars
<1>1. CASE LoopStep
  <2>1. CASE LoopStart \/ Poll \/ HandleWakeup \/ HandleIo \/ BeginPending \/ EndPending
    BY <1>1, <2>1 DEF LoopStart, Poll, HandleWakeup, HandleIo, BeginPending, EndPending
  <2>2. CASE LoopTest
    BY <2>2 DEF LoopTest, Queue!Next, Queue!Close
  <2>3. CASE SwapPending
    BY <2>3, SwapKeepsQueue DEF SwapPending
  <2>4. CASE RunFunctor
    BY <2>4, RunTakesHead DEF RunFunctor, Queue!Next, Queue!RunNext
  <2>5. QED
    BY <1>1, <2>1, <2>2, <2>3, <2>4 DEF LoopStep
<1>2. CASE LoopCall
  <2>1. ASSUME NEW t \in Tasks, LoopQueueInLoop(t) PROVE Queue!Next
    BY <2>1, PushAppends DEF LoopQueueInLoop, loopVars, Push, Queue!Next, Queue!Submit
  <2>2. ASSUME NEW t \in Tasks, LoopRunInLoop(t) PROVE Queue!Next
    BY <2>2 DEF LoopRunInLoop, InCallback, loopVars, Queue!Next, Queue!RunNow
  <2>3. CASE LoopQuit
    BY <2>3 DEF LoopQuit, loopVars
  <2>4. QED
    BY <1>2, <2>1, <2>2, <2>3 DEF LoopCall
<1>3. ASSUME NEW c \in Callers, CallerStep(c)
      PROVE  [Queue!Next]_(Queue!vars)
  <2>1. ASSUME NEW t \in Tasks, CallerQueueInLoop(c, t) PROVE Queue!Next
    BY <2>1, PushAppends DEF CallerQueueInLoop, loopVars, Push, Queue!Next, Queue!Submit
  <2>2. CASE CallerQuit(c) \/ CallerWakeup(c)
    BY <2>2 DEF CallerQuit, CallerWakeup, loopVars
  <2>3. QED
    BY <1>3, <2>1, <2>2 DEF CallerStep
<1>4. CASE UNCHANGED vars
  BY <1>4 DEF vars, loopVars
<1>5. QED
  BY <1>1, <1>2, <1>3, <1>4 DEF Next

(* The event loop implements the safety part of TaskQueue: every task      *)
(* handed over runs at most once, and queued tasks run in the order they   *)
(* were queued.                                                            *)
THEOREM Refinement == Safety => Queue!Safety
<1>1. Init => Queue!Init
  BY DEF Init, Queue!Init
<1>2. TypeOK /\ [Next]_vars => [Queue!Next]_(Queue!vars)
  BY StepRefines
<1>3. QED
  BY <1>1, <1>2, TypeCorrect, PTL DEF Safety, Queue!Safety

-----------------------------------------------------------------------------
(***************************************************************************)
(* What callers may conclude from the refinement alone: the abstract queue *)
(* loses nothing and repeats nothing, hence neither does the loop.         *)
(***************************************************************************)
LEMMA TaskAppended ==
  ASSUME NEW s \in Seq(Tasks), NEW t \in Tasks
  PROVE  /\ \A u : Queue!Occurs(u, Append(s, t)) <=> Queue!Occurs(u, s) \/ u = t
         /\ Queue!Distinct(s) /\ ~Queue!Occurs(t, s) => Queue!Distinct(Append(s, t))
<1> DEFINE n == Len(s) + 1
           a == Append(s, t)
<1>1. /\ DOMAIN a = DOMAIN s \union {n} /\ a[n] = t
      /\ \A i \in DOMAIN s : a[i] = s[i] /\ i # n
  BY AppendProperties
<1> HIDE DEF a, n
<1>2. \A u : Queue!Occurs(u, a) <=> Queue!Occurs(u, s) \/ u = t
  BY <1>1 DEF Queue!Occurs
<1>3. Queue!Distinct(s) /\ ~Queue!Occurs(t, s) => Queue!Distinct(a)
  BY <1>1 DEF Queue!Occurs, Queue!Distinct
<1>4. QED
  BY <1>2, <1>3 DEF a

LEMMA TaskTaken ==
  ASSUME NEW s \in Seq(Tasks), s # <<>>
  PROVE  /\ Head(s) \in Tasks /\ Queue!Occurs(Head(s), s)
         /\ \A u : Queue!Occurs(u, s) <=> Queue!Occurs(u, Tail(s)) \/ u = Head(s)
         /\ Queue!Distinct(s) => Queue!Distinct(Tail(s)) /\ ~Queue!Occurs(Head(s), Tail(s))
<1> DEFINE h == Head(s)
           r == Tail(s)
           n == Len(s)
<1>1. /\ n \in Nat /\ n >= 1 /\ DOMAIN s = 1 .. n /\ DOMAIN r = 1 .. n - 1
      /\ h = s[1] /\ h \in Tasks /\ 1 \in DOMAIN s
  OBVIOUS
<1>2. \A i \in DOMAIN r : r[i] = s[i + 1] /\ i + 1 \in DOMAIN s /\ i + 1 # 1 /\ i \in Nat
  BY <1>1
<1>3. \A i \in DOMAIN s : i = 1 \/ (i - 1 \in DOMAIN r /\ i - 1 + 1 = i)
  BY <1>1
<1> HIDE DEF h, r, n
<1>4. \A u : Queue!Occurs(u, s) <=> Queue!Occurs(u, r) \/ u = h
  <2> TAKE u
  <2>1. ASSUME Queue!Occurs(u, s) PROVE Queue!Occurs(u, r) \/ u = h
    <3>1. PICK i \in DOMAIN s : s[i] = u
      BY <2>1 DEF Queue!Occurs
    <3>2. CASE i = 1
      BY <1>1, <3>1, <3>2
    <3>3. CASE i # 1
      BY <1>2, <1>3, <3>1, <3>3 DEF Queue!Occurs
    <3>4. QED
      BY <3>2, <3>3
  <2>2. ASSUME Queue!Occurs(u, r) \/ u = h PROVE Queue!Occurs(u, s)
    BY <1>1, <1>2, <2>2 DEF Queue!Occurs
  <2>3. QED
    BY <2>1, <2>2
<1>5. ASSUME Queue!Distinct(s) PROVE Queue!Distinct(r) /\ ~Queue!Occurs(h, r)
  <2>1. \A i, j \in DOMAIN r : i + 1 = j + 1 => i = j
    BY <1>2
  <2>2. QED
    BY <1>1, <1>2, <1>5, <2>1 DEF Queue!Distinct, Queue!Occurs
<1>6. QED
  BY <1>1, <1>4, <1>5 DEF h, r

(* A step of the abstract queue keeps its account. *)
LEMMA QueueAccounts ==
  ASSUME NEW q \in Seq(Tasks), NEW r \in Seq(Tasks), NEW b \in SUBSET Tasks,
         Queue!Accounted(q, r, b)
  PROVE  /\ \A t \in Tasks \ b : /\ Queue!Accounted(Append(q, t), r, b \union {t})
                                 /\ Queue!Accounted(q, Append(r, t), b \union {t})
         /\ q # <<>> => Queue!Accounted(Tail(q), Append(r, Head(q)), b)
<1>1. ASSUME NEW t \in Tasks \ b
      PROVE  /\ Queue!Accounted(Append(q, t), r, b \union {t})
             /\ Queue!Accounted(q, Append(r, t), b \union {t})
  <2>1. ~Queue!Occurs(t, q) /\ ~Queue!Occurs(t, r)
    BY <1>1 DEF Queue!Accounted
  <2>2. Queue!Distinct(Append(q, t)) /\ Queue!Distinct(Append(r, t))
    BY <1>1, <2>1, TaskAppended DEF Queue!Accounted
  <2>3. /\ \A u : Queue!Occurs(u, Append(q, t)) <=> Queue!Occurs(u, q) \/ u = t
        /\ \A u : Queue!Occurs(u, Append(r, t)) <=> Queue!Occurs(u, r) \/ u = t
    BY <1>1, TaskAppended
  <2>4. QED
    BY <1>1, <2>1, <2>2, <2>3 DEF Queue!Accounted
<1>2. ASSUME q # <<>> PROVE Queue!Accounted(Tail(q), Append(r, Head(q)), b)
  <2>1. /\ Head(q) \in Tasks /\ Queue!Occurs(Head(q), q)
        /\ \A u : Queue!Occurs(u, q) <=> Queue!Occurs(u, Tail(q)) \/ u = Head(q)
        /\ Queue!Distinct(Tail(q)) /\ ~Queue!Occurs(Head(q), Tail(q))
    BY <1>2, TaskTaken DEF Queue!Accounted
  <2>2. ~Queue!Occurs(Head(q), r)
    BY <2>1 DEF Queue!Accounted
  <2>3. /\ \A u : Queue!Occurs(u, Append(r, Head(q))) <=> Queue!Occurs(u, r) \/ u = Head(q)
        /\ Queue!Distinct(Append(r, Head(q)))
    BY <2>1, <2>2, TaskAppended DEF Queue!Accounted
  <2>4. QED
    BY <2>1, <2>2, <2>3 DEF Queue!Accounted
<1>3. QED
  BY <1>1, <1>2

(* Every task handed over waits in the queue or has run, and runs once:    *)
(* this follows from the refinement, whatever the loop does inside.        *)
THEOREM TasksKept == Safety => []Queue!NothingLost
<1>1. Queue!Init => Queue!NothingLost
  BY DEF Queue!Init, Queue!NothingLost, Queue!Accounted, Queue!Occurs, Queue!Distinct
<1>2. TypeOK /\ Queue!NothingLost /\ [Queue!Next]_(Queue!vars) => Queue!NothingLost'
  <2> SUFFICES ASSUME TypeOK, Queue!NothingLost, [Queue!Next]_(Queue!vars)
               PROVE  Queue!NothingLost'
    OBVIOUS
  <2> DEFINE q == functors \o pending
  <2>1. q \in Seq(Tasks) /\ ran \in Seq(Tasks) /\ born \in SUBSET Tasks
    BY ConcatProperties DEF TypeOK
  <2>2. Queue!Accounted(q, ran, born)
    BY DEF Queue!NothingLost
  <2>3. Queue!NothingLost' <=> Queue!Accounted(q', ran', born')
    BY DEF Queue!NothingLost
  <2> HIDE DEF q
  <2>4. ASSUME NEW t \in Tasks, Queue!Submit(t) PROVE Queue!NothingLost'
    <3>1. t \in Tasks \ born /\ born' = born \union {t} /\ q' = Append(q, t) /\ ran' = ran
      BY <2>4 DEF Queue!Submit, q
    <3>2. QED
      BY <2>1, <2>2, <2>3, <3>1, QueueAccounts
  <2>5. ASSUME NEW t \in Tasks, Queue!RunNow(t) PROVE Queue!NothingLost'
    <3>1. t \in Tasks \ born /\ born' = born \union {t} /\ q' = q /\ ran' = Append(ran, t)
      BY <2>5 DEF Queue!RunNow, q
    <3>2. QED
      BY <2>1, <2>2, <2>3, <3>1, QueueAccounts
  <2>6. CASE Queue!RunNext
    BY <2>1, <2>2, <2>3, <2>6, QueueAccounts DEF Queue!RunNext, q
  <2>7. CASE Queue!Close \/ UNCHANGED Queue!vars
    BY <2>2, <2>3, <2>7 DEF Queue!Close, Queue!vars, q
  <2>8. QED
    BY <2>4, <2>5, <2>6, <2>7 DEF Queue!Next
<1>3. QED
  BY <1>1, <1>2, Refinement, TypeCorrect, PTL DEF Queue!Safety

=============================================================================
