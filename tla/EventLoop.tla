----------------------------- MODULE EventLoop -----------------------------
(***************************************************************************)
(* network/net/net_event_loop.cpp: one loop thread that polls, handles the *)
(* active channels and then runs the functors other threads queued, and    *)
(* any number of other threads that queue functors or ask it to quit.      *)
(*                                                                         *)
(* Granularity.  The loop thread advances loopPc; a caller's call is two   *)
(* steps, the store (push_back under mutex_, or quit_ = true) and the      *)
(* write to the eventfd, so everything can happen between them.  Each      *)
(* critical section of mutex_ is one container operation, hence one step.  *)
(* The eventfd is reduced to "its counter is not zero": handleRead reads   *)
(* the whole counter and poll only asks whether it is readable.            *)
(***************************************************************************)
EXTENDS Sequences

CONSTANTS
  Callers,          (* threads other than the loop thread                *)
  Tasks             (* the functors anybody may hand over, each once     *)

VARIABLES
  loopPc,           (* where the loop thread is in loop()                *)
  active,           (* activeChannels_ still to be handled               *)
  pending,          (* pendingFunctors_                                  *)
  functors,         (* the vector local to doPendingFunctors()           *)
  calling,          (* callingPendingFunctors_                           *)
  quit,             (* quit_                                             *)
  wakeupFd,         (* the eventfd is readable                           *)
  callerPc,         (* "idle", or "wakeup": stored, eventfd not written  *)
  born,             (* history: tasks handed over so far                 *)
  ran               (* history: tasks in the order they finished         *)

loopVars == <<loopPc, active, functors, calling>>
vars == <<loopVars, pending, quit, wakeupFd, callerPc, born, ran>>

LoopPcs == {"start", "test", "poll", "handle", "swap", "run", "done"}
Channels == {"wakeup", "io"}

(***************************************************************************)
(* Types, and the flag the code keeps beside its control: it is set        *)
(* exactly while doPendingFunctors() runs, a batch exists only then, and   *)
(* channels are active only while they are being handled.                  *)
(***************************************************************************)
TypeOK ==
  /\ loopPc \in LoopPcs
  /\ active \in SUBSET Channels
  /\ pending \in Seq(Tasks)
  /\ functors \in Seq(Tasks)
  /\ calling \in BOOLEAN
  /\ quit \in BOOLEAN
  /\ wakeupFd \in BOOLEAN
  /\ callerPc \in [Callers -> {"idle", "wakeup"}]
  /\ born \in SUBSET Tasks
  /\ ran \in Seq(Tasks)
  /\ calling <=> loopPc \in {"swap", "run"}
  /\ functors # <<>> => loopPc = "run"
  /\ active # {} => loopPc = "handle"

Init ==
  /\ loopPc = "start"
  /\ active = {}
  /\ pending = <<>>
  /\ functors = <<>>
  /\ calling = FALSE
  /\ quit = FALSE
  /\ wakeupFd = FALSE
  /\ callerPc = [c \in Callers |-> "idle"]
  /\ born = {}
  /\ ran = <<>>

-----------------------------------------------------------------------------
(* The loop thread. *)

(* loop() up to the while: quit_ is cleared, whoever set it. *)
LoopStart ==
  /\ loopPc = "start"
  /\ quit' = FALSE
  /\ loopPc' = "test"
  /\ UNCHANGED <<active, pending, functors, calling, wakeupFd, callerPc, born, ran>>

(* Mutant: quit_ is not looked at. *)
LoopTestMutant ==
  /\ loopPc = "test"
  /\ loopPc' = "poll"
  /\ UNCHANGED <<active, functors, calling, pending, quit, wakeupFd, callerPc, born, ran>>

(* while (!quit_) *)
LoopTest ==
  /\ loopPc = "test"
  /\ loopPc' = IF quit THEN "done" ELSE "poll"
  /\ UNCHANGED <<active, functors, calling, pending, quit, wakeupFd, callerPc, born, ran>>

(***************************************************************************)
(* poll() returns the wakeup channel when the eventfd is readable, and any *)
(* other channel when its descriptor is; with neither it returns nothing   *)
(* after kPollTimeMs.                                                      *)
(***************************************************************************)
Poll ==
  /\ loopPc = "poll"
  /\ \E io \in SUBSET {"io"} :
       active' = io \union (IF wakeupFd THEN {"wakeup"} ELSE {})
  /\ loopPc' = "handle"
  /\ UNCHANGED <<pending, functors, calling, quit, wakeupFd, callerPc, born, ran>>

(* The wakeup channel's callback, EventLoop::handleRead(): drain the eventfd. *)
HandleWakeup ==
  /\ loopPc = "handle"
  /\ "wakeup" \in active
  /\ active' = active \ {"wakeup"}
  /\ wakeupFd' = FALSE
  /\ UNCHANGED <<loopPc, pending, functors, calling, quit, callerPc, born, ran>>

(* Any other channel's callback returns. *)
HandleIo ==
  /\ loopPc = "handle"
  /\ "io" \in active
  /\ active' = active \ {"io"}
  /\ UNCHANGED <<loopPc, pending, functors, calling, quit, wakeupFd, callerPc, born, ran>>

(* doPendingFunctors(): the flag goes up before the lock is taken. *)
BeginPending ==
  /\ loopPc = "handle"
  /\ active = {}
  /\ calling' = TRUE
  /\ loopPc' = "swap"
  /\ UNCHANGED <<active, pending, functors, quit, wakeupFd, callerPc, born, ran>>

(* Mutant: the functors are copied, not swapped out. *)
SwapPendingMutant ==
  /\ loopPc = "swap"
  /\ functors' = pending
  /\ loopPc' = "run"
  /\ UNCHANGED <<active, pending, calling, quit, wakeupFd, callerPc, born, ran>>

(* functors.swap(pendingFunctors_) under mutex_. *)
SwapPending ==
  /\ loopPc = "swap"
  /\ functors' = pending
  /\ pending' = <<>>
  /\ loopPc' = "run"
  /\ UNCHANGED <<active, calling, quit, wakeupFd, callerPc, born, ran>>

(* The functor at the head of the batch returns. *)
RunFunctor ==
  /\ loopPc = "run"
  /\ functors # <<>>
  /\ ran' = Append(ran, Head(functors))
  /\ functors' = Tail(functors)
  /\ UNCHANGED <<loopPc, active, pending, calling, quit, wakeupFd, callerPc, born>>

(* Mutant: callingPendingFunctors_ stays set. *)
EndPendingMutant ==
  /\ loopPc = "run"
  /\ functors = <<>>
  /\ loopPc' = "test"
  /\ UNCHANGED <<active, pending, functors, calling, quit, wakeupFd, callerPc, born, ran>>

(* The batch is finished: callingPendingFunctors_ = false. *)
EndPending ==
  /\ loopPc = "run"
  /\ functors = <<>>
  /\ calling' = FALSE
  /\ loopPc' = "test"
  /\ UNCHANGED <<active, pending, functors, quit, wakeupFd, callerPc, born, ran>>

-----------------------------------------------------------------------------
(* Calls on the loop.  queueInLoop() pushes, then decides whether to wake. *)

(* Mutant: a functor queued by a functor wakes nobody. *)
NeedsWakeupMutant(inLoopThread) == ~inLoopThread

(* !isInLoopThread() || callingPendingFunctors_ *)
NeedsWakeup(inLoopThread) == ~inLoopThread \/ calling

Push(t) ==
  /\ t \notin born
  /\ born' = born \union {t}
  /\ pending' = Append(pending, t)

(***************************************************************************)
(* The loop thread calls on its own loop from a channel's callback or from *)
(* a functor.                                                              *)
(***************************************************************************)
InCallback ==
  \/ loopPc = "handle" /\ "io" \in active
  \/ loopPc = "run" /\ functors # <<>>

LoopQueueInLoop(t) ==
  /\ InCallback
  /\ Push(t)
  /\ wakeupFd' = (wakeupFd \/ NeedsWakeup(TRUE))
  /\ UNCHANGED <<loopVars, quit, callerPc, ran>>

(* runInLoop() in the loop thread runs the task at once; servers do it     *)
(* before loop() as well.                                                  *)
LoopRunInLoop(t) ==
  /\ InCallback \/ loopPc = "start"
  /\ t \notin born
  /\ born' = born \union {t}
  /\ ran' = Append(ran, t)
  /\ UNCHANGED <<loopVars, pending, quit, wakeupFd, callerPc>>

(* quit() in the loop thread does not write the eventfd. *)
LoopQuit ==
  /\ InCallback
  /\ quit' = TRUE
  /\ UNCHANGED <<loopVars, pending, wakeupFd, callerPc, born, ran>>

(* Another thread's queueInLoop() or runInLoop(), up to the unlock. *)
CallerQueueInLoop(c, t) ==
  /\ callerPc[c] = "idle"
  /\ Push(t)
  /\ callerPc' = IF NeedsWakeup(FALSE) THEN [callerPc EXCEPT ![c] = "wakeup"] ELSE callerPc
  /\ UNCHANGED <<loopVars, quit, wakeupFd, ran>>

(* Mutant: quit() does not wake the loop. *)
CallerQuitMutant(c) ==
  /\ callerPc[c] = "idle"
  /\ quit' = TRUE
  /\ UNCHANGED <<loopVars, pending, wakeupFd, callerPc, born, ran>>

(* Another thread's quit(), up to the call of wakeup(). *)
CallerQuit(c) ==
  /\ callerPc[c] = "idle"
  /\ quit' = TRUE
  /\ callerPc' = [callerPc EXCEPT ![c] = "wakeup"]
  /\ UNCHANGED <<loopVars, pending, wakeupFd, born, ran>>

(* wakeup(): the write to the eventfd. *)
CallerWakeup(c) ==
  /\ callerPc[c] = "wakeup"
  /\ wakeupFd' = TRUE
  /\ callerPc' = [callerPc EXCEPT ![c] = "idle"]
  /\ UNCHANGED <<loopVars, pending, quit, born, ran>>

-----------------------------------------------------------------------------
LoopStep ==
  \/ LoopStart \/ LoopTest \/ Poll \/ HandleWakeup \/ HandleIo
  \/ BeginPending \/ SwapPending \/ RunFunctor \/ EndPending

LoopCall ==
  \/ \E t \in Tasks : LoopQueueInLoop(t) \/ LoopRunInLoop(t)
  \/ LoopQuit

CallerStep(c) ==
  \/ \E t \in Tasks : CallerQueueInLoop(c, t)
  \/ CallerQuit(c)
  \/ CallerWakeup(c)

Next == LoopStep \/ LoopCall \/ \E c \in Callers : CallerStep(c)

Safety == Init /\ [][Next]_vars

(* The loop thread is scheduled and its callbacks return; a thread inside  *)
(* a call finishes it.  Nobody has to call anything.                       *)
Fairness ==
  /\ WF_vars(LoopStep)
  /\ \A c \in Callers : WF_vars(CallerWakeup(c))

Spec == Safety /\ Fairness

-----------------------------------------------------------------------------
(***************************************************************************)
(* No lost wakeup.  Whenever the loop thread is on its way to block in     *)
(* poll() while there is work for it, the eventfd is readable or some      *)
(* thread is about to make it so: without that a queued functor would wait *)
(* out the ten seconds of kPollTimeMs.                                     *)
(***************************************************************************)
Waking == wakeupFd \/ \E c \in Callers : callerPc[c] = "wakeup"

NoLostWakeup ==
  loopPc \in {"start", "run", "test", "poll"} /\ pending # <<>> => Waking

(***************************************************************************)
(* The same for quit(): the loop never blocks in poll() with quit_ set and *)
(* nobody about to wake it.                                                *)
(***************************************************************************)
NoLostQuit == loopPc = "poll" /\ quit => Waking

(***************************************************************************)
(* The loop implements the task queue: the batch being run followed by     *)
(* the tasks still pending is the queue.                                   *)
(***************************************************************************)
Queue == INSTANCE TaskQueue WITH
           queue <- functors \o pending,
           open  <- loopPc # "done"

ImplementsTaskQueue == Queue!Spec

(***************************************************************************)
(* Once loop() is running, quit() from any thread ends it, however much    *)
(* I/O and however many functors are on the way.                           *)
(***************************************************************************)
QuitEndsLoop == (quit /\ loopPc # "start") ~> loopPc = "done"

=============================================================================
