----------------------------- MODULE TimerQueue -----------------------------
(***************************************************************************)
(* network/net/net_timer_queue.cpp with net_timer.{h,cpp}: the timers of   *)
(* one EventLoop, run from a timerfd.  The loop thread adds and cancels    *)
(* timers in its callbacks; other threads do it through the loop's task    *)
(* queue (see EventLoop), and read the new timer's sequence number only    *)
(* after they have handed the timer over.                                  *)
(*                                                                         *)
(* Time.  The expiry of a timer is a wall-clock time, the timerfd counts   *)
(* down on the monotonic clock.  One tick is the shortest delay the code   *)
(* arms the timerfd with, 100 microseconds.  The wall clock may be set.    *)
(*                                                                         *)
(* Memory.  Timers are raw pointers: an address is reused once its timer   *)
(* was deleted.  Reading a deleted timer gives any number drawn so far.    *)
(***************************************************************************)
EXTENDS Integers, Sequences, FiniteSets

CONSTANTS
  Callers,          (* threads other than the loop thread                  *)
  Addresses,        (* where a Timer may be allocated: naturals, ordered   *)
  Delays,           (* delays a timer may be added with                    *)
  Intervals,        (* intervals; 0 for a timer that does not repeat       *)
  MaxTimers,        (* bound: timers created                               *)
  MaxTime,          (* bound: wall-clock time                              *)
  MaxSteps,         (* bound: times the wall clock is set                  *)
  MaxCalls,         (* bound: functors waiting in the loop                 *)
  Null              (* no timer                                            *)

ASSUME TimerAssumption ==
  /\ Addresses \subseteq Nat /\ IsFiniteSet(Addresses)
  /\ Delays \subseteq Nat
  /\ Intervals \subseteq Nat
  /\ {MaxTimers, MaxTime, MaxSteps, MaxCalls} \subseteq Nat
  /\ MaxTime > 0
  /\ Null \notin [seq : Nat, when : Nat, interval : Nat] \union [addr : Nat, seq : Nat]

VARIABLES
  wall,             (* Timestamp::now()                                    *)
  steps,            (* times the wall clock was set                        *)
  heap,             (* the Timer at each address, or Null                  *)
  created,          (* Timer::s_numCreated_                                *)
  timers,           (* timers_: expiry and address                         *)
  active,           (* activeTimers_: address and sequence                 *)
  canceling,        (* cancelingTimers_                                    *)
  pc,               (* the loop: "wait", or "run" inside handleRead()      *)
  reported,         (* poll() found the timerfd readable in this round     *)
  batch,            (* expired, the vector local to handleRead()           *)
  toRun,            (* those of batch whose callback has not run           *)
  firedAt,          (* now, local to handleRead(); 0 outside               *)
  armed,            (* the timerfd is set and was not read since           *)
  left,             (* ticks until it is readable                          *)
  functors,         (* addTimerInLoop and cancelInLoop in the task queue   *)
  callerPc,         (* "idle", or "read" after the timer was handed over   *)
  adding,           (* the timer it is adding: address and sequence        *)
  ids,              (* TimerIds returned, with the timer they were for     *)
  failed,           (* an assert failed, or a deleted timer was used       *)
  ran,              (* history: timers that ran                            *)
  cancelled,        (* history: timers cancelled by their ids              *)
  repeating,        (* history: timers with an interval                    *)
  misread           (* history: an id has another timer's sequence         *)

clockVars == <<wall, steps>>
queueVars == <<heap, timers, active, canceling>>
batchVars == <<pc, reported, batch, toRun, firedAt>>
fdVars == <<armed, left>>
callVars == <<functors, callerPc, adding>>
histVars == <<ran, cancelled, repeating, misread>>
vars == <<clockVars, queueVars, created, batchVars, fdVars, callVars, ids, failed, histVars>>

Sequences == 1 .. MaxTimers
Timers == [seq : Sequences, when : Nat, interval : Intervals]
Keys == [addr : Addresses, seq : 0 .. MaxTimers]
Entries == [when : Nat, addr : Addresses]
TimerIds == [addr : Addresses, seq : 0 .. MaxTimers, of : Sequences]
Functors == [op : {"add"}, addr : Addresses] \union [op : {"cancel"}, id : TimerIds]

TypeOK ==
  /\ wall \in 1 .. MaxTime
  /\ steps \in 0 .. MaxSteps
  /\ heap \in [Addresses -> Timers \union {Null}]
  /\ created \in 0 .. MaxTimers
  /\ timers \in SUBSET Entries
  /\ active \in SUBSET Keys
  /\ canceling \in SUBSET Keys
  /\ pc \in {"wait", "run"}
  /\ reported \in BOOLEAN
  /\ batch \in SUBSET Entries
  /\ toRun \in SUBSET batch
  /\ firedAt \in 0 .. MaxTime
  /\ armed \in BOOLEAN
  /\ left \in Nat
  /\ functors \in Seq(Functors)
  /\ callerPc \in [Callers -> {"idle", "read"}]
  /\ adding \in [Callers -> [addr : Addresses, seq : Sequences] \union {Null}]
  /\ ids \in SUBSET TimerIds
  /\ failed \in BOOLEAN
  /\ ran \in SUBSET Sequences
  /\ cancelled \in SUBSET Sequences
  /\ repeating \in SUBSET Sequences
  /\ misread \in BOOLEAN
  /\ pc = "wait" => batch = {}
  /\ \A c \in Callers : callerPc[c] = "read" => adding[c] # Null

Init ==
  /\ wall = 1
  /\ steps = 0
  /\ heap = [a \in Addresses |-> Null]
  /\ created = 0
  /\ timers = {}
  /\ active = {}
  /\ canceling = {}
  /\ pc = "wait"
  /\ reported = FALSE
  /\ batch = {}
  /\ toRun = {}
  /\ firedAt = 0
  /\ armed = FALSE
  /\ left = 0
  /\ functors = <<>>
  /\ callerPc = [c \in Callers |-> "idle"]
  /\ adding = [c \in Callers |-> Null]
  /\ ids = {}
  /\ failed = FALSE
  /\ ran = {}
  /\ cancelled = {}
  /\ repeating = {}
  /\ misread = FALSE

-----------------------------------------------------------------------------
(* Pieces of the handlers. *)

Entry(a) == [when |-> heap[a].when, addr |-> a]
Key(a) == [addr |-> a, seq |-> heap[a].seq]

(* assert(timers_.size() == activeTimers_.size()), on the way in and out. *)
Asserts(ok) ==
  failed' = ~(ok /\ Cardinality(timers) = Cardinality(active)
                 /\ Cardinality(timers') = Cardinality(active'))

(* Mutant: no shortest delay. *)
RemainingUnbounded(when) == when - wall

(* howMuchTimeFromNow() *)
Remaining(when) == IF when - wall < 1 THEN 1 ELSE when - wall

(* Mutant: a new earliest timer sets the fd only if it is alone. *)
insertTimerWhenAlone(a, when, seq) ==
  LET entry == [when |-> when, addr |-> a]
      key == [addr |-> a, seq |-> seq]
      earliestChanged == timers = {}
  IN /\ timers' = timers \union {entry}
     /\ active' = active \union {key}
     /\ IF earliestChanged
        THEN armed' = TRUE /\ left' = Remaining(when)
        ELSE UNCHANGED fdVars
     /\ Asserts(entry \notin timers /\ key \notin active)

(* addTimerInLoop() and insert(): only a new earliest timer sets the fd. *)
insertTimer(a, when, seq) ==
  LET entry == [when |-> when, addr |-> a]
      key == [addr |-> a, seq |-> seq]
      earliestChanged == \A e \in timers : when < e.when
  IN /\ timers' = timers \union {entry}
     /\ active' = active \union {key}
     /\ IF earliestChanged
        THEN armed' = TRUE /\ left' = Remaining(when)
        ELSE UNCHANGED fdVars
     /\ Asserts(entry \notin timers /\ key \notin active)

(* cancelInLoop(): a timer of the batch that runs is remembered instead. *)
cancelTimer(id) ==
  LET key == [addr |-> id.addr, seq |-> id.seq]
  IN /\ IF key \in active
        THEN /\ timers' = timers \ {Entry(id.addr)}
             /\ active' = active \ {key}
             /\ heap' = [heap EXCEPT ![id.addr] = Null]
             /\ UNCHANGED canceling
             /\ Asserts(Entry(id.addr) \in timers)
        ELSE /\ canceling' = IF pc = "run" THEN canceling \union {key} ELSE canceling
             /\ UNCHANGED <<timers, active, heap>>
             /\ Asserts(TRUE)
     /\ cancelled' = IF key \in active \/ \E e \in batch : heap[e.addr] # Null /\ key = Key(e.addr)
                     THEN cancelled \union {id.of}
                     ELSE cancelled

(* new Timer(cb, when, interval) *)
newTimer(a, d, i) ==
  /\ created < MaxTimers
  /\ heap[a] = Null
  /\ created' = created + 1
  /\ heap' = [heap EXCEPT ![a] = [seq |-> created + 1, when |-> wall + d, interval |-> i]]
  /\ repeating' = IF i > 0 THEN repeating \union {created + 1} ELSE repeating

-----------------------------------------------------------------------------
(* The loop thread: the callbacks of timers and of other channels call.    *)

InCallback == pc = "wait" \/ toRun # batch

LoopAddTimer(a, d, i) ==
  /\ InCallback
  /\ newTimer(a, d, i)
  /\ insertTimer(a, wall + d, created + 1)
  /\ ids' = ids \union {[addr |-> a, seq |-> created + 1, of |-> created + 1]}
  /\ UNCHANGED <<clockVars, canceling, batchVars, callVars, ran, cancelled, misread>>

LoopCancel(id) ==
  /\ InCallback
  /\ cancelTimer(id)
  /\ UNCHANGED <<clockVars, created, batchVars, fdVars, callVars, ids, ran, repeating, misread>>

-----------------------------------------------------------------------------
(* The loop thread runs the oldest functor, after the events of the round. *)

AddFunctor ==
  /\ pc = "wait" /\ ~reported
  /\ functors # <<>>
  /\ Head(functors).op = "add"
  /\ functors' = Tail(functors)
  /\ LET a == Head(functors).addr
     IN insertTimer(a, heap[a].when, heap[a].seq)
  /\ UNCHANGED <<clockVars, heap, canceling, created, batchVars, callerPc, adding, ids, histVars>>

CancelFunctor ==
  /\ pc = "wait" /\ ~reported
  /\ functors # <<>>
  /\ Head(functors).op = "cancel"
  /\ functors' = Tail(functors)
  /\ cancelTimer(Head(functors).id)
  /\ UNCHANGED <<clockVars, created, batchVars, fdVars, callerPc, adding, ids,
                 ran, repeating, misread>>

-----------------------------------------------------------------------------
(* handleRead(): the timerfd was readable. *)

(* EventLoop::loop(): the handlers of this round may still set the timerfd *)
(* anew before its own is called.                                          *)
Poll ==
  /\ pc = "wait" /\ ~reported
  /\ armed
  /\ left = 0
  /\ reported' = TRUE
  /\ UNCHANGED <<clockVars, queueVars, created, pc, batch, toRun, firedAt, fdVars, callVars,
                 ids, failed, histVars>>

(* Mutant: the expired timers stay in activeTimers_. *)
ExpiredKeysNone == {}

(* What getExpired() erases from activeTimers_. *)
ExpiredKeys == {Key(e.addr) : e \in batch'}

(* readTimerfd() and getExpired().  A timerfd that was set meanwhile is not *)
(* readable any more: read() returns EAGAIN, and nobody minds.              *)
GetExpired ==
  /\ pc = "wait" /\ reported
  /\ reported' = FALSE
  /\ armed' = (armed /\ left # 0)
  /\ pc' = "run"
  /\ firedAt' = wall
  /\ batch' = {e \in timers : e.when <= wall}
  /\ toRun' = batch'
  /\ canceling' = {}
  /\ timers' = timers \ batch'
  /\ active' = active \ ExpiredKeys
  /\ Asserts(\A e \in batch' : Key(e.addr) \in active)
  /\ UNCHANGED <<clockVars, heap, created, left, callVars, ids, histVars>>

(* it.second->run(), in the order of the set. *)
RunTimer ==
  /\ pc = "run"
  /\ \E e \in toRun :
       /\ \A f \in toRun : e.when < f.when \/ (e.when = f.when /\ e.addr <= f.addr)
       /\ toRun' = toRun \ {e}
       /\ IF heap[e.addr] = Null
          THEN failed' = TRUE /\ UNCHANGED ran
          ELSE ran' = ran \union {heap[e.addr].seq} /\ UNCHANGED failed
  /\ UNCHANGED <<clockVars, queueVars, created, pc, reported, batch, firedAt, fdVars, callVars,
                 ids, cancelled, repeating, misread>>

(* Mutant: cancelingTimers_ is not looked at. *)
StartsOverAlways(a) == heap[a].interval > 0

(* Mutant: repeating timers are not restarted. *)
StartsOverNever(a) == FALSE

(* A repeating timer that was not cancelled while the batch ran. *)
StartsOver(a) == heap[a].interval > 0 /\ Key(a) \notin canceling

(* Mutant: the fd is not set again. *)
RearmNothing == UNCHANGED fdVars

(* The end of reset(): the fd is set for the earliest timer there is. *)
Rearm ==
  IF timers' = {}
  THEN UNCHANGED fdVars
  ELSE /\ armed' = TRUE
       /\ \E e \in timers' : (\A f \in timers' : e.when <= f.when) /\ left' = Remaining(e.when)

(* reset(): timers that start over go back to the queue, the others are    *)
(* deleted.                                                                *)
Reset ==
  /\ pc = "run"
  /\ toRun = {}
  /\ LET done == {e.addr : e \in batch}
         kept == {a \in done : StartsOver(a)}
         next(a) == firedAt + heap[a].interval
         again == {[when |-> next(a), addr |-> a] : a \in kept}
         keys == {Key(a) : a \in kept}
     IN /\ heap' = [a \in Addresses |->
                      IF a \in kept THEN [heap[a] EXCEPT !.when = next(a)]
                      ELSE IF a \in done THEN Null ELSE heap[a]]
        /\ timers' = timers \union again
        /\ active' = active \union keys
        /\ Asserts(again \intersect timers = {} /\ keys \intersect active = {})
  /\ Rearm
  /\ pc' = "wait"
  /\ batch' = {}
  /\ firedAt' = 0
  /\ UNCHANGED <<clockVars, canceling, created, reported, toRun, callVars, ids, histVars>>

-----------------------------------------------------------------------------
(* Other threads: addTimer() hands the timer over, then reads its number. *)

CallerAddTimer(c, a, d, i) ==
  /\ callerPc[c] = "idle"
  /\ Len(functors) < MaxCalls
  /\ newTimer(a, d, i)
  /\ functors' = Append(functors, [op |-> "add", addr |-> a])
  /\ adding' = [adding EXCEPT ![c] = [addr |-> a, seq |-> created + 1]]
  /\ callerPc' = [callerPc EXCEPT ![c] = "read"]
  /\ UNCHANGED <<clockVars, timers, active, canceling, batchVars, fdVars, ids, failed,
                 ran, cancelled, misread>>

(* return TimerId(timer, timer->sequence()): the timer may be gone by now. *)
CallerReadSequence(c) ==
  /\ callerPc[c] = "read"
  /\ LET a == adding[c].addr
     IN \E s \in IF heap[a] = Null THEN 0 .. created ELSE {heap[a].seq} :
          /\ ids' = ids \union {[addr |-> a, seq |-> s, of |-> adding[c].seq]}
          /\ misread' = (misread \/ s # adding[c].seq)
  /\ callerPc' = [callerPc EXCEPT ![c] = "idle"]
  /\ adding' = [adding EXCEPT ![c] = Null]
  /\ UNCHANGED <<clockVars, queueVars, created, batchVars, fdVars, functors, failed,
                 ran, cancelled, repeating>>

CallerCancel(c, id) ==
  /\ callerPc[c] = "idle"
  /\ Len(functors) < MaxCalls
  /\ functors' = Append(functors, [op |-> "cancel", id |-> id])
  /\ UNCHANGED <<clockVars, queueVars, created, batchVars, fdVars, callerPc, adding, ids,
                 failed, histVars>>

-----------------------------------------------------------------------------
(* The clocks. *)

(* At the end of modelled time the wall clock stands still, and the timerfd *)
(* goes on counting.                                                        *)
Tick ==
  /\ wall < MaxTime \/ left > 0
  /\ wall' = IF wall < MaxTime THEN wall + 1 ELSE wall
  /\ left' = IF left > 0 THEN left - 1 ELSE 0
  /\ UNCHANGED <<steps, queueVars, created, batchVars, armed, callVars, ids, failed, histVars>>

(* Somebody sets the wall clock; the timerfd does not notice. *)
SetClock ==
  /\ steps < MaxSteps
  /\ steps' = steps + 1
  /\ wall' \in 1 .. MaxTime
  /\ UNCHANGED <<queueVars, created, batchVars, fdVars, callVars, ids, failed, histVars>>

-----------------------------------------------------------------------------
HandleRead == GetExpired \/ RunTimer \/ Reset
RunFunctor == AddFunctor \/ CancelFunctor

LoopCall ==
  \/ \E a \in Addresses, d \in Delays, i \in Intervals : LoopAddTimer(a, d, i)
  \/ \E id \in ids : LoopCancel(id)

CallerStep(c) ==
  \/ \E a \in Addresses, d \in Delays, i \in Intervals : CallerAddTimer(c, a, d, i)
  \/ CallerReadSequence(c)
  \/ \E id \in ids : CallerCancel(c, id)

Next ==
  /\ ~failed
  /\ \/ Poll \/ HandleRead \/ RunFunctor \/ LoopCall
     \/ \E c \in Callers : CallerStep(c)
     \/ Tick \/ SetClock

Safety == Init /\ [][Next]_vars

(* Each round of the loop handles a readable timerfd and runs the functors *)
(* that wait; time goes on.                                                *)
Fairness ==
  /\ WF_vars(~failed /\ Poll)
  /\ WF_vars(~failed /\ HandleRead)
  /\ WF_vars(~failed /\ RunFunctor)
  /\ WF_vars(~failed /\ Tick)

Spec == Safety /\ Fairness

-----------------------------------------------------------------------------
(***************************************************************************)
(* The two sets of the queue never disagree, whoever adds and cancels from *)
(* whichever callback: no assert fails and no deleted timer is run.        *)
(***************************************************************************)
NoAssertFails == ~failed

(***************************************************************************)
(* While timers wait, the timerfd is set, and as long as nobody has set    *)
(* the wall clock it is readable when the earliest of them is due, or one  *)
(* shortest delay later.                                                   *)
(***************************************************************************)
ArmedForEarliest ==
  pc = "wait" /\ timers # {} =>
    /\ armed
    /\ steps = 0 => \A e \in timers : left <= 1 \/ left <= e.when - wall

(***************************************************************************)
(* A timer leaves the queue for one of two reasons only: it was cancelled  *)
(* by its own id, or it ran and does not repeat.                           *)
(***************************************************************************)
IsActive(s) == \E k \in active : k.seq = s
IsQueued(s) == \E i \in DOMAIN functors : functors[i].op = "add" /\ heap[functors[i].addr].seq = s
IsExpired(s) == \E e \in batch : heap[e.addr].seq = s

TimersKept ==
  ~misread =>
    \A s \in 1 .. created :
      \/ IsActive(s) \/ IsQueued(s) \/ IsExpired(s)
      \/ s \in cancelled
      \/ s \in ran /\ s \notin repeating

(***************************************************************************)
(* A cancelled timer is not started over: one cancelled by a callback of   *)
(* the batch it expired in, its own included, stays out of the queue.  A   *)
(* timer that does not repeat is not in the queue again once it ran.       *)
(***************************************************************************)
GoneStaysGone ==
  ~misread => \A k \in active : k.seq \notin cancelled /\ (k.seq \in ran => k.seq \in repeating)

(* A timer that waits expires or is cancelled, even if its time came while *)
(* the timerfd was not set for it or the clock was set back.               *)
IsDue(s) == \E k \in active : k.seq = s /\ heap[k.addr].when <= MaxTime

TimersExpire == \A s \in Sequences : IsDue(s) ~> ~IsDue(s)

-----------------------------------------------------------------------------
(***************************************************************************)
(* What makes NoAssertFails inductive: a Timer has one owner at a time.    *)
(* Its address is in both sets of the queue, or in the batch that runs, or *)
(* once in the functors that wait, and it is not deleted meanwhile.        *)
(***************************************************************************)
Adds(i) == functors[i].op = "add"

QueueCoherent ==
  /\ \A k \in active : heap[k.addr] # Null /\ k = Key(k.addr) /\ Entry(k.addr) \in timers
  /\ \A e \in timers : e = Entry(e.addr) /\ Key(e.addr) \in active

BatchCoherent ==
  \A e \in batch : heap[e.addr] # Null /\ e = Entry(e.addr) /\ Key(e.addr) \notin active

FunctorsCoherent ==
  \A i \in DOMAIN functors : Adds(i) =>
    /\ heap[functors[i].addr] # Null
    /\ Key(functors[i].addr) \notin active
    /\ \A e \in batch : e.addr # functors[i].addr
    /\ \A j \in DOMAIN functors : Adds(j) /\ functors[j].addr = functors[i].addr => i = j

Coherent == QueueCoherent /\ BatchCoherent /\ FunctorsCoherent

=============================================================================
