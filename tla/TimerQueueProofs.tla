-------------------------- MODULE TimerQueueProofs --------------------------
(***************************************************************************)
(* For any threads, addresses, delays and bounds, the two sets of the      *)
(* timer queue agree and no deleted timer is used: no assert of            *)
(* net_timer_queue.cpp fails.  The timerfd is set for the earliest timer,  *)
(* and none is forgotten or revived.                                       *)
(***************************************************************************)
EXTENDS TimerQueue, FiniteSetTheorems, FunctionTheorems, SequenceTheorems, TLAPS

(* Two sets with the same addresses, once each, have the same size. *)
LEMMA SameSize ==
  ASSUME NEW K, NEW E,
         \A k \in K : k.addr \in Addresses /\ \E e \in E : e.addr = k.addr,
         \A e \in E : \E k \in K : e.addr = k.addr,
         \A k, l \in K : k.addr = l.addr => k = l,
         \A e, f \in E : e.addr = f.addr => e = f
  PROVE  Cardinality(E) = Cardinality(K)
<1> DEFINE f == [k \in K |-> CHOOSE e \in E : e.addr = k.addr]
           g == [k \in K |-> k.addr]
<1>1. \A k \in K : f[k] \in E /\ f[k].addr = k.addr
  OBVIOUS
<1>2. f \in [K -> E]
  BY <1>1
<1>3. \A k, l \in K : f[k] = f[l] => k = l
  BY <1>1
<1>4. \A e \in E : \E k \in K : f[k] = e
  BY <1>1
<1>5. f \in Bijection(K, E)
  BY <1>2, <1>3, <1>4, Fun_IsBij
<1>6. g \in Injection(K, Addresses)
  <2>1. g \in [K -> Addresses] /\ \A k, l \in K : g[k] = g[l] => k = l
    OBVIOUS
  <2>2. QED
    BY <2>1, Fun_IsInj
<1>7. IsFiniteSet(K)
  BY <1>6, FS_Injection, TimerAssumption
<1>8. QED
  BY <1>5, <1>7, FS_Bijection, Fun_ExistsBij

(* The assert that the two sets have the same size, before a step ... *)
LEMMA SizesAgree ==
  ASSUME active \in SUBSET Keys, QueueCoherent
  PROVE  Cardinality(timers) = Cardinality(active)
<1>1. \A k \in active : k.addr \in Addresses /\ \E e \in timers : e.addr = k.addr
  BY DEF QueueCoherent, Entry, Keys
<1>2. \A e \in timers : \E k \in active : e.addr = k.addr
  BY DEF QueueCoherent, Key
<1>3. \A k, l \in active : k.addr = l.addr => k = l
  BY DEF QueueCoherent, Key
<1>4. \A e, f \in timers : e.addr = f.addr => e = f
  BY DEF QueueCoherent, Entry
<1>5. QED
  BY <1>1, <1>2, <1>3, <1>4, SameSize

(* ... and after it. *)
LEMMA SizesAgreeNext ==
  ASSUME active' \in SUBSET Keys, QueueCoherent'
  PROVE  Cardinality(timers') = Cardinality(active')
<1>1. \A k \in active' : k.addr \in Addresses /\ \E e \in timers' : e.addr = k.addr
  BY DEF QueueCoherent, Entry, Keys
<1>2. \A e \in timers' : \E k \in active' : e.addr = k.addr
  BY DEF QueueCoherent, Key
<1>3. \A k, l \in active' : k.addr = l.addr => k = l
  BY DEF QueueCoherent, Key
<1>4. \A e, f \in timers' : e.addr = f.addr => e = f
  BY DEF QueueCoherent, Entry
<1>5. QED
  BY <1>1, <1>2, <1>3, <1>4, SameSize

-----------------------------------------------------------------------------
(* Types.  First the pieces that several actions share. *)

LEMMA RemainingType ==
  ASSUME NEW when \in Nat, wall \in Nat
  PROVE  Remaining(when) \in Nat
BY DEF Remaining

LEMMA InsertTypes ==
  ASSUME TypeOK, NEW a \in Addresses, NEW when \in Nat, NEW seq \in Sequences,
         insertTimer(a, when, seq)
  PROVE  /\ timers' \in SUBSET Entries
         /\ active' \in SUBSET Keys
         /\ armed' \in BOOLEAN
         /\ left' \in Nat
         /\ failed' \in BOOLEAN
<1>1. wall \in Nat
  BY TimerAssumption DEF TypeOK
<1>2. Remaining(when) \in Nat
  BY <1>1, RemainingType
<1>3. timers' \in SUBSET Entries /\ active' \in SUBSET Keys
  BY DEF TypeOK, insertTimer, Entries, Keys, Sequences
<1>4. armed' \in BOOLEAN /\ left' \in Nat
  BY <1>2 DEF TypeOK, insertTimer, fdVars
<1>5. failed' \in BOOLEAN
  BY DEF insertTimer, Asserts
<1>6. QED
  BY <1>3, <1>4, <1>5

LEMMA CancelTypes ==
  ASSUME TypeOK, NEW id \in TimerIds, cancelTimer(id)
  PROVE  /\ heap' \in [Addresses -> Timers \union {Null}]
         /\ timers' \in SUBSET Entries
         /\ active' \in SUBSET Keys
         /\ canceling' \in SUBSET Keys
         /\ failed' \in BOOLEAN
         /\ cancelled' \in SUBSET Sequences
<1>1. id.addr \in Addresses /\ id.seq \in 0 .. MaxTimers /\ id.of \in Sequences
  BY DEF TimerIds
<1>2. heap' \in [Addresses -> Timers \union {Null}]
  BY <1>1 DEF TypeOK, cancelTimer
<1>3. timers' \in SUBSET Entries /\ active' \in SUBSET Keys /\ canceling' \in SUBSET Keys
  <2>1. [addr |-> id.addr, seq |-> id.seq] \in Keys
    BY <1>1 DEF Keys
  <2>2. timers' \in SUBSET Entries /\ active' \in SUBSET Keys
    BY DEF TypeOK, cancelTimer
  <2>3. canceling' \in SUBSET Keys
    BY <2>1 DEF TypeOK, cancelTimer
  <2>4. QED
    BY <2>2, <2>3
<1>4. failed' \in BOOLEAN
  BY DEF cancelTimer, Asserts
<1>5. cancelled' \in SUBSET Sequences
  BY <1>1 DEF TypeOK, cancelTimer
<1>6. QED
  BY <1>2, <1>3, <1>4, <1>5

LEMMA NewTypes ==
  ASSUME TypeOK, NEW a \in Addresses, NEW d \in Delays, NEW i \in Intervals, newTimer(a, d, i)
  PROVE  /\ created' \in 0 .. MaxTimers
         /\ created + 1 \in Sequences
         /\ wall + d \in Nat
         /\ heap' \in [Addresses -> Timers \union {Null}]
         /\ repeating' \in SUBSET Sequences
<1>1. created' \in 0 .. MaxTimers /\ created + 1 \in Sequences
  BY TimerAssumption DEF TypeOK, newTimer, Sequences
<1>2. wall + d \in Nat
  BY TimerAssumption DEF TypeOK
<1>3. [seq |-> created + 1, when |-> wall + d, interval |-> i] \in Timers
  BY <1>1, <1>2 DEF Timers
<1>4. QED
  BY <1>1, <1>2, <1>3 DEF TypeOK, newTimer

(* What an empty task queue, a shorter and a longer one have in common. *)
LEMMA FunctorTypes ==
  ASSUME functors \in Seq(Functors)
  PROVE  /\ functors # <<>> => Head(functors) \in Functors /\ Tail(functors) \in Seq(Functors)
         /\ \A f \in Functors : Append(functors, f) \in Seq(Functors)
BY AppendProperties

LEMMA LoopTypes ==
  ASSUME TypeOK, LoopCall
  PROVE  TypeOK'
<1>1. ASSUME NEW a \in Addresses, NEW d \in Delays, NEW i \in Intervals, LoopAddTimer(a, d, i)
      PROVE  TypeOK'
  <2>1. newTimer(a, d, i) /\ insertTimer(a, wall + d, created + 1)
    BY <1>1 DEF LoopAddTimer
  <2>2. /\ created' \in 0 .. MaxTimers /\ created + 1 \in Sequences /\ wall + d \in Nat
        /\ heap' \in [Addresses -> Timers \union {Null}] /\ repeating' \in SUBSET Sequences
    BY <2>1, NewTypes
  <2>3. /\ timers' \in SUBSET Entries /\ active' \in SUBSET Keys
        /\ armed' \in BOOLEAN /\ left' \in Nat /\ failed' \in BOOLEAN
    BY <2>1, <2>2, InsertTypes
  <2>4. ids' \in SUBSET TimerIds
    BY <1>1, <2>2 DEF LoopAddTimer, TypeOK, TimerIds, Sequences
  <2>5. QED
    BY <1>1, <2>2, <2>3, <2>4 DEF LoopAddTimer, TypeOK, clockVars, batchVars, callVars
<1>2. ASSUME NEW id \in ids, LoopCancel(id)
      PROVE  TypeOK'
  <2>1. id \in TimerIds /\ cancelTimer(id)
    BY <1>2 DEF LoopCancel, TypeOK
  <2>2. /\ heap' \in [Addresses -> Timers \union {Null}]
        /\ timers' \in SUBSET Entries /\ active' \in SUBSET Keys /\ canceling' \in SUBSET Keys
        /\ failed' \in BOOLEAN /\ cancelled' \in SUBSET Sequences
    BY <2>1, CancelTypes
  <2>3. QED
    BY <1>2, <2>2 DEF LoopCancel, TypeOK, clockVars, batchVars, fdVars, callVars
<1>3. QED
  BY <1>1, <1>2 DEF LoopCall

(* A functor that adds finds its timer where it was allocated. *)
LEMMA FunctorsRunTypes ==
  ASSUME TypeOK, Coherent, RunFunctor
  PROVE  TypeOK'
<1>1. functors # <<>> /\ Head(functors) \in Functors /\ functors' \in Seq(Functors)
  BY FunctorTypes DEF TypeOK, RunFunctor, AddFunctor, CancelFunctor
<1>2. CASE AddFunctor
  <2> DEFINE a == Head(functors).addr
  <2>1. a \in Addresses
    BY <1>1, <1>2 DEF AddFunctor, Functors
  <2>2. heap[a] # Null
    BY <1>1, <1>2 DEF AddFunctor, Coherent, FunctorsCoherent, Adds, TypeOK
  <2>3. heap[a].when \in Nat /\ heap[a].seq \in Sequences
    BY <2>1, <2>2 DEF TypeOK, Timers
  <2>4. insertTimer(a, heap[a].when, heap[a].seq)
    BY <1>2 DEF AddFunctor
  <2>5. /\ timers' \in SUBSET Entries /\ active' \in SUBSET Keys
        /\ armed' \in BOOLEAN /\ left' \in Nat /\ failed' \in BOOLEAN
    BY <2>1, <2>3, <2>4, InsertTypes
  <2>6. QED
    BY <1>1, <1>2, <2>5 DEF AddFunctor, TypeOK, clockVars, batchVars, histVars
<1>3. CASE CancelFunctor
  <2>1. Head(functors).id \in TimerIds
    BY <1>1, <1>3 DEF CancelFunctor, Functors
  <2>2. cancelTimer(Head(functors).id)
    BY <1>3 DEF CancelFunctor
  <2>3. /\ heap' \in [Addresses -> Timers \union {Null}]
        /\ timers' \in SUBSET Entries /\ active' \in SUBSET Keys /\ canceling' \in SUBSET Keys
        /\ failed' \in BOOLEAN /\ cancelled' \in SUBSET Sequences
    BY <2>1, <2>2, CancelTypes
  <2>4. QED
    BY <1>1, <1>3, <2>3 DEF CancelFunctor, TypeOK, clockVars, batchVars, fdVars
<1>4. QED
  BY <1>2, <1>3 DEF RunFunctor

(* The batch is a part of the queue, and goes back to it or is deleted. *)
LEMMA BatchTypes ==
  ASSUME TypeOK, Coherent, HandleRead
  PROVE  TypeOK'
<1>1. CASE GetExpired
  <2>1. batch' \in SUBSET timers /\ timers' \in SUBSET timers /\ active' \in SUBSET active
    BY <1>1 DEF GetExpired
  <2>2. failed' \in BOOLEAN
    BY <1>1 DEF GetExpired, Asserts
  <2>3. /\ batch' \in SUBSET Entries /\ toRun' \in SUBSET batch'
        /\ timers' \in SUBSET Entries /\ active' \in SUBSET Keys /\ canceling' \in SUBSET Keys
    BY <1>1, <2>1 DEF GetExpired, TypeOK
  <2>4. /\ pc' = "run" /\ reported' \in BOOLEAN /\ firedAt' \in 0 .. MaxTime
        /\ armed' \in BOOLEAN /\ left' \in Nat
    <3>1. wall \in 0 .. MaxTime
      BY TimerAssumption DEF TypeOK
    <3>2. QED
      BY <1>1, <3>1 DEF GetExpired, TypeOK
  <2>5. QED
    BY <1>1, <2>2, <2>3, <2>4 DEF GetExpired, TypeOK, clockVars, callVars, histVars
<1>2. CASE RunTimer
  <2>1. PICK e \in toRun : /\ toRun' = toRun \ {e}
                           /\ IF heap[e.addr] = Null
                              THEN failed' = TRUE /\ UNCHANGED ran
                              ELSE ran' = ran \union {heap[e.addr].seq} /\ UNCHANGED failed
    BY <1>2 DEF RunTimer
  <2>2. e.addr \in Addresses
    BY DEF TypeOK, Entries
  <2>3. ran' \in SUBSET Sequences /\ failed' \in BOOLEAN
    <3>1. heap[e.addr] # Null => heap[e.addr].seq \in Sequences
      BY <2>2 DEF TypeOK, Timers
    <3>2. QED
      BY <2>1, <3>1 DEF TypeOK
  <2>4. toRun' \in SUBSET batch
    BY <2>1 DEF TypeOK
  <2>5. QED
    BY <1>2, <2>3, <2>4 DEF RunTimer, TypeOK, clockVars, queueVars, fdVars, callVars
<1>3. CASE Reset
  <2> DEFINE done == {e.addr : e \in batch}
             kept == {a \in done : StartsOver(a)}
             next(a) == firedAt + heap[a].interval
  <2>1. \A a \in done : a \in Addresses /\ heap[a] \in Timers
    BY DEF TypeOK, Entries, Coherent, BatchCoherent
  <2>2. \A a \in kept : next(a) \in Nat /\ [heap[a] EXCEPT !.when = next(a)] \in Timers
    <3>1. \A a \in done : heap[a].interval \in Nat
      BY <2>1, TimerAssumption DEF Timers
    <3>2. firedAt \in Nat
      BY TimerAssumption DEF TypeOK
    <3>3. \A a \in done : next(a) \in Nat
      BY <3>1, <3>2
    <3>4. QED
      BY <2>1, <3>3 DEF Timers
  <2>3. heap' = [a \in Addresses |->
                   IF a \in kept THEN [heap[a] EXCEPT !.when = next(a)]
                   ELSE IF a \in done THEN Null ELSE heap[a]]
    BY <1>3 DEF Reset
  <2>4. heap' \in [Addresses -> Timers \union {Null}]
    BY <2>2, <2>3 DEF TypeOK
  <2>5. timers' = timers \union {[when |-> next(a), addr |-> a] : a \in kept}
    BY <1>3 DEF Reset
  <2>6. timers' \in SUBSET Entries
    <3>1. \A a \in kept : [when |-> next(a), addr |-> a] \in Entries
      BY <2>1, <2>2 DEF Entries
    <3>2. timers \in SUBSET Entries
      BY DEF TypeOK
    <3>3. QED
      BY <2>5, <3>1, <3>2
  <2>7. active' = active \union {Key(a) : a \in kept}
    BY <1>3 DEF Reset
  <2>8. \A a \in kept : Key(a) \in Keys
    BY <2>1 DEF Key, Keys, Timers, Sequences
  <2>9. active' \in SUBSET Keys
    BY <2>7, <2>8 DEF TypeOK
  <2>10. failed' \in BOOLEAN
    BY <1>3 DEF Reset, Asserts
  <2>11. armed' \in BOOLEAN /\ left' \in Nat
    <3>1. wall \in Nat
      BY TimerAssumption DEF TypeOK
    <3>2. \A e \in timers' : Remaining(e.when) \in Nat
      BY <2>6, <3>1, RemainingType DEF Entries
    <3>3. QED
      BY <1>3, <3>2 DEF Reset, Rearm, TypeOK, fdVars
  <2>12. /\ batch' = {} /\ toRun' = {} /\ pc' = "wait" /\ firedAt' \in 0 .. MaxTime
         /\ UNCHANGED <<clockVars, canceling, created, reported, callVars, ids, histVars>>
    BY <1>3, TimerAssumption DEF Reset
  <2>13. QED
    BY <2>4, <2>6, <2>9, <2>10, <2>11, <2>12 DEF TypeOK, clockVars, callVars, histVars
<1>4. QED
  BY <1>1, <1>2, <1>3 DEF HandleRead

LEMMA CallerTypes ==
  ASSUME TypeOK, NEW c \in Callers, CallerStep(c)
  PROVE  TypeOK'
<1>1. ASSUME NEW a \in Addresses, NEW d \in Delays, NEW i \in Intervals,
             CallerAddTimer(c, a, d, i)
      PROVE  TypeOK'
  <2>1. /\ created' \in 0 .. MaxTimers /\ created + 1 \in Sequences
        /\ heap' \in [Addresses -> Timers \union {Null}] /\ repeating' \in SUBSET Sequences
    BY <1>1, NewTypes DEF CallerAddTimer
  <2>2. functors' \in Seq(Functors)
    <3>1. [op |-> "add", addr |-> a] \in Functors
      BY DEF Functors
    <3>2. QED
      BY <1>1, <3>1, FunctorTypes DEF CallerAddTimer, TypeOK
  <2>3. /\ adding' \in [Callers -> [addr : Addresses, seq : Sequences] \union {Null}]
        /\ callerPc' \in [Callers -> {"idle", "read"}]
    BY <1>1, <2>1 DEF CallerAddTimer, TypeOK
  <2>4. \A b \in Callers : callerPc'[b] = "read" => adding'[b] # Null
    <3>1. [addr |-> a, seq |-> created + 1] # Null
      BY <2>1, TimerAssumption DEF Sequences
    <3>2. QED
      BY <1>1, <3>1 DEF CallerAddTimer, TypeOK
  <2>5. QED
    BY <1>1, <2>1, <2>2, <2>3, <2>4 DEF CallerAddTimer, TypeOK, clockVars, batchVars, fdVars
<1>2. CASE CallerReadSequence(c)
  <2>1. adding[c] \in [addr : Addresses, seq : Sequences]
    BY <1>2 DEF CallerReadSequence, TypeOK
  <2>2. ids' \in SUBSET TimerIds /\ misread' \in BOOLEAN
    <3> DEFINE a == adding[c].addr
    <3>1. PICK s \in IF heap[a] = Null THEN 0 .. created ELSE {heap[a].seq} :
            /\ ids' = ids \union {[addr |-> a, seq |-> s, of |-> adding[c].seq]}
            /\ misread' = (misread \/ s # adding[c].seq)
      BY <1>2 DEF CallerReadSequence
    <3>2. s \in 0 .. MaxTimers
      <4>1. heap[a] # Null => heap[a].seq \in Sequences
        BY <2>1 DEF TypeOK, Timers
      <4>2. created \in 0 .. MaxTimers
        BY DEF TypeOK
      <4>3. QED
        BY <3>1, <4>1, <4>2, TimerAssumption DEF Sequences
    <3>3. QED
      BY <2>1, <3>1, <3>2 DEF TypeOK, TimerIds
  <2>3. /\ adding' \in [Callers -> [addr : Addresses, seq : Sequences] \union {Null}]
        /\ callerPc' \in [Callers -> {"idle", "read"}]
        /\ \A b \in Callers : callerPc'[b] = "read" => adding'[b] # Null
    BY <1>2 DEF CallerReadSequence, TypeOK
  <2>4. QED
    BY <1>2, <2>2, <2>3 DEF CallerReadSequence, TypeOK, clockVars, queueVars, batchVars, fdVars
<1>3. ASSUME NEW id \in ids, CallerCancel(c, id)
      PROVE  TypeOK'
  <2>1. [op |-> "cancel", id |-> id] \in Functors
    BY DEF Functors, TypeOK
  <2>2. functors' \in Seq(Functors)
    BY <1>3, <2>1, FunctorTypes DEF CallerCancel, TypeOK
  <2>3. QED
    BY <1>3, <2>2 DEF CallerCancel, TypeOK, clockVars, queueVars, batchVars, fdVars, histVars
<1>4. QED
  BY <1>1, <1>2, <1>3 DEF CallerStep

LEMMA ClockTypes ==
  ASSUME TypeOK, Tick \/ SetClock
  PROVE  TypeOK'
<1>1. CASE Tick
  <2>1. wall' \in 1 .. MaxTime /\ left' \in Nat
    BY <1>1, TimerAssumption DEF Tick, TypeOK
  <2>2. QED
    BY <1>1, <2>1 DEF Tick, TypeOK, queueVars, batchVars, callVars, histVars
<1>2. CASE SetClock
  <2>1. steps' \in 0 .. MaxSteps
    BY <1>2, TimerAssumption DEF SetClock, TypeOK
  <2>2. QED
    BY <1>2, <2>1 DEF SetClock, TypeOK, queueVars, batchVars, fdVars, callVars, histVars
<1>3. QED
  BY <1>1, <1>2

LEMMA NextTypes ==
  ASSUME TypeOK, Coherent, [Next]_vars
  PROVE  TypeOK'
<1>1. CASE UNCHANGED vars
  BY <1>1 DEF TypeOK, vars, clockVars, queueVars, batchVars, fdVars, callVars, histVars
<1>2. CASE Poll
  BY <1>2 DEF Poll, TypeOK, clockVars, queueVars, fdVars, callVars, histVars
<1>3. QED
  BY <1>1, <1>2, LoopTypes, FunctorsRunTypes, BatchTypes, CallerTypes, ClockTypes DEF Next

-----------------------------------------------------------------------------
(* Owners.  First what adding and cancelling do to the queue. *)

(* A timer nobody had in the queue goes into both sets. *)
LEMMA InsertCoherent ==
  ASSUME QueueCoherent, NEW a \in Addresses, heap'[a] # Null,
         insertTimer(a, heap'[a].when, heap'[a].seq),
         \A b \in Addresses : b # a => heap'[b] = heap[b],
         \A k \in active : k.addr \in Addresses /\ k.addr # a
  PROVE  /\ QueueCoherent'
         /\ [when |-> heap'[a].when, addr |-> a] \notin timers
         /\ [addr |-> a, seq |-> heap'[a].seq] \notin active
         /\ Key(a)' = [addr |-> a, seq |-> heap'[a].seq]
         /\ active' = active \union {Key(a)'}
<1> DEFINE entry == [when |-> heap'[a].when, addr |-> a]
           key == [addr |-> a, seq |-> heap'[a].seq]
<1>1. Key(a)' = key /\ Entry(a)' = entry
  BY DEF Key, Entry
<1>2. timers' = timers \union {entry} /\ active' = active \union {key}
  BY DEF insertTimer
<1>3. \A e \in timers : e.addr # a /\ e.addr \in Addresses
  BY DEF QueueCoherent, Key
<1>4. \A b \in Addresses : b # a => Key(b)' = Key(b) /\ Entry(b)' = Entry(b)
  BY DEF Key, Entry
<1>5. QueueCoherent'
  BY <1>1, <1>2, <1>3, <1>4 DEF QueueCoherent
<1>6. QED
  BY <1>1, <1>2, <1>3, <1>5

(* A timer that is not in the queue has its key nowhere in it. *)
LEMMA NotActive ==
  ASSUME TypeOK, QueueCoherent, NEW a \in Addresses,
         heap[a] = Null \/ Key(a) \notin active
  PROVE  \A k \in active : k.addr \in Addresses /\ k.addr # a
BY DEF QueueCoherent, TypeOK, Keys

LEMMA CancelCoherent ==
  ASSUME TypeOK, Coherent, NEW id \in TimerIds, cancelTimer(id), batch' = batch
  PROVE  /\ QueueCoherent'
         /\ BatchCoherent'
         /\ \A a \in Addresses : heap[a] # Null /\ Key(a) \notin active =>
                                  heap'[a] # Null /\ Key(a)' \notin active'
         /\ ~failed' <=> /\ Cardinality(timers) = Cardinality(active)
                         /\ Cardinality(timers') = Cardinality(active')
<1> DEFINE key == [addr |-> id.addr, seq |-> id.seq]
<1>1. id.addr \in Addresses
  BY DEF TimerIds
<1>2. CASE key \in active
  <2>1. heap[id.addr] # Null /\ key = Key(id.addr) /\ Entry(id.addr) \in timers
    BY <1>2 DEF Coherent, QueueCoherent
  <2>2. /\ timers' = timers \ {Entry(id.addr)}
        /\ active' = active \ {key}
        /\ heap' = [heap EXCEPT ![id.addr] = Null]
        /\ Asserts(Entry(id.addr) \in timers)
    BY <1>2 DEF cancelTimer
  <2>3. \A b \in Addresses : b # id.addr => /\ heap'[b] = heap[b]
                                            /\ Key(b)' = Key(b) /\ Entry(b)' = Entry(b)
    BY <2>2 DEF TypeOK, Key, Entry
  <2>4. /\ \A k \in active' : k.addr \in Addresses /\ k.addr # id.addr
        /\ \A e \in timers' : e.addr \in Addresses /\ e.addr # id.addr
    BY <2>1, <2>2 DEF TypeOK, Keys, Entries, Coherent, QueueCoherent
  <2>5. QueueCoherent'
    <3>1. \A k \in active' : Entry(k.addr) \in timers'
      BY <2>1, <2>2, <2>4 DEF Coherent, QueueCoherent, Entry
    <3>2. \A e \in timers' : Key(e.addr) \in active'
      BY <2>1, <2>2, <2>4 DEF Coherent, QueueCoherent, Key
    <3>3. QED
      BY <2>2, <2>3, <2>4, <3>1, <3>2 DEF Coherent, QueueCoherent
  <2>6. BatchCoherent'
    <3>1. \A e \in batch : e.addr \in Addresses /\ e.addr # id.addr
      BY <1>2, <2>1 DEF TypeOK, Entries, Coherent, BatchCoherent
    <3>2. QED
      BY <2>2, <2>3, <3>1 DEF Coherent, BatchCoherent
  <2>7. \A a \in Addresses : heap[a] # Null /\ Key(a) \notin active =>
                               heap'[a] # Null /\ Key(a)' \notin active'
    BY <1>2, <2>1, <2>2, <2>3
  <2>8. QED
    BY <2>1, <2>2, <2>5, <2>6, <2>7 DEF Asserts
<1>3. CASE key \notin active
  <2>1. UNCHANGED <<timers, active, heap>> /\ Asserts(TRUE)
    BY <1>3 DEF cancelTimer
  <2>2. QED
    BY <2>1 DEF Coherent, QueueCoherent, BatchCoherent, Key, Entry, Asserts
<1>4. QED
  BY <1>2, <1>3

(* The functors behind the first keep their timers. *)
LEMMA TailCoherent ==
  ASSUME TypeOK, FunctorsCoherent, functors # <<>>, functors' = Tail(functors), batch' = batch,
         \A a \in Addresses :
           /\ heap[a] # Null /\ Key(a) \notin active
           /\ ~(Head(functors).op = "add" /\ Head(functors).addr = a)
           => heap'[a] # Null /\ Key(a)' \notin active'
  PROVE  FunctorsCoherent'
<1>1. /\ functors \in Seq(Functors) /\ Head(functors) = functors[1] /\ 1 \in DOMAIN functors
      /\ \A i \in DOMAIN functors' : i + 1 \in DOMAIN functors /\ functors'[i] = functors[i + 1]
      /\ \A i \in DOMAIN functors' : i \in Nat /\ i + 1 # 1
  BY DEF TypeOK
<1>2. SUFFICES ASSUME NEW i \in DOMAIN functors', functors'[i].op = "add"
               PROVE  /\ heap'[functors'[i].addr] # Null
                      /\ [addr |-> functors'[i].addr, seq |-> heap'[functors'[i].addr].seq]
                           \notin active'
                      /\ \A e \in batch' : e.addr # functors'[i].addr
                      /\ \A j \in DOMAIN functors' :
                           functors'[j].op = "add" /\ functors'[j].addr = functors'[i].addr => i = j
  BY DEF FunctorsCoherent, Adds, Key
<1>3. i + 1 \in DOMAIN functors /\ functors'[i] = functors[i + 1] /\ Adds(i + 1)
  BY <1>1, <1>2 DEF Adds
<1>4. PICK a \in Addresses : a = functors'[i].addr
  BY <1>1, <1>2, <1>3 DEF Functors
<1>5. /\ heap[a] # Null /\ Key(a) \notin active
      /\ \A e \in batch : e.addr # a
      /\ \A j \in DOMAIN functors : Adds(j) /\ functors[j].addr = a => i + 1 = j
  BY <1>3, <1>4 DEF FunctorsCoherent
<1>6. ~(Head(functors).op = "add" /\ Head(functors).addr = a)
  BY <1>1, <1>5 DEF Adds
<1>7. heap'[a] # Null /\ Key(a)' \notin active'
  BY <1>5, <1>6
<1>8. \A j \in DOMAIN functors' : functors'[j].op = "add" /\ functors'[j].addr = a => i = j
  BY <1>1, <1>5 DEF Adds
<1>9. QED
  BY <1>4, <1>5, <1>7, <1>8 DEF Key

(* The asserts of an insertion, then. *)
LEMMA InsertSucceeds ==
  ASSUME active \in SUBSET Keys, QueueCoherent, active' \in SUBSET Keys, QueueCoherent',
         NEW a, NEW when, NEW seq, insertTimer(a, when, seq),
         [when |-> when, addr |-> a] \notin timers, [addr |-> a, seq |-> seq] \notin active
  PROVE  ~failed'
BY SizesAgree, SizesAgreeNext DEF insertTimer, Asserts

-----------------------------------------------------------------------------
(* Owners, one step after the other. *)

LEMMA LoopCoherent ==
  ASSUME TypeOK, TypeOK', Coherent, LoopCall
  PROVE  Coherent' /\ ~failed'
<1>1. ASSUME NEW a \in Addresses, NEW d \in Delays, NEW i \in Intervals, LoopAddTimer(a, d, i)
      PROVE  Coherent' /\ ~failed'
  <2>1. /\ heap[a] = Null
        /\ heap' = [heap EXCEPT ![a] = [seq |-> created + 1, when |-> wall + d, interval |-> i]]
        /\ insertTimer(a, wall + d, created + 1)
        /\ UNCHANGED <<batchVars, callVars>>
    BY <1>1 DEF LoopAddTimer, newTimer
  <2>2. heap'[a] # Null /\ heap'[a].when = wall + d /\ heap'[a].seq = created + 1
    <3>1. created + 1 \in Nat /\ wall + d \in Nat /\ i \in Nat
      BY TimerAssumption DEF TypeOK
    <3>2. [seq |-> created + 1, when |-> wall + d, interval |-> i] # Null
      BY <3>1, TimerAssumption
    <3>3. QED
      BY <2>1, <3>2 DEF TypeOK
  <2>3. \A b \in Addresses : b # a => heap'[b] = heap[b]
    BY <2>1 DEF TypeOK
  <2>4. \A k \in active : k.addr \in Addresses /\ k.addr # a
    BY <2>1, NotActive DEF Coherent
  <2>5. /\ QueueCoherent'
        /\ [when |-> heap'[a].when, addr |-> a] \notin timers
        /\ [addr |-> a, seq |-> heap'[a].seq] \notin active
        /\ active' = active \union {Key(a)'}
    BY <2>1, <2>2, <2>3, <2>4, InsertCoherent DEF Coherent
  <2>6. ~failed'
    BY <2>1, <2>2, <2>5, InsertSucceeds DEF Coherent, TypeOK
  <2>7. \A b \in Addresses : heap[b] # Null /\ Key(b) \notin active =>
                               b # a /\ heap'[b] = heap[b] /\ Key(b)' \notin active'
    BY <2>1, <2>3, <2>5 DEF Key
  <2>8. BatchCoherent'
    BY <2>1, <2>7 DEF TypeOK, Entries, Coherent, BatchCoherent, batchVars, Entry
  <2>9. FunctorsCoherent'
    <3>1. \A j \in DOMAIN functors : Adds(j) => functors[j].addr \in Addresses
      BY DEF TypeOK, Functors, Adds
    <3>2. QED
      BY <2>1, <2>7, <3>1 DEF Coherent, FunctorsCoherent, Adds, callVars, batchVars, Key
  <2>10. QED
    BY <2>5, <2>6, <2>8, <2>9 DEF Coherent
<1>2. ASSUME NEW id \in ids, LoopCancel(id)
      PROVE  Coherent' /\ ~failed'
  <2>1. id \in TimerIds /\ cancelTimer(id) /\ batch' = batch /\ functors' = functors
    BY <1>2 DEF LoopCancel, TypeOK, batchVars, callVars
  <2>2. /\ QueueCoherent' /\ BatchCoherent'
        /\ \A a \in Addresses : heap[a] # Null /\ Key(a) \notin active =>
                                  heap'[a] # Null /\ Key(a)' \notin active'
        /\ ~failed' <=> /\ Cardinality(timers) = Cardinality(active)
                        /\ Cardinality(timers') = Cardinality(active')
    BY <2>1, CancelCoherent
  <2>3. FunctorsCoherent'
    <3>1. \A j \in DOMAIN functors : Adds(j) => functors[j].addr \in Addresses
      BY DEF TypeOK, Functors, Adds
    <3>2. QED
      BY <2>1, <2>2, <3>1 DEF Coherent, FunctorsCoherent, Adds, Key
  <2>4. QED
    BY <2>2, <2>3, SizesAgree, SizesAgreeNext DEF Coherent, TypeOK
<1>3. QED
  BY <1>1, <1>2 DEF LoopCall

LEMMA FunctorsRunCoherent ==
  ASSUME TypeOK, TypeOK', Coherent, RunFunctor
  PROVE  Coherent' /\ ~failed'
<1>1. /\ functors # <<>> /\ functors' = Tail(functors) /\ batch' = batch
      /\ Head(functors) = functors[1] /\ 1 \in DOMAIN functors /\ Head(functors) \in Functors
  BY DEF RunFunctor, AddFunctor, CancelFunctor, batchVars, TypeOK
<1>2. CASE AddFunctor
  <2> DEFINE a == Head(functors).addr
  <2>1. /\ a \in Addresses /\ heap[a] # Null /\ Key(a) \notin active
        /\ \A e \in batch : e.addr # a
    BY <1>1, <1>2 DEF AddFunctor, Functors, Coherent, FunctorsCoherent, Adds
  <2>2. insertTimer(a, heap'[a].when, heap'[a].seq) /\ heap' = heap
    BY <1>2 DEF AddFunctor
  <2>3. \A k \in active : k.addr \in Addresses /\ k.addr # a
    BY <2>1, NotActive DEF Coherent
  <2>4. /\ QueueCoherent'
        /\ [when |-> heap'[a].when, addr |-> a] \notin timers
        /\ [addr |-> a, seq |-> heap'[a].seq] \notin active
        /\ active' = active \union {[addr |-> a, seq |-> heap'[a].seq]}
    <3> HIDE DEF a
    <3>1. /\ QueueCoherent'
          /\ [when |-> heap'[a].when, addr |-> a] \notin timers
          /\ [addr |-> a, seq |-> heap'[a].seq] \notin active
      BY <2>1, <2>2, <2>3, InsertCoherent DEF Coherent
    <3>2. active' = active \union {[addr |-> a, seq |-> heap'[a].seq]}
      BY <2>2 DEF insertTimer
    <3>3. QED
      BY <3>1, <3>2
  <2>5. ~failed'
    BY <2>2, <2>4, InsertSucceeds DEF Coherent, TypeOK
  <2>6. \A b \in Addresses : heap[b] # Null /\ Key(b) \notin active /\ b # a =>
                               heap'[b] # Null /\ Key(b)' \notin active'
    BY <2>2, <2>4 DEF Key
  <2>7. BatchCoherent'
    BY <1>1, <2>1, <2>2, <2>6 DEF TypeOK, Entries, Coherent, BatchCoherent, Entry
  <2>8. \A b \in Addresses : heap[b] # Null /\ Key(b) \notin active /\
            ~(Head(functors).op = "add" /\ Head(functors).addr = b) =>
              heap'[b] # Null /\ Key(b)' \notin active'
    BY <1>2, <2>6 DEF AddFunctor
  <2>9. FunctorsCoherent'
    BY <1>1, <2>8, TailCoherent DEF Coherent
  <2>10. QED
    BY <2>4, <2>5, <2>7, <2>9 DEF Coherent
<1>3. CASE CancelFunctor
  <2>1. Head(functors).id \in TimerIds /\ cancelTimer(Head(functors).id)
    BY <1>1, <1>3 DEF CancelFunctor, Functors
  <2>2. /\ QueueCoherent' /\ BatchCoherent'
        /\ \A a \in Addresses : heap[a] # Null /\ Key(a) \notin active =>
                                  heap'[a] # Null /\ Key(a)' \notin active'
        /\ ~failed' <=> /\ Cardinality(timers) = Cardinality(active)
                        /\ Cardinality(timers') = Cardinality(active')
    BY <1>1, <2>1, CancelCoherent
  <2>3. \A a \in Addresses : heap[a] # Null /\ Key(a) \notin active /\
            ~(Head(functors).op = "add" /\ Head(functors).addr = a) =>
              heap'[a] # Null /\ Key(a)' \notin active'
    BY <2>2
  <2>4. FunctorsCoherent'
    BY <1>1, <2>3, TailCoherent DEF Coherent
  <2>5. QED
    BY <2>2, <2>4, SizesAgree, SizesAgreeNext DEF Coherent, TypeOK
<1>4. QED
  BY <1>2, <1>3 DEF RunFunctor

(* The batch leaves both sets together. *)
LEMMA ExpireCoherent ==
  ASSUME TypeOK, TypeOK', Coherent, GetExpired
  PROVE  Coherent' /\ ~failed'
<1>1. /\ batch' \in SUBSET timers /\ timers' = timers \ batch'
      /\ active' = active \ {Key(e.addr) : e \in batch'}
      /\ heap' = heap /\ functors' = functors /\ batch = {}
  BY DEF GetExpired, ExpiredKeys, callVars, TypeOK
<1>2. \A e \in timers : e.addr \in Addresses /\ e = Entry(e.addr) /\ Key(e.addr) \in active
  BY DEF TypeOK, Entries, Coherent, QueueCoherent
<1>3. \A k \in active : /\ k.addr \in Addresses /\ heap[k.addr] # Null
                        /\ k = Key(k.addr) /\ Entry(k.addr) \in timers
  BY DEF TypeOK, Keys, Coherent, QueueCoherent
<1>4. \A b : Entry(b)' = Entry(b) /\ Key(b)' = Key(b)
  BY <1>1 DEF Entry, Key
<1>5. QueueCoherent'
  <2>1. ASSUME NEW k \in active'
        PROVE  heap'[k.addr] # Null /\ k = Key(k.addr) /\ Entry(k.addr) \in timers'
    <3>1. k \in active /\ \A e \in batch' : k # Key(e.addr)
      BY <1>1, <2>1
    <3>2. Entry(k.addr) \notin batch'
      BY <1>3, <3>1 DEF Entry
    <3>3. QED
      BY <1>1, <1>3, <3>1, <3>2
  <2>2. ASSUME NEW e \in timers'
        PROVE  e = Entry(e.addr) /\ Key(e.addr) \in active'
    <3>1. e \in timers /\ e \notin batch'
      BY <1>1, <2>2
    <3>2. \A f \in batch' : f.addr # e.addr
      BY <1>1, <1>2, <3>1
    <3>3. \A f \in batch' : Key(f.addr) # Key(e.addr)
      BY <3>2 DEF Key
    <3>4. QED
      BY <1>1, <1>2, <3>1, <3>3
  <2>3. QED
    BY <1>1, <2>1, <2>2 DEF QueueCoherent, Entry, Key
<1>6. BatchCoherent'
  <2>1. ASSUME NEW e \in batch'
        PROVE  heap[e.addr] # Null /\ e = Entry(e.addr) /\ Key(e.addr) \notin active'
    <3>1. Key(e.addr) \in active
      BY <1>1, <1>2
    <3>2. heap[e.addr] # Null
      BY <1>3, <3>1 DEF Key
    <3>3. QED
      BY <1>1, <1>2, <3>2
  <2>2. QED
    BY <1>1, <2>1 DEF BatchCoherent, Entry, Key
<1>7. FunctorsCoherent'
  <2>1. ASSUME NEW i \in DOMAIN functors, Adds(i)
        PROVE  /\ heap[functors[i].addr] # Null
               /\ Key(functors[i].addr) \notin active'
               /\ \A e \in batch' : e.addr # functors[i].addr
               /\ \A j \in DOMAIN functors : Adds(j) /\ functors[j].addr = functors[i].addr => i = j
    <3>1. /\ heap[functors[i].addr] # Null /\ Key(functors[i].addr) \notin active
          /\ \A j \in DOMAIN functors : Adds(j) /\ functors[j].addr = functors[i].addr => i = j
      BY <2>1 DEF Coherent, FunctorsCoherent
    <3>2. \A e \in batch' : e.addr # functors[i].addr
      BY <1>1, <1>2, <3>1
    <3>3. QED
      BY <1>1, <3>1, <3>2
  <2>2. QED
    BY <1>1, <2>1 DEF FunctorsCoherent, Adds, Key
<1>8. ~failed'
  <2>1. \A e \in batch' : Key(e.addr) \in active
    BY <1>1, <1>2
  <2>2. Cardinality(timers) = Cardinality(active) /\ Cardinality(timers') = Cardinality(active')
    BY <1>5, SizesAgree, SizesAgreeNext DEF Coherent, TypeOK
  <2>3. QED
    BY <2>1, <2>2 DEF GetExpired, Asserts
<1>9. QED
  BY <1>5, <1>6, <1>7, <1>8 DEF Coherent

(* A timer of the batch is not deleted before it runs. *)
LEMMA RunCoherent ==
  ASSUME TypeOK, Coherent, ~failed, RunTimer
  PROVE  Coherent' /\ ~failed'
<1>1. UNCHANGED <<heap, timers, active, batch, functors>>
  BY DEF RunTimer, queueVars, callVars
<1>2. \A e \in toRun : heap[e.addr] # Null
  BY DEF TypeOK, Coherent, BatchCoherent
<1>3. ~failed'
  BY <1>2 DEF RunTimer
<1>4. Coherent'
  BY <1>1 DEF Coherent, QueueCoherent, BatchCoherent, FunctorsCoherent, Adds, Key, Entry
<1>5. QED
  BY <1>3, <1>4

(* A timer of the batch goes back to both sets, or is deleted from none. *)
LEMMA ResetCoherent ==
  ASSUME TypeOK, TypeOK', Coherent, Reset
  PROVE  Coherent' /\ ~failed'
<1> DEFINE done == {e.addr : e \in batch}
           kept == {a \in done : StartsOver(a)}
           next(a) == firedAt + heap[a].interval
           again == {[when |-> next(a), addr |-> a] : a \in kept}
           keys == {Key(a) : a \in kept}
<1>1. /\ heap' = [a \in Addresses |->
                    IF a \in kept THEN [heap[a] EXCEPT !.when = next(a)]
                    ELSE IF a \in done THEN Null ELSE heap[a]]
      /\ timers' = timers \union again /\ active' = active \union keys
      /\ Asserts(again \intersect timers = {} /\ keys \intersect active = {})
      /\ batch' = {} /\ functors' = functors
  BY DEF Reset, callVars
<1>2. \A a \in done : a \in Addresses /\ heap[a] # Null /\ Key(a) \notin active
  BY DEF Coherent, BatchCoherent, TypeOK, Entries
<1>3. \A a \in kept : /\ heap'[a] # Null
                      /\ heap'[a].when = next(a) /\ heap'[a].seq = heap[a].seq
  <2>1. SUFFICES ASSUME NEW a \in kept
                 PROVE  heap'[a] # Null /\ heap'[a].when = next(a) /\ heap'[a].seq = heap[a].seq
    OBVIOUS
  <2>2. a \in Addresses /\ heap[a] \in Timers
    BY <1>2, <2>1 DEF TypeOK
  <2>3. heap'[a] = [heap[a] EXCEPT !.when = next(a)] /\ next(a) \in Nat
    BY <1>1, <2>2, TimerAssumption DEF TypeOK, Timers
  <2>4. /\ heap'[a] \in [seq : Nat, when : Nat, interval : Nat]
        /\ heap'[a].when = next(a) /\ heap'[a].seq = heap[a].seq
    BY <2>2, <2>3, TimerAssumption DEF Timers, Sequences
  <2>5. QED
    BY <2>4, TimerAssumption
<1>4. \A a \in Addresses : a \notin done => heap'[a] = heap[a]
  BY <1>1
<1>5. \A k \in active : /\ k.addr \in Addresses /\ k.addr \notin done /\ heap[k.addr] # Null
                        /\ k = Key(k.addr) /\ Entry(k.addr) \in timers
  BY <1>2 DEF TypeOK, Keys, Coherent, QueueCoherent
<1>6. \A e \in timers : /\ e.addr \in Addresses /\ e.addr \notin done
                        /\ e = Entry(e.addr) /\ Key(e.addr) \in active
  BY <1>2 DEF TypeOK, Entries, Coherent, QueueCoherent
<1>7. QueueCoherent'
  <2>1. ASSUME NEW k \in active'
        PROVE  /\ heap'[k.addr] # Null /\ k = [addr |-> k.addr, seq |-> heap'[k.addr].seq]
               /\ [when |-> heap'[k.addr].when, addr |-> k.addr] \in timers'
    <3>1. CASE k \in active
      BY <1>1, <1>4, <1>5, <3>1 DEF Key, Entry
    <3>2. CASE k \in keys
      <4>1. PICK a \in kept : k = [addr |-> a, seq |-> heap[a].seq]
        BY <3>2 DEF Key
      <4>2. /\ k.addr = a /\ heap'[a] # Null
            /\ heap'[a].when = next(a) /\ heap'[a].seq = heap[a].seq
        BY <1>3, <4>1
      <4>3. [when |-> next(a), addr |-> a] \in timers'
        BY <1>1, <4>1
      <4> HIDE DEF next, kept
      <4>4. QED
        BY <4>1, <4>2, <4>3
    <3>3. QED
      BY <1>1, <2>1, <3>1, <3>2
  <2>2. ASSUME NEW e \in timers'
        PROVE  /\ e = [when |-> heap'[e.addr].when, addr |-> e.addr]
               /\ [addr |-> e.addr, seq |-> heap'[e.addr].seq] \in active'
    <3>1. CASE e \in timers
      BY <1>1, <1>4, <1>6, <3>1 DEF Key, Entry
    <3>2. CASE e \in again
      <4>1. PICK a \in kept : e = [when |-> next(a), addr |-> a]
        BY <3>2
      <4>2. e.addr = a /\ heap'[a].when = next(a) /\ heap'[a].seq = heap[a].seq
        BY <1>3, <4>1
      <4>3. [addr |-> a, seq |-> heap[a].seq] \in active'
        BY <1>1, <4>1 DEF Key
      <4> HIDE DEF next, kept
      <4>4. QED
        BY <4>1, <4>2, <4>3
    <3>3. QED
      BY <1>1, <2>2, <3>1, <3>2
  <2>3. QED
    BY <2>1, <2>2 DEF QueueCoherent, Entry, Key
<1>8. BatchCoherent'
  BY <1>1 DEF BatchCoherent
<1>9. FunctorsCoherent'
  <2>1. ASSUME NEW i \in DOMAIN functors, functors[i].op = "add"
        PROVE  /\ heap'[functors[i].addr] # Null
               /\ [addr |-> functors[i].addr, seq |-> heap'[functors[i].addr].seq] \notin active'
               /\ \A j \in DOMAIN functors :
                    functors[j].op = "add" /\ functors[j].addr = functors[i].addr => i = j
    <3>1. /\ functors[i].addr \in Addresses /\ functors[i].addr \notin done
          /\ heap[functors[i].addr] # Null /\ Key(functors[i].addr) \notin active
          /\ \A j \in DOMAIN functors :
               functors[j].op = "add" /\ functors[j].addr = functors[i].addr => i = j
      BY <2>1 DEF Coherent, FunctorsCoherent, Adds, TypeOK, Functors
    <3>2. \A k \in keys : k.addr # functors[i].addr
      BY <3>1 DEF Key
    <3>3. QED
      BY <1>1, <1>4, <3>1, <3>2 DEF Key
  <2>2. QED
    BY <1>1, <2>1 DEF FunctorsCoherent, Adds, Key
<1>10. ~failed'
  <2>1. again \intersect timers = {}
    BY <1>6
  <2>2. keys \intersect active = {}
    BY <1>2
  <2>3. Cardinality(timers) = Cardinality(active) /\ Cardinality(timers') = Cardinality(active')
    BY <1>7, SizesAgree, SizesAgreeNext DEF Coherent, TypeOK
  <2>4. QED
    BY <1>1, <2>1, <2>2, <2>3 DEF Asserts
<1>11. QED
  BY <1>7, <1>8, <1>9, <1>10 DEF Coherent

(* A timer handed over waits at an address nobody uses. *)
LEMMA CallerCoherent ==
  ASSUME TypeOK, TypeOK', Coherent, ~failed, NEW c \in Callers, CallerStep(c)
  PROVE  Coherent' /\ ~failed'
<1>1. ASSUME NEW a \in Addresses, NEW d \in Delays, NEW i \in Intervals,
             CallerAddTimer(c, a, d, i)
      PROVE  Coherent' /\ ~failed'
  <2>1. /\ heap[a] = Null /\ UNCHANGED <<timers, active, batch, failed>>
        /\ heap' = [heap EXCEPT ![a] = [seq |-> created + 1, when |-> wall + d, interval |-> i]]
        /\ functors' = Append(functors, [op |-> "add", addr |-> a])
    BY <1>1 DEF CallerAddTimer, newTimer, batchVars
  <2>2. heap'[a] # Null
    <3>1. created + 1 \in Nat /\ wall + d \in Nat /\ i \in Nat
      BY TimerAssumption DEF TypeOK
    <3>2. [seq |-> created + 1, when |-> wall + d, interval |-> i] # Null
      BY <3>1, TimerAssumption
    <3>3. QED
      BY <2>1, <3>2 DEF TypeOK
  <2>3. \A b \in Addresses : b # a => heap'[b] = heap[b]
    BY <2>1 DEF TypeOK
  <2>4. \A k \in active : k.addr \in Addresses /\ k.addr # a
    BY <2>1, NotActive DEF Coherent
  <2>5. \A e \in timers : e.addr \in Addresses /\ e.addr # a
    BY <2>4 DEF TypeOK, Entries, Coherent, QueueCoherent, Key
  <2>6. \A e \in batch : e.addr \in Addresses /\ e.addr # a
    BY <2>1 DEF TypeOK, Entries, Coherent, BatchCoherent
  <2>7. QueueCoherent'
    BY <2>1, <2>3, <2>4, <2>5 DEF Coherent, QueueCoherent, Key, Entry
  <2>8. BatchCoherent'
    BY <2>1, <2>3, <2>6 DEF Coherent, BatchCoherent, Key, Entry
  <2>9. /\ \A j \in DOMAIN functors : Adds(j) =>
              /\ functors[j].addr \in Addresses /\ functors[j].addr # a
              /\ heap[functors[j].addr] # Null /\ Key(functors[j].addr) \notin active
              /\ \A e \in batch : e.addr # functors[j].addr
              /\ \A l \in DOMAIN functors : Adds(l) /\ functors[l].addr = functors[j].addr => j = l
    BY <2>1 DEF Coherent, FunctorsCoherent, TypeOK, Functors, Adds
  <2>10. \A j \in DOMAIN functors' :
            \/ j \in DOMAIN functors /\ functors'[j] = functors[j]
            \/ j = Len(functors) + 1 /\ functors'[j] = [op |-> "add", addr |-> a]
    BY <2>1 DEF TypeOK
  <2>11. ASSUME NEW j \in DOMAIN functors', functors'[j].op = "add"
         PROVE  /\ heap'[functors'[j].addr] # Null
                /\ [addr |-> functors'[j].addr, seq |-> heap'[functors'[j].addr].seq] \notin active
                /\ \A e \in batch : e.addr # functors'[j].addr
                /\ \A l \in DOMAIN functors' :
                     functors'[l].op = "add" /\ functors'[l].addr = functors'[j].addr => j = l
    <3>1. CASE j \in DOMAIN functors /\ functors'[j] = functors[j]
      <4>1. /\ Adds(j) /\ functors'[j].addr = functors[j].addr
            /\ functors[j].addr \in Addresses /\ functors[j].addr # a
        BY <2>9, <2>11, <3>1 DEF Adds
      <4>2. /\ heap'[functors[j].addr] = heap[functors[j].addr]
            /\ heap[functors[j].addr] # Null /\ Key(functors[j].addr) \notin active
            /\ \A e \in batch : e.addr # functors[j].addr
        BY <2>3, <2>9, <3>1, <4>1
      <4>3. \A l \in DOMAIN functors' :
               functors'[l].op = "add" /\ functors'[l].addr = functors[j].addr => j = l
        BY <2>9, <2>10, <3>1, <4>1 DEF Adds
      <4>4. QED
        BY <4>1, <4>2, <4>3 DEF Key
    <3>2. CASE j = Len(functors) + 1 /\ functors'[j] = [op |-> "add", addr |-> a]
      BY <2>2, <2>4, <2>6, <2>9, <2>10, <3>2 DEF Adds
    <3>3. QED
      BY <2>10, <2>11, <3>1, <3>2
  <2>12. FunctorsCoherent'
    BY <2>1, <2>11 DEF FunctorsCoherent, Adds, Key
  <2>13. QED
    BY <2>1, <2>7, <2>8, <2>12 DEF Coherent
<1>2. ASSUME CallerReadSequence(c)
      PROVE  Coherent' /\ ~failed'
  BY <1>2 DEF CallerReadSequence, queueVars, batchVars, Coherent, QueueCoherent, BatchCoherent,
              FunctorsCoherent, Adds, Key, Entry
<1>3. ASSUME NEW id \in ids, CallerCancel(c, id)
      PROVE  Coherent' /\ ~failed'
  <2>1. /\ UNCHANGED <<heap, timers, active, batch, failed>>
        /\ functors' = Append(functors, [op |-> "cancel", id |-> id])
    BY <1>3 DEF CallerCancel, queueVars, batchVars
  <2>2. QueueCoherent' /\ BatchCoherent'
    BY <2>1 DEF Coherent, QueueCoherent, BatchCoherent, Key, Entry
  <2>3. \A j \in DOMAIN functors' :
           functors'[j].op = "add" => j \in DOMAIN functors /\ functors'[j] = functors[j]
    BY <2>1 DEF TypeOK
  <2>4. FunctorsCoherent'
    BY <2>1, <2>3 DEF Coherent, FunctorsCoherent, Adds, Key
  <2>5. QED
    BY <2>1, <2>2, <2>4 DEF Coherent
<1>4. QED
  BY <1>1, <1>2, <1>3 DEF CallerStep

LEMMA NextCoherent ==
  ASSUME TypeOK, TypeOK', Coherent, ~failed, [Next]_vars
  PROVE  Coherent' /\ ~failed'
<1>1. CASE UNCHANGED <<heap, timers, active, batch, functors, failed>>
  BY <1>1 DEF Coherent, QueueCoherent, BatchCoherent, FunctorsCoherent, Adds, Key, Entry
<1>2. CASE HandleRead
  BY <1>2, ExpireCoherent, RunCoherent, ResetCoherent DEF HandleRead
<1>3. CASE Poll \/ Tick \/ SetClock \/ UNCHANGED vars
  BY <1>1, <1>3 DEF Poll, Tick, SetClock, vars, queueVars, batchVars, callVars
<1>4. QED
  BY <1>2, <1>3, LoopCoherent, FunctorsRunCoherent, CallerCoherent DEF Next

-----------------------------------------------------------------------------
Inv == TypeOK /\ Coherent /\ ~failed

LEMMA Inductive == Safety => []Inv
<1>1. Init => Inv
  <2>1. ASSUME Init
        PROVE  TypeOK /\ Coherent /\ ~failed
    <3>1. TypeOK
      <4>1. /\ wall \in 1 .. MaxTime /\ steps \in 0 .. MaxSteps /\ created \in 0 .. MaxTimers
            /\ firedAt \in 0 .. MaxTime /\ left \in Nat
        BY <2>1, TimerAssumption DEF Init
      <4>2. /\ heap \in [Addresses -> Timers \union {Null}]
            /\ callerPc \in [Callers -> {"idle", "read"}]
            /\ adding \in [Callers -> [addr : Addresses, seq : Sequences] \union {Null}]
            /\ \A c \in Callers : callerPc[c] # "read"
        BY <2>1 DEF Init
      <4>3. functors \in Seq(Functors)
        BY <2>1 DEF Init
      <4>4. QED
        BY <2>1, <4>1, <4>2, <4>3 DEF Init, TypeOK
    <3>2. Coherent /\ ~failed
      BY <2>1 DEF Init, Coherent, QueueCoherent, BatchCoherent, FunctorsCoherent
    <3>3. QED
      BY <3>1, <3>2
  <2>2. QED
    BY <2>1 DEF Inv
<1>2. Inv /\ [Next]_vars => Inv'
  BY NextTypes, NextCoherent DEF Inv
<1>3. QED
  BY <1>1, <1>2, PTL DEF Safety

(* The variables keep their types, whatever the callbacks and threads do. *)
THEOREM TypeCorrect == Safety => []TypeOK
<1>1. Inv => TypeOK
  BY DEF Inv
<1>2. QED
  BY <1>1, Inductive, PTL

(* No assert of the timer queue fails and no deleted timer is run: timers_ *)
(* and activeTimers_ hold the same timers after every step.                *)
THEOREM AssertsHold == Safety => []NoAssertFails
<1>1. Inv => NoAssertFails
  BY DEF Inv, NoAssertFails
<1>2. QED
  BY <1>1, Inductive, PTL

-----------------------------------------------------------------------------
(***************************************************************************)
(* ArmedForEarliest is inductive: a timer that does not set the fd is not  *)
(* earlier than one that did, and time passes for both alike.              *)
(***************************************************************************)

(* One more timer, while the loop waits. *)
LEMMA InsertArms ==
  ASSUME TypeOK, ArmedForEarliest, NEW a \in Addresses, NEW when \in Nat, NEW seq \in Sequences,
         insertTimer(a, when, seq), UNCHANGED <<wall, steps, pc>>
  PROVE  ArmedForEarliest'
<1>1. wall \in Nat /\ left \in Nat /\ \A e \in timers : e.when \in Nat
  BY TimerAssumption DEF TypeOK, Entries
<1>2. timers' = timers \union {[when |-> when, addr |-> a]}
  BY DEF insertTimer
<1>3. CASE \A e \in timers : when < e.when
  <2>1. armed' = TRUE /\ left' = Remaining(when)
    BY <1>3 DEF insertTimer
  <2>2. left' <= 1 \/ left' <= when - wall
    BY <1>1, <2>1 DEF Remaining
  <2>3. left' \in Int
    BY <1>1, <2>1 DEF Remaining
  <2>4. \A e \in timers' : left' <= 1 \/ left' <= e.when - wall
    BY <1>1, <1>2, <1>3, <2>2, <2>3
  <2>5. QED
    BY <2>1, <2>4 DEF ArmedForEarliest
<1>4. CASE ~\A e \in timers : when < e.when
  <2>1. armed' = armed /\ left' = left
    BY <1>4 DEF insertTimer, fdVars
  <2>2. PICK e \in timers : e.when <= when
    BY <1>1, <1>4
  <2>3. QED
    BY <1>1, <1>2, <2>1, <2>2 DEF ArmedForEarliest
<1>5. QED
  BY <1>3, <1>4

(* No other step of the queue's users sets the fd or makes a timer earlier. *)
LEMMA CancelArms ==
  ASSUME ArmedForEarliest, NEW id, cancelTimer(id), UNCHANGED <<wall, steps, pc, armed, left>>
  PROVE  ArmedForEarliest'
<1>1. timers' \subseteq timers
  BY DEF cancelTimer
<1>2. QED
  BY <1>1 DEF ArmedForEarliest

(* reset() sets the fd for the earliest there is. *)
LEMMA ResetArms ==
  ASSUME TypeOK, TypeOK', Reset
  PROVE  ArmedForEarliest'
<1>1. Rearm /\ wall' = wall
  BY DEF Reset, clockVars
<1>2. wall \in Nat /\ left' \in Nat /\ \A e \in timers' : e.when \in Nat
  BY TimerAssumption DEF TypeOK, Entries
<1>3. SUFFICES ASSUME timers' # {} PROVE armed' /\ \A e \in timers' : left' <= 1 \/ left' <= e.when - wall'
  BY DEF ArmedForEarliest
<1>4. armed'
  BY <1>1, <1>3 DEF Rearm
<1>5. PICK e \in timers' : (\A f \in timers' : e.when <= f.when) /\ left' = Remaining(e.when)
  BY <1>1, <1>3 DEF Rearm
<1>6. left' <= 1 \/ left' <= e.when - wall
  BY <1>2, <1>5 DEF Remaining
<1>7. \A f \in timers' : left' <= 1 \/ left' <= f.when - wall
  BY <1>2, <1>5, <1>6
<1>8. QED
  BY <1>1, <1>4, <1>7

(* Both clocks go on together. *)
LEMMA ClockArms ==
  ASSUME TypeOK, TypeOK', ArmedForEarliest, Tick \/ SetClock
  PROVE  ArmedForEarliest'
<1>1. /\ wall \in Nat /\ wall' \in Nat /\ left \in Nat /\ steps \in Nat
      /\ \A e \in timers : e.when \in Nat
  BY TimerAssumption DEF TypeOK, Entries
<1>2. CASE Tick
  <2>1. /\ UNCHANGED <<steps, timers, pc, armed>>
        /\ wall' = wall \/ wall' = wall + 1
        /\ wall' = wall + 1 \/ left > 0
        /\ left' = IF left > 0 THEN left - 1 ELSE 0
    BY <1>2 DEF Tick, queueVars, batchVars
  <2>2. \A e \in timers : (left <= 1 \/ left <= e.when - wall) => (left' <= 1 \/ left' <= e.when - wall')
    BY <1>1, <2>1
  <2>3. QED
    BY <2>1, <2>2 DEF ArmedForEarliest
<1>3. CASE SetClock
  <2>1. UNCHANGED <<timers, pc, armed>> /\ steps' # 0
    BY <1>1, <1>3 DEF SetClock, queueVars, batchVars, fdVars
  <2>2. QED
    BY <2>1 DEF ArmedForEarliest
<1>4. QED
  BY <1>2, <1>3

(* ArmedForEarliest holds in every reachable state: while timers wait the  *)
(* timerfd is set, for the earliest of them if nobody set the wall clock.  *)
THEOREM ArmedInTime == Safety => []ArmedForEarliest
<1>1. Init => ArmedForEarliest
  BY DEF Init, ArmedForEarliest
<1>2. Inv /\ Inv' /\ ArmedForEarliest /\ [Next]_vars => ArmedForEarliest'
  <2> SUFFICES ASSUME TypeOK, TypeOK', Coherent, ArmedForEarliest, [Next]_vars
               PROVE  ArmedForEarliest'
    BY DEF Inv
  <2>1. CASE GetExpired \/ RunTimer
    BY <2>1 DEF GetExpired, RunTimer, clockVars, queueVars, fdVars, ArmedForEarliest, TypeOK
  <2>2. CASE AddFunctor
    <3> DEFINE a == Head(functors).addr
    <3>1. a \in Addresses /\ heap[a] # Null
      BY <2>2 DEF AddFunctor, TypeOK, Functors, Coherent, FunctorsCoherent, Adds
    <3>2. heap[a].when \in Nat /\ heap[a].seq \in Sequences
      BY <3>1 DEF TypeOK, Timers
    <3>3. insertTimer(a, heap[a].when, heap[a].seq) /\ UNCHANGED <<wall, steps, pc>>
      BY <2>2 DEF AddFunctor, clockVars, batchVars
    <3>4. QED
      BY <3>1, <3>2, <3>3, InsertArms
  <2>3. CASE CancelFunctor
    BY <2>3, CancelArms DEF CancelFunctor, clockVars, batchVars, fdVars
  <2>4. ASSUME NEW a \in Addresses, NEW d \in Delays, NEW i \in Intervals, LoopAddTimer(a, d, i)
        PROVE  ArmedForEarliest'
    BY <2>4, NewTypes, InsertArms DEF LoopAddTimer, clockVars, batchVars
  <2>5. ASSUME NEW id \in ids, LoopCancel(id)
        PROVE  ArmedForEarliest'
    BY <2>5, CancelArms DEF LoopCancel, clockVars, batchVars, fdVars
  <2>6. ASSUME NEW c \in Callers, CallerStep(c)
        PROVE  ArmedForEarliest'
    BY <2>6 DEF CallerStep, CallerAddTimer, CallerReadSequence, CallerCancel, clockVars, queueVars,
                batchVars, fdVars, ArmedForEarliest
  <2>7. CASE Poll \/ UNCHANGED vars
    BY <2>7 DEF Poll, vars, clockVars, queueVars, batchVars, fdVars, ArmedForEarliest
  <2>8. QED
    BY <2>1, <2>2, <2>3, <2>4, <2>5, <2>6, <2>7, ResetArms, ClockArms
       DEF Next, HandleRead, RunFunctor, LoopCall
<1>3. QED
  BY <1>1, <1>2, Inductive, PTL DEF Safety

-----------------------------------------------------------------------------
(***************************************************************************)
(* TimersKept and GoneStaysGone.  Both speak of sequence numbers; what is  *)
(* inductive speaks of addresses.  A timer that is held is in the queue,   *)
(* in a functor or in the batch; while the batch runs, a timer of it is in *)
(* cancelingTimers_ exactly if it was cancelled.                           *)
(***************************************************************************)
Held(a) == heap[a] # Null
Queued(a) == \E i \in DOMAIN functors : Adds(i) /\ functors[i].addr = a
Expiring(a) == \E e \in batch : e.addr = a

Placed == \A a \in Addresses : Held(a) => Key(a) \in active \/ Queued(a) \/ Expiring(a)

(* A sequence number is drawn once. *)
Numbered ==
  /\ \A a \in Addresses : Held(a) =>
       heap[a].seq <= created /\ (heap[a].interval > 0 <=> heap[a].seq \in repeating)
  /\ \A a, b \in Addresses : Held(a) /\ Held(b) /\ heap[a].seq = heap[b].seq => a = b
  /\ \A s \in ran \union repeating : s <= created

(* An id names the timer it was returned for. *)
Identified ==
  /\ \A id \in ids : id.seq = id.of
  /\ \A i \in DOMAIN functors : functors[i].op = "cancel" => functors[i].id.seq = functors[i].id.of

(* What became of the timers. *)
Alive(s) ==
  \/ \E a \in Addresses : Held(a) /\ heap[a].seq = s
  \/ s \in cancelled
  \/ s \in ran /\ s \notin repeating

Followed ==
  /\ \A s \in cancelled : s <= created
  /\ \A a \in Addresses : Held(a) =>
       /\ heap[a].seq \in cancelled => Expiring(a)
       /\ Expiring(a) => (Key(a) \in canceling <=> heap[a].seq \in cancelled)
       /\ heap[a].seq \in ran => Expiring(a) \/ heap[a].seq \in repeating
  /\ \A e \in batch \ toRun : heap[e.addr].seq \in ran
  /\ \A s \in 1 .. created : Alive(s)

Traced == Placed /\ Numbered /\ (~misread => Identified /\ Followed)

(* Facts about types the steps below share. *)
LEMMA HeldType ==
  ASSUME TypeOK
  PROVE  /\ created \in Nat
         /\ \A a \in Addresses : Held(a) => /\ heap[a] \in Timers /\ heap[a].seq \in Nat \ {0}
                                            /\ heap[a].interval \in Nat
         /\ \A e \in batch : e.addr \in Addresses
         /\ \A k \in active : k.addr \in Addresses
<1>1. MaxTimers \in Nat
  BY TimerAssumption
<1>2. created \in Nat
  BY <1>1 DEF TypeOK
<1>3. ASSUME NEW a \in Addresses, Held(a)
      PROVE  heap[a] \in Timers /\ heap[a].seq \in Nat \ {0} /\ heap[a].interval \in Nat
  <2>1. heap[a] \in Timers
    BY <1>3 DEF TypeOK, Held
  <2>2. heap[a].seq \in 1 .. MaxTimers /\ heap[a].interval \in Intervals
    BY <2>1 DEF Timers, Sequences
  <2>3. heap[a].seq \in Nat \ {0}
    BY <1>1, <2>2
  <2>4. heap[a].interval \in Nat
    BY <2>2, TimerAssumption
  <2>5. QED
    BY <2>1, <2>3, <2>4
<1>4. QED
  BY <1>2, <1>3 DEF TypeOK, Entries, Keys

(* Traced says TimersKept and GoneStaysGone. *)
LEMMA TracedImplies ==
  ASSUME TypeOK, Coherent, Traced
  PROVE  TimersKept /\ GoneStaysGone
<1>1. TimersKept
  <2> SUFFICES ASSUME ~misread, NEW s \in 1 .. created
               PROVE  \/ IsActive(s) \/ IsQueued(s) \/ IsExpired(s)
                      \/ s \in cancelled
                      \/ s \in ran /\ s \notin repeating
    BY DEF TimersKept
  <2>1. Alive(s)
    BY DEF Traced, Followed
  <2>2. ASSUME NEW a \in Addresses, Held(a), heap[a].seq = s
        PROVE  IsActive(s) \/ IsQueued(s) \/ IsExpired(s)
    <3>1. CASE Key(a) \in active
      BY <2>2, <3>1 DEF IsActive, Key
    <3>2. CASE Queued(a)
      BY <2>2, <3>2 DEF IsQueued, Queued, Adds
    <3>3. CASE Expiring(a)
      BY <2>2, <3>3 DEF IsExpired, Expiring
    <3>4. QED
      BY <2>2, <3>1, <3>2, <3>3 DEF Traced, Placed
  <2>3. QED
    BY <2>1, <2>2 DEF Alive
<1>2. GoneStaysGone
  <2> SUFFICES ASSUME ~misread, NEW k \in active
               PROVE  k.seq \notin cancelled /\ (k.seq \in ran => k.seq \in repeating)
    BY DEF GoneStaysGone
  <2>1. k.addr \in Addresses /\ Held(k.addr) /\ k = Key(k.addr) /\ k.seq = heap[k.addr].seq
    BY HeldType DEF Coherent, QueueCoherent, Held, Key
  <2>2. ~Expiring(k.addr)
    BY <2>1 DEF Coherent, BatchCoherent, Expiring
  <2>3. QED
    BY <2>1, <2>2 DEF Traced, Followed
<1>3. QED
  BY <1>1, <1>2

-----------------------------------------------------------------------------
(* Steps that leave the timers and their histories alone. *)
LEMMA SameTimers ==
  ASSUME UNCHANGED <<heap, created, batch, canceling, ran, cancelled, repeating>>
  PROVE  /\ Numbered => Numbered'
         /\ Followed /\ toRun' = toRun => Followed'
BY DEF Numbered, Followed, Alive, Held, Expiring, Key

(* new Timer: a number and an address nobody has. *)
LEMMA NewFollowed ==
  ASSUME TypeOK, Coherent, Numbered, NEW a \in Addresses, NEW d \in Delays, NEW i \in Intervals,
         newTimer(a, d, i), UNCHANGED <<batch, toRun, canceling, ran, cancelled>>
  PROVE  /\ Held(a)' /\ heap'[a].seq = created + 1
         /\ \A b \in Addresses : b # a => heap'[b] = heap[b]
         /\ Numbered'
         /\ Followed => Followed'
<1>1. /\ created \in Nat /\ created' = created + 1 /\ i \in Nat
      /\ heap[a] = Null
      /\ heap' = [heap EXCEPT ![a] = [seq |-> created + 1, when |-> wall + d, interval |-> i]]
      /\ repeating' = IF i > 0 THEN repeating \union {created + 1} ELSE repeating
  BY HeldType, TimerAssumption DEF newTimer
<1>2. \A b \in Addresses : b # a => heap'[b] = heap[b]
  BY <1>1 DEF TypeOK
<1>3. heap'[a] = [seq |-> created + 1, when |-> wall + d, interval |-> i]
  BY <1>1 DEF TypeOK
<1>4. heap'[a] # Null /\ heap'[a].seq = created + 1 /\ heap'[a].interval = i
  <2>1. created + 1 \in Nat /\ wall + d \in Nat
    BY <1>1, NewTypes
  <2>2. heap'[a] \in [seq : Nat, when : Nat, interval : Nat]
    BY <1>1, <1>3, <2>1
  <2>3. QED
    BY <1>3, <2>2, TimerAssumption
<1>5. \A b \in Addresses : b # a => (Held(b)' <=> Held(b)) /\ Key(b)' = Key(b)
  BY <1>2 DEF Held, Key
<1>6. \A s \in Nat : s <= created => (s \in repeating' <=> s \in repeating) /\ s # created + 1
  BY <1>1
<1>7. \A b \in Addresses : Held(b) => heap[b].seq \in Nat /\ heap[b].seq <= created
  BY HeldType DEF Numbered
<1>8. Numbered'
  <2>1. ASSUME NEW b \in Addresses, Held(b)'
        PROVE  heap'[b].seq <= created' /\ (heap'[b].interval > 0 <=> heap'[b].seq \in repeating')
    <3>1. CASE b = a
      <4>1. created + 1 \notin repeating
        BY <1>1 DEF Numbered
      <4>2. QED
        BY <1>1, <1>4, <3>1, <4>1
    <3>2. CASE b # a
      <4>1. heap'[b] = heap[b] /\ Held(b)
        BY <1>2, <1>5, <2>1, <3>2
      <4>2. heap[b].seq <= created /\ (heap[b].interval > 0 <=> heap[b].seq \in repeating)
        BY <4>1 DEF Numbered
      <4>3. QED
        BY <1>1, <1>6, <1>7, <4>1, <4>2
    <3>3. QED
      BY <3>1, <3>2
  <2>2. ASSUME NEW b \in Addresses, NEW c \in Addresses, Held(b)', Held(c)', heap'[b].seq = heap'[c].seq
        PROVE  b = c
    BY <1>2, <1>4, <1>5, <1>6, <1>7, <2>2 DEF Numbered
  <2>3. \A s \in ran' \union repeating' : s <= created'
    <3>1. ran' \subseteq Sequences /\ repeating \subseteq Sequences
      BY DEF TypeOK
    <3>2. ASSUME NEW s \in ran \union repeating
          PROVE  s \in Nat /\ s <= created
      <4>1. s \in 1 .. MaxTimers
        BY <3>1 DEF Sequences
      <4>2. s <= created
        BY DEF Numbered
      <4>3. QED
        BY <4>1, <4>2, TimerAssumption
    <3>3. QED
      BY <1>1, <3>2
  <2>4. QED
    BY <2>1, <2>2, <2>3 DEF Numbered
<1>9. ASSUME Followed
      PROVE  Followed'
  <2>1. cancelled \subseteq Nat /\ ran \subseteq Nat
    BY TimerAssumption DEF TypeOK, Sequences
  <2>2. \A s \in cancelled' : s <= created'
    BY <1>1, <1>9, <2>1 DEF Followed
  <2>3. created + 1 \notin cancelled /\ created + 1 \notin ran
    BY <1>1, <1>9 DEF Followed, Numbered
  <2>4. ~Expiring(a)'
    BY <1>1 DEF Expiring, Coherent, BatchCoherent
  <2>5. \A b : Expiring(b)' <=> Expiring(b)
    BY DEF Expiring
  <2>6. ASSUME NEW b \in Addresses, Held(b)'
        PROVE  /\ heap'[b].seq \in cancelled' => Expiring(b)'
               /\ Expiring(b)' => (Key(b)' \in canceling' <=> heap'[b].seq \in cancelled')
               /\ heap'[b].seq \in ran' => Expiring(b)' \/ heap'[b].seq \in repeating'
    <3>1. CASE b = a
      BY <1>4, <2>3, <2>4, <3>1
    <3>2. CASE b # a
      <4>1. heap'[b] = heap[b] /\ Held(b) /\ Key(b)' = Key(b)
        BY <1>2, <1>5, <2>6, <3>2
      <4>2. QED
        BY <1>6, <1>7, <1>9, <2>5, <4>1 DEF Followed
    <3>3. QED
      BY <3>1, <3>2
  <2>7. \A e \in batch' \ toRun' : heap'[e.addr].seq \in ran'
    <3>1. \A e \in batch : e.addr \in Addresses /\ e.addr # a
      BY <1>1, HeldType DEF Coherent, BatchCoherent
    <3>2. QED
      BY <1>2, <1>9, <3>1 DEF Followed
  <2>8. ASSUME NEW s \in 1 .. created'
        PROVE  Alive(s)'
    <3>1. CASE s = created + 1
      BY <1>4, <3>1 DEF Alive, Held
    <3>2. CASE s # created + 1
      <4>1. s \in 1 .. created /\ Alive(s)
        BY <1>1, <1>9, <2>8, <3>2 DEF Followed
      <4>2. CASE \E b \in Addresses : Held(b) /\ heap[b].seq = s
        <5>1. PICK b \in Addresses : Held(b) /\ heap[b].seq = s
          BY <4>2
        <5>2. b # a
          BY <1>1, <5>1 DEF Held
        <5>3. QED
          BY <1>2, <1>5, <5>1, <5>2 DEF Alive
      <4>3. CASE s \in cancelled
        BY <4>3 DEF Alive
      <4>4. CASE s \in ran /\ s \notin repeating
        BY <1>6, <4>1, <4>4 DEF Alive
      <4>5. QED
        BY <4>1, <4>2, <4>3, <4>4 DEF Alive
    <3>3. QED
      BY <3>1, <3>2
  <2>9. QED
    BY <2>2, <2>6, <2>7, <2>8 DEF Followed
<1>10. QED
  BY <1>2, <1>4, <1>8, <1>9 DEF Held

(* cancel(): the timer is deleted, or marked while its batch runs. *)
LEMMA CancelFollowed ==
  ASSUME TypeOK, Coherent, Numbered, NEW id \in TimerIds, cancelTimer(id),
         UNCHANGED <<batch, toRun, created, ran, repeating, pc>>
  PROVE  /\ \A a \in Addresses : Held(a)' => heap'[a] = heap[a]
         /\ \A a \in Addresses : Held(a)' /\ Key(a) \in active => Key(a)' \in active'
         /\ Numbered'
         /\ Followed /\ id.seq = id.of => Followed'
<1> DEFINE key == [addr |-> id.addr, seq |-> id.seq]
<1>1. id.addr \in Addresses /\ \A a : key = Key(a) <=> a = id.addr /\ heap[a].seq = id.seq
  BY DEF TimerIds, Key
<1>2. CASE key \in active
  <2>1. /\ heap' = [heap EXCEPT ![id.addr] = Null]
        /\ active' = active \ {key}
        /\ canceling' = canceling
        /\ cancelled' = cancelled \union {id.of}
    BY <1>2 DEF cancelTimer
  <2>2. Held(id.addr) /\ key = Key(id.addr) /\ heap[id.addr].seq = id.seq
    BY <1>2 DEF Coherent, QueueCoherent, Held, Key
  <2>3. \A a \in Addresses : Held(a)' => a # id.addr /\ Held(a) /\ heap'[a] = heap[a] /\ Key(a)' = Key(a)
    BY <2>1 DEF TypeOK, Held, Key
  <2>4. \A a \in Addresses : a # id.addr => heap'[a] = heap[a]
    BY <2>1 DEF TypeOK
  <2>5. \A a \in Addresses : Held(a)' /\ Key(a) \in active => Key(a)' \in active'
    BY <1>1, <2>1, <2>3
  <2>6. Numbered'
    BY <2>3 DEF Numbered
  <2>7. ASSUME Followed, id.seq = id.of
        PROVE  Followed'
    <3>1. id.of <= created
      BY <2>2, <2>7, <1>1 DEF Numbered
    <3>2. \A a \in Addresses : Held(a)' => heap[a].seq # id.of
      BY <1>1, <2>2, <2>3, <2>7 DEF Numbered
    <3>3. \A a : Expiring(a)' <=> Expiring(a)
      BY DEF Expiring
    <3>4. ~Expiring(id.addr)
      BY <1>2, <2>2 DEF Expiring, Coherent, BatchCoherent
    <3>5. \A s \in cancelled' : s <= created'
      BY <2>1, <2>7, <3>1 DEF Followed
    <3>6. \A a \in Addresses : Held(a)' =>
            /\ heap'[a].seq \in cancelled' => Expiring(a)'
            /\ Expiring(a)' => (Key(a)' \in canceling' <=> heap'[a].seq \in cancelled')
            /\ heap'[a].seq \in ran' => Expiring(a)' \/ heap'[a].seq \in repeating'
      BY <2>1, <2>3, <2>7, <3>2, <3>3 DEF Followed
    <3>7. \A e \in batch' \ toRun' : heap'[e.addr].seq \in ran'
      BY <2>4, <2>7, <3>4, HeldType DEF Followed, Expiring
    <3>8. ASSUME NEW s \in 1 .. created
          PROVE  Alive(s)'
      <4>1. Alive(s)
        BY <2>7 DEF Followed
      <4>2. CASE s = id.of
        BY <2>1, <4>2 DEF Alive
      <4>3. CASE s # id.of
        <5>1. \A a \in Addresses : Held(a) /\ heap[a].seq = s => Held(a)' /\ heap'[a].seq = s
          BY <2>2, <2>4, <2>7, <4>3 DEF Held
        <5>2. QED
          BY <2>1, <4>1, <5>1 DEF Alive
      <4>4. QED
        BY <4>2, <4>3
    <3>9. QED
      BY <3>5, <3>6, <3>7, <3>8 DEF Followed
  <2>8. QED
    BY <2>3, <2>5, <2>6, <2>7
<1>3. CASE key \notin active
  <2>1. /\ UNCHANGED <<heap, active>>
        /\ canceling' = IF pc = "run" THEN canceling \union {key} ELSE canceling
        /\ cancelled' = IF \E e \in batch : heap[e.addr] # Null /\ key = Key(e.addr)
                        THEN cancelled \union {id.of} ELSE cancelled
    BY <1>3 DEF cancelTimer
  <2>2. /\ \A a : (Held(a)' <=> Held(a)) /\ Key(a)' = Key(a)
        /\ \A a : Expiring(a)' <=> Expiring(a)
    BY <2>1 DEF Held, Key, Expiring
  <2>3. Numbered'
    BY <2>1, <2>2 DEF Numbered
  <2>4. ASSUME Followed, id.seq = id.of
        PROVE  Followed'
    <3>1. CASE \E e \in batch : heap[e.addr] # Null /\ key = Key(e.addr)
      <4>1. Expiring(id.addr) /\ Held(id.addr) /\ heap[id.addr].seq = id.seq
        BY <1>1, <3>1 DEF Expiring, Held
      <4>2. pc = "run"
        BY <3>1 DEF TypeOK
      <4>3. canceling' = canceling \union {key} /\ cancelled' = cancelled \union {id.seq}
        BY <2>1, <2>4, <3>1, <4>2
      <4>4. id.seq <= created
        BY <1>1, <4>1 DEF Numbered
      <4>5. \A a \in Addresses : Held(a) =>
              /\ (Key(a) \in canceling' <=> Key(a) \in canceling \/ a = id.addr)
              /\ (heap[a].seq \in cancelled' <=> heap[a].seq \in cancelled \/ a = id.addr)
        BY <1>1, <4>1, <4>3 DEF Numbered
      <4>6. \A s \in cancelled' : s <= created'
        BY <2>4, <4>3, <4>4 DEF Followed
      <4>7. \A a \in Addresses : Held(a) =>
              /\ heap[a].seq \in cancelled' => Expiring(a)
              /\ Expiring(a) => (Key(a) \in canceling' <=> heap[a].seq \in cancelled')
        BY <2>4, <4>1, <4>5 DEF Followed
      <4>8. \A s \in 1 .. created : Alive(s)'
        BY <2>1, <2>2, <2>4, <4>3 DEF Followed, Alive
      <4>9. QED
        BY <2>1, <2>2, <2>4, <4>6, <4>7, <4>8 DEF Followed
    <3>2. CASE ~\E e \in batch : heap[e.addr] # Null /\ key = Key(e.addr)
      <4>1. cancelled' = cancelled /\ canceling' \subseteq canceling \union {key} /\ canceling \subseteq canceling'
        BY <2>1, <3>2
      <4>2. \A a \in Addresses : Held(a) /\ Expiring(a) => Key(a) # key
        BY <3>2 DEF Held, Expiring
      <4>3. \A a \in Addresses : Held(a) /\ Expiring(a) => (Key(a) \in canceling' <=> Key(a) \in canceling)
        BY <4>1, <4>2
      <4>4. \A s \in 1 .. created : Alive(s)'
        BY <2>1, <2>2, <2>4, <4>1 DEF Followed, Alive
      <4>5. QED
        BY <2>1, <2>2, <2>4, <4>1, <4>3, <4>4 DEF Followed
    <3>3. QED
      BY <3>1, <3>2
  <2>5. QED
    BY <2>1, <2>2, <2>3, <2>4
<1>4. QED
  BY <1>2, <1>3

-----------------------------------------------------------------------------
(* handleRead(). *)

(* Nobody in the batch is cancelled yet. *)
LEMMA ExpireTraced ==
  ASSUME TypeOK, Coherent, Traced, GetExpired
  PROVE  Traced'
<1>1. /\ batch' \in SUBSET timers /\ active' = active \ {Key(e.addr) : e \in batch'}
      /\ batch = {} /\ canceling' = {} /\ toRun' = batch'
      /\ UNCHANGED <<heap, functors, created, ids, ran, cancelled, repeating, misread>>
  BY DEF GetExpired, ExpiredKeys, callVars, histVars, TypeOK
<1>2. /\ \A a : (Held(a)' <=> Held(a)) /\ Key(a)' = Key(a) /\ (Queued(a)' <=> Queued(a))
      /\ \A a : ~Expiring(a)
  BY <1>1 DEF Held, Key, Queued, Adds, Expiring
<1>3. Placed'
  <2>1. ASSUME NEW a \in Addresses, Key(a) \in active, Key(a) \notin active'
        PROVE  Expiring(a)'
    BY <1>1, <2>1 DEF Expiring, Key
  <2>2. QED
    BY <1>2, <2>1 DEF Traced, Placed
<1>4. Numbered'
  BY <1>1, <1>2 DEF Traced, Numbered
<1>5. ASSUME ~misread
      PROVE  Identified' /\ Followed'
  <2>1. Identified'
    BY <1>1, <1>5 DEF Traced, Identified
  <2>2. \A a \in Addresses : Held(a) => heap[a].seq \notin cancelled
                                        /\ (heap[a].seq \in ran => heap[a].seq \in repeating)
    BY <1>2, <1>5 DEF Traced, Followed
  <2>3. \A s \in 1 .. created : Alive(s)'
    BY <1>1, <1>2, <1>5 DEF Traced, Followed, Alive
  <2>4. Followed'
    BY <1>1, <1>2, <1>5, <2>2, <2>3 DEF Traced, Followed
  <2>5. QED
    BY <2>1, <2>4
<1>6. QED
  BY <1>1, <1>3, <1>4, <1>5 DEF Traced

(* A timer that runs is one of the batch. *)
LEMMA RunTraced ==
  ASSUME TypeOK, Coherent, Traced, RunTimer
  PROVE  Traced'
<1>1. PICK e \in toRun :
        /\ toRun' = toRun \ {e}
        /\ IF heap[e.addr] = Null THEN UNCHANGED ran ELSE ran' = ran \union {heap[e.addr].seq}
  BY DEF RunTimer
<1>2. /\ e \in batch /\ e.addr \in Addresses /\ Held(e.addr) /\ Expiring(e.addr)
      /\ ran' = ran \union {heap[e.addr].seq}
  BY <1>1, HeldType DEF TypeOK, Coherent, BatchCoherent, Held, Expiring
<1>3. UNCHANGED <<heap, active, canceling, batch, functors, created, ids, cancelled, repeating, misread>>
  BY DEF RunTimer, queueVars, callVars
<1>4. \A a : /\ (Held(a)' <=> Held(a)) /\ Key(a)' = Key(a) /\ (Queued(a)' <=> Queued(a))
             /\ (Expiring(a)' <=> Expiring(a))
  BY <1>3 DEF Held, Key, Queued, Adds, Expiring
<1>5. Placed'
  BY <1>3, <1>4 DEF Traced, Placed
<1>6. Numbered'
  <2>1. heap[e.addr].seq <= created
    BY <1>2 DEF Traced, Numbered
  <2>2. QED
    BY <1>2, <1>3, <1>4, <2>1 DEF Traced, Numbered
<1>7. ASSUME ~misread
      PROVE  Identified' /\ Followed'
  <2>1. Identified'
    BY <1>3, <1>7 DEF Traced, Identified
  <2>2. \A a \in Addresses : Held(a) /\ heap[a].seq = heap[e.addr].seq => Expiring(a)
    BY <1>2 DEF Traced, Numbered
  <2>3. \A a \in Addresses : Held(a) /\ heap[a].seq \in ran' => Expiring(a) \/ heap[a].seq \in repeating
    BY <1>2, <1>7, <2>2 DEF Traced, Followed
  <2>4. \A f \in batch \ toRun' : heap[f.addr].seq \in ran'
    BY <1>1, <1>2, <1>7 DEF Traced, Followed
  <2>5. \A s \in 1 .. created : Alive(s)'
    BY <1>2, <1>3, <1>4, <1>7 DEF Traced, Followed, Alive
  <2>6. QED
    BY <1>3, <1>4, <1>7, <2>1, <2>3, <2>4, <2>5 DEF Traced, Followed
<1>8. QED
  BY <1>3, <1>5, <1>6, <1>7 DEF Traced

(* A timer of the batch goes back if it repeats and was not cancelled.     *)
LEMMA ResetTraced ==
  ASSUME TypeOK, Coherent, Traced, Reset
  PROVE  Traced'
<1> DEFINE done == {e.addr : e \in batch}
           kept == {a \in done : StartsOver(a)}
           next(a) == firedAt + heap[a].interval
<1>1. /\ heap' = [a \in Addresses |->
                    IF a \in kept THEN [heap[a] EXCEPT !.when = next(a)]
                    ELSE IF a \in done THEN Null ELSE heap[a]]
      /\ active' = active \union {Key(a) : a \in kept}
      /\ batch' = {} /\ toRun = {} /\ toRun' = {}
      /\ UNCHANGED <<functors, canceling, created, ids, ran, cancelled, repeating, misread>>
  BY DEF Reset, callVars, histVars
<1>2. \A a : a \in done <=> Expiring(a)
  BY DEF Expiring
<1>3. \A a \in done : a \in Addresses /\ Held(a)
  BY HeldType DEF Coherent, BatchCoherent, Held
<1>4. \A a \in kept : a \in done /\ heap[a].interval > 0 /\ Key(a) \notin canceling
  BY DEF StartsOver
<1>5. \A a \in done : a \notin kept => ~(heap[a].interval > 0) \/ Key(a) \in canceling
  BY DEF StartsOver
<1>6. ASSUME NEW a \in kept
      PROVE  heap'[a].seq = heap[a].seq /\ heap'[a].interval = heap[a].interval /\ Held(a)'
  <2>1. a \in Addresses /\ heap[a] \in Timers
    BY <1>3, <1>4, <1>6, HeldType
  <2>2. heap'[a] = [heap[a] EXCEPT !.when = next(a)] /\ next(a) \in Nat
    BY <1>1, <1>6, <2>1, TimerAssumption DEF TypeOK, Timers
  <2>3. /\ heap'[a] \in [seq : Nat, when : Nat, interval : Nat]
        /\ heap'[a].seq = heap[a].seq /\ heap'[a].interval = heap[a].interval
    BY <2>1, <2>2, TimerAssumption DEF Timers, Sequences
  <2>4. QED
    BY <2>3, TimerAssumption DEF Held
<1>7. \A a \in Addresses : a \in done /\ a \notin kept => ~Held(a)'
  BY <1>1 DEF Held
<1>8. \A a \in Addresses : a \notin done => heap'[a] = heap[a]
  BY <1>1, <1>4
<1> HIDE DEF done, kept, next
<1>9. ASSUME NEW a \in Addresses, Held(a)'
      PROVE  /\ Held(a) /\ heap'[a].seq = heap[a].seq /\ heap'[a].interval = heap[a].interval
             /\ Key(a)' = Key(a)
             /\ a \in kept \/ a \notin done
  BY <1>3, <1>4, <1>6, <1>7, <1>8, <1>9 DEF Held, Key
<1>10. Placed'
  <2> SUFFICES ASSUME NEW a \in Addresses, Held(a)' PROVE Key(a)' \in active' \/ Queued(a)'
    BY DEF Placed
  <2>1. CASE a \in kept
    BY <1>1, <1>9, <2>1
  <2>2. CASE a \notin done
    <3>1. Key(a) \in active \/ Queued(a)
      BY <1>2, <1>9, <2>2 DEF Traced, Placed
    <3>2. QED
      BY <1>1, <1>9, <3>1 DEF Queued, Adds
  <2>3. QED
    BY <1>9, <2>1, <2>2
<1>11. Numbered'
  BY <1>1, <1>9 DEF Traced, Numbered
<1>12. ASSUME ~misread
       PROVE  Identified' /\ Followed'
  <2>1. Identified'
    BY <1>1, <1>12 DEF Traced, Identified
  <2>2. ASSUME NEW a \in Addresses, Held(a)'
        PROVE  /\ heap'[a].seq \notin cancelled
               /\ heap'[a].seq \in ran => heap'[a].seq \in repeating
    <3>1. CASE a \in kept
      <4>1. heap[a].seq \in repeating /\ heap[a].seq \notin cancelled
        BY <1>2, <1>4, <1>9, <1>12, <2>2, <3>1 DEF Traced, Numbered, Followed
      <4>2. QED
        BY <1>9, <2>2, <4>1
    <3>2. CASE a \notin done
      BY <1>2, <1>9, <1>12, <2>2, <3>2 DEF Traced, Followed
    <3>3. QED
      BY <1>9, <2>2, <3>1, <3>2
  <2>3. ASSUME NEW s \in 1 .. created
        PROVE  Alive(s)'
    <3>1. Alive(s)
      BY <1>12 DEF Traced, Followed
    <3>2. ASSUME NEW a \in Addresses, Held(a), heap[a].seq = s
          PROVE  Alive(s)'
      <4>1. CASE a \in kept
        <5>1. heap'[a].seq = s /\ Held(a)'
          BY <1>6, <3>2, <4>1
        <5>2. QED
          BY <5>1 DEF Alive
      <4>2. CASE a \notin done
        BY <1>8, <3>2, <4>2 DEF Alive, Held
      <4>3. CASE a \in done /\ a \notin kept
        <5>1. CASE Key(a) \in canceling
          BY <1>1, <1>2, <1>12, <3>2, <4>3, <5>1 DEF Traced, Followed, Alive
        <5>2. CASE ~(heap[a].interval > 0)
          <6>1. s \notin repeating
            BY <3>2, <5>2 DEF Traced, Numbered
          <6>2. s \in ran
            BY <1>1, <1>12, <3>2, <4>3 DEF Traced, Followed, done
          <6>3. QED
            BY <1>1, <6>1, <6>2 DEF Alive
        <5>3. QED
          BY <1>5, <4>3, <5>1, <5>2
      <4>4. QED
        BY <1>4, <4>1, <4>2, <4>3
    <3>3. QED
      BY <1>1, <3>1, <3>2 DEF Alive
  <2>4. \A a : ~Expiring(a)'
    BY <1>1 DEF Expiring
  <2>5. Followed'
    BY <1>1, <1>12, <2>2, <2>3, <2>4 DEF Traced, Followed
  <2>6. QED
    BY <2>1, <2>5
<1>13. QED
  BY <1>1, <1>10, <1>11, <1>12 DEF Traced

-----------------------------------------------------------------------------
(* The task queue: one more functor, and one less. *)

LEMMA MoreQueued ==
  ASSUME TypeOK, NEW f, functors' = Append(functors, f)
  PROVE  /\ \A a : Queued(a) => Queued(a)'
         /\ f.op = "add" => Queued(f.addr)'
         /\ \A i \in DOMAIN functors' :
              functors'[i] = f \/ (i \in DOMAIN functors /\ functors'[i] = functors[i])
<1>1. /\ DOMAIN functors' = DOMAIN functors \union {Len(functors) + 1}
      /\ \A i \in DOMAIN functors : functors'[i] = functors[i]
      /\ functors'[Len(functors) + 1] = f
  BY DEF TypeOK
<1>2. QED
  BY <1>1 DEF Queued, Adds

LEMMA LessQueued ==
  ASSUME TypeOK, functors # <<>>, functors' = Tail(functors)
  PROVE  /\ \A a : Queued(a) => Queued(a)' \/ (Head(functors).op = "add" /\ Head(functors).addr = a)
         /\ \A i \in DOMAIN functors' : i + 1 \in DOMAIN functors /\ functors'[i] = functors[i + 1]
<1>1. \A i \in DOMAIN functors' : i + 1 \in DOMAIN functors /\ functors'[i] = functors[i + 1]
  BY DEF TypeOK
<1>2. \A i \in DOMAIN functors : i = 1 \/ (i - 1 \in DOMAIN functors' /\ functors'[i - 1] = functors[i])
  BY DEF TypeOK
<1>3. Head(functors) = functors[1]
  BY DEF TypeOK
<1>4. QED
  BY <1>1, <1>2, <1>3 DEF Queued, Adds

(* addTimer() and cancel() in the loop thread. *)
LEMMA LoopTraced ==
  ASSUME TypeOK, Coherent, Traced, LoopCall
  PROVE  Traced'
<1>1. ASSUME NEW a \in Addresses, NEW d \in Delays, NEW i \in Intervals, LoopAddTimer(a, d, i)
      PROVE  Traced'
  <2>1. /\ newTimer(a, d, i)
        /\ active' = active \union {[addr |-> a, seq |-> created + 1]}
        /\ ids' = ids \union {[addr |-> a, seq |-> created + 1, of |-> created + 1]}
        /\ UNCHANGED <<batch, toRun, canceling, functors, ran, cancelled, misread>>
    BY <1>1 DEF LoopAddTimer, insertTimer, batchVars, callVars
  <2>2. /\ heap'[a].seq = created + 1 /\ Numbered' /\ (Followed => Followed')
        /\ \A b \in Addresses : b # a => heap'[b] = heap[b]
    BY <2>1, NewFollowed DEF Traced
  <2>3. Placed'
    <3> SUFFICES ASSUME NEW b \in Addresses, Held(b)'
                 PROVE  Key(b)' \in active' \/ Queued(b)' \/ Expiring(b)'
      BY DEF Placed
    <3>1. CASE b = a
      BY <2>1, <2>2, <3>1 DEF Key
    <3>2. CASE b # a
      BY <2>1, <2>2, <3>2 DEF Traced, Placed, Held, Key, Queued, Adds, Expiring
    <3>3. QED
      BY <3>1, <3>2
  <2>4. Identified => Identified'
    BY <2>1 DEF Identified
  <2>5. QED
    BY <2>1, <2>2, <2>3, <2>4 DEF Traced
<1>2. ASSUME NEW id \in ids, LoopCancel(id)
      PROVE  Traced'
  <2>1. /\ id \in TimerIds /\ cancelTimer(id)
        /\ UNCHANGED <<batch, toRun, created, ran, repeating, pc, functors, ids, misread>>
    BY <1>2 DEF LoopCancel, TypeOK, batchVars, callVars
  <2>2. /\ Numbered' /\ (Followed /\ id.seq = id.of => Followed')
        /\ \A a \in Addresses : Held(a)' => heap'[a] = heap[a]
        /\ \A a \in Addresses : Held(a)' /\ Key(a) \in active => Key(a)' \in active'
    BY <2>1, CancelFollowed DEF Traced
  <2>3. Placed'
    BY <2>1, <2>2 DEF Traced, Placed, Held, Queued, Adds, Expiring
  <2>4. ~misread => Identified' /\ Followed'
    BY <2>1, <2>2 DEF Traced, Identified
  <2>5. QED
    BY <2>1, <2>2, <2>3, <2>4 DEF Traced
<1>3. QED
  BY <1>1, <1>2 DEF LoopCall

(* The same of another thread, when the loop comes to it. *)
LEMMA FunctorsRunTraced ==
  ASSUME TypeOK, Coherent, Traced, RunFunctor
  PROVE  Traced'
<1>1. CASE AddFunctor
  <2> DEFINE a == Head(functors).addr
  <2>1. /\ functors # <<>> /\ functors' = Tail(functors)
        /\ active' = active \union {Key(a)}
        /\ UNCHANGED <<heap, canceling, created, batch, toRun, ids, ran, cancelled, repeating, misread>>
    BY <1>1 DEF AddFunctor, insertTimer, Key, batchVars, histVars
  <2>2. \A b : Queued(b) => Queued(b)' \/ a = b
    BY <2>1, LessQueued
  <2>3. Placed'
    BY <2>1, <2>2 DEF Traced, Placed, Held, Key, Expiring
  <2>4. Numbered' /\ (Followed => Followed')
    BY <2>1, SameTimers DEF Traced
  <2>5. Identified => Identified'
    BY <2>1, LessQueued DEF Identified
  <2>6. QED
    BY <2>1, <2>3, <2>4, <2>5 DEF Traced
<1>2. CASE CancelFunctor
  <2> DEFINE id == Head(functors).id
  <2>1. /\ functors # <<>> /\ functors' = Tail(functors) /\ Head(functors).op = "cancel"
        /\ cancelTimer(id)
        /\ UNCHANGED <<batch, toRun, created, ran, repeating, pc, ids, misread>>
    BY <1>2 DEF CancelFunctor, batchVars
  <2>2. id \in TimerIds /\ Head(functors) = functors[1] /\ 1 \in DOMAIN functors
    BY <2>1 DEF TypeOK, Functors
  <2>3. /\ Numbered' /\ (Followed /\ id.seq = id.of => Followed')
        /\ \A b \in Addresses : Held(b)' => heap'[b] = heap[b]
        /\ \A b \in Addresses : Held(b)' /\ Key(b) \in active => Key(b)' \in active'
    BY <2>1, <2>2, CancelFollowed DEF Traced
  <2>4. \A b : Queued(b) => Queued(b)'
    BY <2>1, LessQueued
  <2>5. Placed'
    BY <2>1, <2>3, <2>4 DEF Traced, Placed, Held, Expiring
  <2>6. Identified => id.seq = id.of /\ Identified'
    BY <2>1, <2>2, LessQueued DEF Identified
  <2>7. QED
    BY <2>1, <2>3, <2>5, <2>6 DEF Traced
<1>3. QED
  BY <1>1, <1>2 DEF RunFunctor

(* Calls of another thread. *)
LEMMA CallerTraced ==
  ASSUME TypeOK, Coherent, Traced, NEW c \in Callers, CallerStep(c)
  PROVE  Traced'
<1>1. ASSUME NEW a \in Addresses, NEW d \in Delays, NEW i \in Intervals, CallerAddTimer(c, a, d, i)
      PROVE  Traced'
  <2> DEFINE f == [op |-> "add", addr |-> a]
  <2>1. /\ newTimer(a, d, i) /\ functors' = Append(functors, f)
        /\ UNCHANGED <<active, batch, toRun, canceling, ids, ran, cancelled, misread>>
    BY <1>1 DEF CallerAddTimer, batchVars
  <2>2. /\ Numbered' /\ (Followed => Followed')
        /\ \A b \in Addresses : b # a => heap'[b] = heap[b]
    BY <2>1, NewFollowed DEF Traced
  <2>3. /\ \A b : Queued(b) => Queued(b)'
        /\ Queued(a)'
        /\ \A j \in DOMAIN functors' :
             functors'[j] = f \/ (j \in DOMAIN functors /\ functors'[j] = functors[j])
    BY <2>1, MoreQueued
  <2>4. Placed'
    <3> SUFFICES ASSUME NEW b \in Addresses, Held(b)', b # a
                 PROVE  Key(b)' \in active' \/ Queued(b)' \/ Expiring(b)'
      BY <2>3 DEF Placed
    <3>1. Held(b) /\ Key(b)' = Key(b)
      BY <2>2 DEF Held, Key
    <3>2. QED
      BY <2>1, <2>3, <3>1 DEF Traced, Placed, Expiring
  <2>5. Identified => Identified'
    BY <2>1, <2>3 DEF Identified
  <2>6. QED
    BY <2>1, <2>2, <2>4, <2>5 DEF Traced
<1>2. CASE CallerReadSequence(c)
  <2>1. /\ UNCHANGED <<heap, active, created, batch, toRun, canceling, functors, ran, cancelled, repeating>>
    BY <1>2 DEF CallerReadSequence, queueVars, batchVars
  <2>2. \E s : /\ ids' = ids \union {[addr |-> adding[c].addr, seq |-> s, of |-> adding[c].seq]}
                /\ misread' = (misread \/ s # adding[c].seq)
    BY <1>2 DEF CallerReadSequence
  <2>3. Placed'
    BY <2>1 DEF Traced, Placed, Held, Key, Queued, Adds, Expiring
  <2>4. Numbered' /\ (Followed => Followed')
    BY <2>1, SameTimers DEF Traced
  <2>5. ASSUME ~misread'
        PROVE  ~misread /\ (Identified => Identified')
    <3>1. PICK s : /\ ids' = ids \union {[addr |-> adding[c].addr, seq |-> s, of |-> adding[c].seq]}
                   /\ misread' = (misread \/ s # adding[c].seq)
      BY <2>2
    <3>2. ~misread /\ s = adding[c].seq
      BY <2>5, <3>1
    <3>3. QED
      BY <2>1, <3>1, <3>2 DEF Identified
  <2>6. QED
    BY <2>3, <2>4, <2>5 DEF Traced
<1>3. ASSUME NEW id \in ids, CallerCancel(c, id)
      PROVE  Traced'
  <2> DEFINE f == [op |-> "cancel", id |-> id]
  <2>1. /\ functors' = Append(functors, f)
        /\ UNCHANGED <<heap, active, created, batch, toRun, canceling, ids, ran, cancelled, repeating, misread>>
    BY <1>3 DEF CallerCancel, queueVars, batchVars, histVars
  <2>2. /\ \A b : Queued(b) => Queued(b)'
        /\ \A j \in DOMAIN functors' :
             functors'[j] = f \/ (j \in DOMAIN functors /\ functors'[j] = functors[j])
    BY <2>1, MoreQueued
  <2>3. Placed'
    BY <2>1, <2>2 DEF Traced, Placed, Held, Key, Expiring
  <2>4. Numbered' /\ (Followed => Followed')
    BY <2>1, SameTimers DEF Traced
  <2>5. Identified => Identified'
    BY <2>1, <2>2 DEF Identified
  <2>6. QED
    BY <2>1, <2>3, <2>4, <2>5 DEF Traced
<1>4. QED
  BY <1>1, <1>2, <1>3 DEF CallerStep

(* Traced is invariant. *)
LEMMA TracedHolds == Safety => []Traced
<1>1. Init => Traced
  BY DEF Init, Traced, Placed, Numbered, Identified, Followed, Held
<1>2. Inv /\ Traced /\ [Next]_vars => Traced'
  <2> SUFFICES ASSUME TypeOK, Coherent, Traced, [Next]_vars PROVE Traced'
    BY DEF Inv
  <2>1. CASE Poll \/ Tick \/ SetClock \/ UNCHANGED vars
    <3>1. UNCHANGED <<queueVars, created, batch, toRun, callVars, ids, histVars>>
      BY <2>1 DEF Poll, Tick, SetClock, vars, batchVars
    <3>2. UNCHANGED <<heap, active, created, batch, toRun, canceling, functors, ids, ran, cancelled,
                      repeating, misread>>
      BY <3>1 DEF queueVars, callVars, histVars
    <3>3. Placed'
      BY <3>2 DEF Traced, Placed, Held, Key, Queued, Adds, Expiring
    <3>4. Numbered' /\ (Followed => Followed') /\ (Identified => Identified')
      BY <3>2, SameTimers DEF Traced, Identified
    <3>5. QED
      BY <3>2, <3>3, <3>4 DEF Traced
  <2>2. QED
    BY <2>1, ExpireTraced, RunTraced, ResetTraced, LoopTraced, FunctorsRunTraced, CallerTraced
       DEF Next, HandleRead
<1>3. QED
  BY <1>1, <1>2, Inductive, PTL DEF Safety

(* TimersKept holds in every reachable state: while ids name their own     *)
(* timers, one leaves the queue only cancelled, or having run for good.    *)
THEOREM NoneForgotten == Safety => []TimersKept
<1>1. Inv /\ Traced => TimersKept
  BY TracedImplies DEF Inv
<1>2. QED
  BY <1>1, Inductive, TracedHolds, PTL

(* GoneStaysGone holds in every reachable state: a cancelled timer, or one *)
(* that ran and does not repeat, is not in the queue again.                *)
THEOREM NoneRevived == Safety => []GoneStaysGone
<1>1. Inv /\ Traced => GoneStaysGone
  BY TracedImplies DEF Inv
<1>2. QED
  BY <1>1, Inductive, TracedHolds, PTL

=============================================================================
