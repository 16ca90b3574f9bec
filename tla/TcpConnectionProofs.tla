------------------------ MODULE TcpConnectionProofs ------------------------
(***************************************************************************)
(* For any number of other threads, any length of messages and any room in *)
(* the socket: as long as no store of state_ undid a handleClose(), output *)
(* that waits is watched for, the end of a connection is told once, no     *)
(* byte is skipped and the FIN waits for the loop thread's bytes.  Bytes   *)
(* stay in order whatever happens.                                         *)
(***************************************************************************)
EXTENDS TcpConnection, SequenceTheorems, TLAPS

(* A functor that sends has something to send. *)
Named ==
  /\ \A i \in DOMAIN functors : functors[i].op = "send" => functors[i].msg # 0
  /\ \A o \in Others :
       /\ pending[o].op = "send" => pending[o].msg # 0
       /\ pending[o].op \notin {"established", "destroyed"}

Young == {"none", "kConnecting"}

(***************************************************************************)
(* What OutputIsWatched and ClosedOnce rest on: which functors may wait in *)
(* each state.  Nobody calls before connectEstablished(), which is the     *)
(* first functor and comes once.                                           *)
(***************************************************************************)
Early ==
  /\ state = "none" => functors = <<>> /\ ~inMap
  /\ state = "kConnecting" =>
       /\ functors # <<>> /\ functors[1].op = "established"
       /\ \A i \in DOMAIN functors : i # 1 => functors[i].op = "destroyed"
  /\ state \in Young => output = <<>> /\ events = {} /\ \A o \in Others : pending[o] = Idle
  /\ state \notin Young => \A i \in DOMAIN functors : functors[i].op # "established"

Ended ==
  /\ downs = IF state = "kDisconnected" THEN 1 ELSE 0
  /\ failed \in {"none", "remove"}

Orderly == ~raced => Early /\ Ended /\ OutputIsWatched

Inv == TypeOK /\ Named /\ Orderly

-----------------------------------------------------------------------------
(* A sequence cut in two. *)
LEMMA Cut ==
  ASSUME NEW s \in Seq(Byte), NEW n \in 0 .. Len(s)
  PROVE  /\ SubSeq(s, 1, n) \in Seq(Byte)
         /\ SubSeq(s, n + 1, Len(s)) \in Seq(Byte)
         /\ SubSeq(s, n + 1, Len(s)) = <<>> <=> n = Len(s)
<1>1. Len(s) \in Nat /\ \A i \in 1 .. Len(s) : s[i] \in Byte
  OBVIOUS
<1>2. SubSeq(s, 1, n) \in Seq(Byte)
  BY <1>1, SubSeqProperties
<1>3. /\ SubSeq(s, n + 1, Len(s)) \in Seq(Byte)
      /\ Len(SubSeq(s, n + 1, Len(s))) = IF n + 1 <= Len(s) THEN Len(s) - (n + 1) + 1 ELSE 0
  BY <1>1, SubSeqProperties
<1>4. SubSeq(s, n + 1, Len(s)) = <<>> <=> n = Len(s)
  <2>1. Len(SubSeq(s, n + 1, Len(s))) = 0 <=> n = Len(s)
    BY <1>1, <1>3
  <2> DEFINE rest == SubSeq(s, n + 1, Len(s))
  <2>2. rest \in Seq(Byte)
    BY <1>3
  <2> HIDE DEF rest
  <2>3. rest = <<>> <=> Len(rest) = 0
    BY <2>2, EmptySeq
  <2>4. QED
    BY <2>1, <2>3 DEF rest
<1>5. QED
  BY <1>2, <1>3, <1>4

(* write() takes no more than it is given and than there is room for. *)
LEMMA Takes ==
  ASSUME TypeOK, NEW n \in Nat
  PROVE  Taken(n) \in 0 .. n /\ unread + Taken(n) \in 0 .. KernelRoom
BY ConnectionAssumption DEF TypeOK, Taken, Smaller

(* downs is counted up to 2. *)
LEMMA DownsType ==
  ASSUME TypeOK
  PROVE  Smaller(downs + 1, 2) \in 0 .. 2 /\ (downs = 0 => Smaller(downs + 1, 2) = 1)
BY DEF TypeOK, Smaller

(* The bounds of the kernel's buffer. *)
LEMMA RoomType == KernelRoom \in Nat /\ 0 \in 0 .. KernelRoom
BY ConnectionAssumption

(* A message's bytes. *)
LEMMA BytesType ==
  ASSUME NEW m \in Messages
  PROVE  Bytes(m) \in Seq(Byte) /\ Len(Bytes(m)) = MsgLen /\ Bytes(m) # <<>>
<1>1. MsgLen \in Nat \ {0}
  BY ConnectionAssumption
<1>2. QED
  BY <1>1 DEF Bytes, Byte

(* One more message, the last one. *)
LEMMA Accepted ==
  ASSUME TypeOK, NEW t \in Threads, NEW m, Accepts(t, m)
  PROVE  /\ sender' \in Seq(Threads) /\ Len(sender') <= MaxSends
         /\ m = Len(sender) + 1 /\ m \in Nat /\ m \notin DOMAIN sender
         /\ DOMAIN sender' = DOMAIN sender \union {m}
         /\ sender'[m] = t
         /\ \A i \in DOMAIN sender : sender'[i] = sender[i] /\ i < m
BY ConnectionAssumption DEF TypeOK, Accepts, Messages

(* sendInLoop() keeps the types, watches for room exactly when something   *)
(* is left in the buffer, and leaves a closed channel alone.               *)
LEMMA SendLeaves ==
  ASSUME TypeOK, NEW m \in Messages, sendInLoop(m)
  PROVE  /\ output' \in Seq(Byte)
         /\ wire' \in Seq(Byte)
         /\ unread' \in 0 .. KernelRoom
         /\ events' \in SUBSET {"read", "write"}
         /\ "read" \in events' <=> "read" \in events
         /\ ("write" \in events <=> output # <<>>) => ("write" \in events' <=> output' # <<>>)
         /\ state = "kDisconnected" => events' = events
<1> DEFINE direct == "write" \notin events /\ output = <<>>
           n == IF direct THEN Taken(MsgLen) ELSE 0
<1>1. MsgLen \in Nat \ {0}
  BY ConnectionAssumption
<1>2. n \in 0 .. MsgLen /\ unread + n \in 0 .. KernelRoom
  <2>1. CASE direct
    BY <1>1, <2>1, Takes
  <2>2. CASE ~direct
    BY <1>1, <2>2, RoomType DEF TypeOK
  <2>3. QED
    BY <2>1, <2>2
<1>3. CASE UNCHANGED <<events, output, unread, wire>>
  BY <1>3 DEF TypeOK
<1>4. CASE ~UNCHANGED <<events, output, unread, wire>>
  <2>1. /\ state # "kDisconnected"
        /\ wire' = wire \o SubSeq(Bytes(m), 1, n)
        /\ unread' = unread + n
        /\ output' = output \o SubSeq(Bytes(m), n + 1, MsgLen)
        /\ events' = IF n < MsgLen THEN events \union {"write"} ELSE events
    BY <1>4 DEF sendInLoop
  <2>2. /\ SubSeq(Bytes(m), 1, n) \in Seq(Byte)
        /\ SubSeq(Bytes(m), n + 1, MsgLen) \in Seq(Byte)
        /\ SubSeq(Bytes(m), n + 1, MsgLen) = <<>> <=> n = MsgLen
    BY <1>2, BytesType, Cut
  <2>3. output \in Seq(Byte) /\ wire \in Seq(Byte) /\ events \in SUBSET {"read", "write"}
    BY DEF TypeOK
  <2>4. output' \in Seq(Byte) /\ wire' \in Seq(Byte)
    BY <2>1, <2>2, <2>3, ConcatProperties
  <2>5. output' = <<>> <=> output = <<>> /\ n = MsgLen
    BY <2>1, <2>2, <2>3, ConcatEqualIffEmpty
  <2>6. ~direct => n = 0
    OBVIOUS
  <2> HIDE DEF n
  <2>7. ("write" \in events <=> output # <<>>) => ("write" \in events' <=> output' # <<>>)
    <3> SUFFICES ASSUME "write" \in events <=> output # <<>>
                 PROVE  "write" \in events' <=> output' # <<>>
      OBVIOUS
    <3>1. CASE n = MsgLen
      BY <1>1, <2>1, <2>5, <2>6, <3>1
    <3>2. CASE n # MsgLen
      <4>1. n < MsgLen
        BY <1>1, <1>2, <3>2
      <4>2. QED
        BY <2>1, <2>5, <3>2, <4>1
    <3>3. QED
      BY <3>1, <3>2
  <2>8. QED
    BY <1>2, <2>1, <2>3, <2>4, <2>7
<1>5. QED
  BY <1>3, <1>4

(* So does handleWrite(). *)
LEMMA WriteLeaves ==
  ASSUME TypeOK, HandleWrite
  PROVE  /\ output' \in Seq(Byte)
         /\ wire' \in Seq(Byte)
         /\ unread' \in 0 .. KernelRoom
         /\ events' \in SUBSET {"read", "write"}
         /\ finSent' \in BOOLEAN
         /\ "read" \in events' <=> "read" \in events
         /\ "write" \in events
         /\ "write" \in events' <=> output' # <<>>
<1> DEFINE n == Taken(Len(output))
<1>1. output \in Seq(Byte) /\ wire \in Seq(Byte) /\ events \in SUBSET {"read", "write"}
      /\ finSent \in BOOLEAN
  BY DEF TypeOK
<1>2. n \in 0 .. Len(output) /\ unread + n \in 0 .. KernelRoom
  BY <1>1, Takes
<1>3. /\ wire' = wire \o SubSeq(output, 1, n)
      /\ unread' = unread + n
      /\ output' = SubSeq(output, n + 1, Len(output))
      /\ IF n = Len(output)
         THEN /\ events' = events \ {"write"}
              /\ finSent' = (finSent \/ state = "kDisconnecting")
         ELSE UNCHANGED <<events, finSent>>
      /\ "write" \in events
  BY DEF HandleWrite
<1> HIDE DEF n
<1>4. /\ SubSeq(output, 1, n) \in Seq(Byte)
      /\ output' \in Seq(Byte)
      /\ output' = <<>> <=> n = Len(output)
  BY <1>1, <1>2, <1>3, Cut
<1>5. wire' \in Seq(Byte)
  BY <1>1, <1>3, <1>4, ConcatProperties
<1>6. QED
  BY <1>1, <1>2, <1>3, <1>4, <1>5

-----------------------------------------------------------------------------
(* Queues of functors. *)

(* One more functor, at the end. *)
LEMMA Queued ==
  ASSUME TypeOK, NEW f \in Functors, functors' = Append(functors, f)
  PROVE  /\ functors' \in Seq(Functors)
         /\ functors' # <<>>
         /\ DOMAIN functors' = DOMAIN functors \union {Len(functors) + 1}
         /\ \A i \in DOMAIN functors : functors'[i] = functors[i]
         /\ functors'[Len(functors) + 1] = f
         /\ functors = <<>> => functors'[1] = f
         /\ functors # <<>> => functors'[1] = functors[1]
BY DEF TypeOK

(* The oldest functor is taken. *)
LEMMA Dequeued ==
  ASSUME TypeOK, NEW op, Runs(op)
  PROVE  /\ Head(functors) \in Functors
         /\ functors # <<>> /\ Head(functors) = functors[1] /\ 1 \in DOMAIN functors
         /\ functors[1].op = op
         /\ functors' \in Seq(Functors)
         /\ \A i \in DOMAIN functors' :
              i + 1 \in DOMAIN functors /\ i + 1 # 1 /\ functors'[i] = functors[i + 1]
BY DEF TypeOK, Runs

(* What the server and the callers queue are functors. *)
LEMMA FunctorType ==
  /\ \A op \in {"established", "destroyed", "send", "shutdown", "forceClose"} :
       functor(op, 0) \in Functors /\ functor(op, 0).op = op
  /\ \A m \in Messages : functor("send", m) \in Functors /\ functor("send", m).op = "send"
                         /\ functor("send", m).msg = m
BY DEF functor, Functors

(* Messages are numbered from 1. *)
LEMMA MessageType == Messages \subseteq Nat \ {0}
BY ConnectionAssumption DEF Messages

-----------------------------------------------------------------------------
(* The server's thread. *)

LEMMA NewConnectionKeeps ==
  ASSUME Inv, NewConnection
  PROVE  Inv'
<1> USE DEF Inv, NewConnection, netVars, histVars, queueInLoop
<1>1. functor("established", 0) \in Functors /\ functor("established", 0).op = "established"
  BY FunctorType
<1>2. TypeOK'
  BY <1>1, Queued DEF TypeOK, States
<1>3. Named'
  BY <1>1, Queued DEF Named
<1>4. Orderly'
  <2> SUFFICES ASSUME ~raced PROVE Early' /\ Ended' /\ OutputIsWatched'
    BY DEF Orderly
  <2>1. Early'
    BY <1>1, Queued DEF Orderly, Early, Young
  <2>2. Ended' /\ OutputIsWatched'
    BY DEF Orderly, Ended, OutputIsWatched, Live
  <2>3. QED
    BY <2>1, <2>2
<1>5. QED
  BY <1>2, <1>3, <1>4

LEMMA ServerDestroyedKeeps ==
  ASSUME Inv, ServerDestroyed
  PROVE  Inv'
<1> USE DEF Inv, ServerDestroyed, netVars, histVars, queueInLoop
<1>1. functor("destroyed", 0) \in Functors /\ functor("destroyed", 0).op = "destroyed"
  BY FunctorType
<1>2. TypeOK'
  BY <1>1, Queued DEF TypeOK
<1>3. Named'
  BY <1>1, Queued DEF Named
<1>4. Orderly'
  BY <1>1, Queued DEF Orderly, Early, Young, Ended, OutputIsWatched
<1>5. QED
  BY <1>2, <1>3, <1>4

-----------------------------------------------------------------------------
(* The loop thread runs a functor. *)

LEMMA EstablishedKeeps ==
  ASSUME Inv, ConnectEstablished
  PROVE  Inv'
<1> USE DEF Inv, ConnectEstablished, netVars, histVars
<1>1. TypeOK'
  BY Dequeued DEF TypeOK, States
<1>2. Named'
  BY Dequeued DEF Named
<1>3. Orderly'
  BY Dequeued DEF Orderly, Early, Young, Ended, OutputIsWatched, Live
<1>4. QED
  BY <1>1, <1>2, <1>3

LEMMA DestroyedKeeps ==
  ASSUME Inv, ConnectDestroyed
  PROVE  Inv'
<1> USE DEF Inv, ConnectDestroyed, netVars
<1>1. TypeOK'
  BY Dequeued, DownsType DEF TypeOK, States
<1>2. Named'
  BY Dequeued DEF Named
<1>3. Orderly'
  BY Dequeued, DownsType DEF Orderly, Early, Young, Ended, OutputIsWatched, Live, TypeOK, States
<1>4. QED
  BY <1>1, <1>2, <1>3

LEMMA SendFunctorKeeps ==
  ASSUME Inv, SendFunctor
  PROVE  Inv'
<1> USE DEF Inv, SendFunctor, histVars
<1>1. Head(functors).msg \in Messages
  BY Dequeued DEF Named, Functors
<1>2. TypeOK'
  BY <1>1, Dequeued, SendLeaves DEF TypeOK
<1>3. Named'
  BY Dequeued DEF Named
<1>4. Orderly'
  <2> SUFFICES ASSUME ~raced PROVE Early' /\ Ended' /\ OutputIsWatched'
    BY DEF Orderly
  <2>1. Early /\ Ended /\ OutputIsWatched
    BY DEF Orderly
  <2>2. state \notin Young
    BY <2>1, Dequeued DEF Early, Young
  <2>3. Early'
    BY <2>1, <2>2, Dequeued DEF Early, Young
  <2>4. Ended'
    BY <2>1 DEF Ended
  <2>5. state \in Live \/ state = "kDisconnected"
    BY <2>2 DEF Young, Live, TypeOK, States
  <2>6. OutputIsWatched'
    BY <1>1, <2>1, <2>5, SendLeaves DEF OutputIsWatched, Live
  <2>7. QED
    BY <2>3, <2>4, <2>6
<1>5. QED
  BY <1>2, <1>3, <1>4

LEMMA ShutdownFunctorKeeps ==
  ASSUME Inv, ShutdownFunctor
  PROVE  Inv'
<1> USE DEF Inv, ShutdownFunctor, netVars, histVars, shutdownInLoop
<1>1. TypeOK'
  BY Dequeued DEF TypeOK
<1>2. Named'
  BY Dequeued DEF Named
<1>3. Orderly'
  BY Dequeued DEF Orderly, Early, Young, Ended, OutputIsWatched, Live
<1>4. QED
  BY <1>1, <1>2, <1>3

LEMMA ForceCloseFunctorKeeps ==
  ASSUME Inv, ForceCloseFunctor
  PROVE  Inv'
<1> USE DEF Inv, ForceCloseFunctor, netVars, handleClose
<1>1. TypeOK'
  BY Dequeued, DownsType DEF TypeOK, States
<1>2. Named'
  BY Dequeued DEF Named
<1>3. Orderly'
  BY Dequeued, DownsType DEF Orderly, Early, Young, Ended, OutputIsWatched, Live
<1>4. QED
  BY <1>1, <1>2, <1>3

-----------------------------------------------------------------------------
(* The loop thread handles an event, or a callback makes a call. *)

LEMMA EventKeeps ==
  ASSUME Inv, EventStep
  PROVE  Inv'
<1> USE DEF Inv, netVars, histVars
<1>1. CASE HandleRead
  <2>1. TypeOK'
    BY <1>1, DownsType DEF HandleRead, handleClose, TypeOK, States
  <2>2. Orderly'
    BY <1>1, DownsType DEF HandleRead, handleClose, Orderly, Early, Young, Ended, OutputIsWatched,
                           Live, TypeOK, States
  <2>3. QED
    BY <1>1, <2>1, <2>2 DEF HandleRead, Named
<1>2. CASE HandleWrite
  <2>1. TypeOK'
    BY <1>2, WriteLeaves DEF HandleWrite, TypeOK
  <2>2. Orderly'
    BY <1>2, WriteLeaves DEF HandleWrite, Orderly, Early, Young, Ended, OutputIsWatched, Live,
                             TypeOK, States
  <2>3. QED
    BY <1>2, <2>1, <2>2 DEF HandleWrite, Named
<1>3. QED
  BY <1>1, <1>2 DEF EventStep

LEMMA LoopCallKeeps ==
  ASSUME Inv, LoopCall
  PROVE  Inv'
<1> USE DEF Inv, netVars, histVars
<1>1. ASSUME NEW m \in Messages, LoopSend(m)
      PROVE  Inv'
  <2>1. TypeOK'
    <3>1. sender' \in Seq(Threads) /\ Len(sender') <= MaxSends
      BY <1>1, Accepted DEF LoopSend, Threads
    <3>2. QED
      BY <1>1, <3>1, SendLeaves DEF LoopSend, TypeOK
  <2>2. Orderly'
    BY <1>1, SendLeaves DEF LoopSend, Orderly, Early, Young, Ended, OutputIsWatched, Live
  <2>3. QED
    BY <1>1, <2>1, <2>2 DEF LoopSend, Named
<1>2. CASE LoopShutdown
  <2>1. TypeOK'
    BY <1>2 DEF LoopShutdown, shutdownInLoop, TypeOK, States, Threads
  <2>2. Orderly'
    BY <1>2 DEF LoopShutdown, Orderly, Early, Young, Ended, OutputIsWatched, Live
  <2>3. QED
    BY <1>2, <2>1, <2>2 DEF LoopShutdown, Named
<1>3. CASE LoopForceClose
  <2>1. functor("forceClose", 0) \in Functors /\ functor("forceClose", 0).op = "forceClose"
    BY FunctorType
  <2>2. TypeOK'
    BY <1>3, <2>1, Queued DEF LoopForceClose, queueInLoop, TypeOK, States
  <2>3. Named'
    BY <1>3, <2>1, Queued DEF LoopForceClose, queueInLoop, Named
  <2>4. Orderly'
    BY <1>3, <2>1, Queued DEF LoopForceClose, queueInLoop, Orderly, Early, Young, Ended,
                              OutputIsWatched, Live
  <2>5. QED
    BY <2>2, <2>3, <2>4
<1>4. CASE LoopForceCloseWithDelay
  <2>1. TypeOK'
    BY <1>4 DEF LoopForceCloseWithDelay, TypeOK, States
  <2>2. Orderly'
    BY <1>4 DEF LoopForceCloseWithDelay, Orderly, Early, Young, Ended, OutputIsWatched, Live
  <2>3. QED
    BY <1>4, <2>1, <2>2 DEF LoopForceCloseWithDelay, Named
<1>5. QED
  BY <1>1, <1>2, <1>3, <1>4 DEF LoopCall

-----------------------------------------------------------------------------
(* Other threads, and the peer. *)

(* What a call queues is a functor, not a store of the state. *)
LEMMA CallIsFunctor ==
  ASSUME TypeOK, NEW o \in Others, OtherQueues(o)
  PROVE  pending[o] \in Functors
<1>1. pending[o] \in Functors \union Stores \union {Idle}
  BY DEF TypeOK
<1>2. pending[o].op \in {"send", "shutdown", "forceClose"}
  BY DEF OtherQueues
<1>3. QED
  BY <1>1, <1>2 DEF Stores, Idle

LEMMA OtherKeeps ==
  ASSUME Inv, NEW o \in Others, OtherStep(o)
  PROVE  Inv'
<1> USE DEF Inv, netVars, histVars
<1>1. ASSUME NEW m \in Messages, OtherSend(o, m)
      PROVE  Inv'
  <2>1. functor("send", m) \in Functors /\ functor("send", m).op = "send" /\ functor("send", m).msg # 0
    BY FunctorType, MessageType
  <2>2. TypeOK'
    <3>1. sender' \in Seq(Threads) /\ Len(sender') <= MaxSends
      BY <1>1, Accepted DEF OtherSend, Threads
    <3>2. QED
      BY <1>1, <2>1, <3>1 DEF OtherSend, TypeOK
  <2>3. Named'
    BY <1>1, <2>1 DEF OtherSend, Named, TypeOK
  <2>4. Orderly'
    BY <1>1 DEF OtherSend, Orderly, Early, Young, Ended, OutputIsWatched
  <2>5. QED
    BY <2>2, <2>3, <2>4
<1>2. ASSUME NEW op \in {"shuttingDown", "closing"}, OtherTests(o, op, Live)
      PROVE  Inv'
  <2>1. functor(op, 0) \in Stores /\ functor(op, 0).op = op
    BY DEF functor, Stores
  <2>2. TypeOK'
    BY <1>2, <2>1 DEF OtherTests, TypeOK
  <2>3. Named'
    BY <1>2, <2>1 DEF OtherTests, Named, TypeOK
  <2>4. Orderly'
    BY <1>2 DEF OtherTests, Orderly, Early, Young, Live, Ended, OutputIsWatched
  <2>5. QED
    BY <2>2, <2>3, <2>4
<1>3. CASE OtherStores(o)
  <2>1. PICK op \in {"shutdown", "forceClose"} : pending' = [pending EXCEPT ![o] = functor(op, 0)]
    BY <1>3 DEF OtherStores
  <2>2. functor(op, 0) \in Functors /\ functor(op, 0).op = op
    BY FunctorType
  <2>3. TypeOK'
    <3>1. state' \in States /\ raced' \in BOOLEAN /\ closer' \in Threads \union {"nobody"}
      BY <1>3 DEF OtherStores, TypeOK, States, Threads
    <3>2. QED
      BY <1>3, <2>1, <2>2, <3>1 DEF OtherStores, TypeOK
  <2>4. Named'
    BY <1>3, <2>1, <2>2 DEF OtherStores, Named, TypeOK
  <2>5. Orderly'
    <3> SUFFICES ASSUME ~raced' PROVE Early' /\ Ended' /\ OutputIsWatched'
      BY DEF Orderly
    <3>1. ~raced /\ state # "kDisconnected" /\ state' = "kDisconnecting"
      BY <1>3 DEF OtherStores
    <3>2. Early /\ Ended /\ OutputIsWatched
      BY <3>1 DEF Orderly
    <3>3. state \notin Young
      BY <1>3, <3>2 DEF OtherStores, Early, Idle
    <3>4. state' \notin Young /\ state \in Live /\ state' \in Live
      BY <3>1, <3>3 DEF Young, Live, TypeOK, States
    <3>5. Early'
      BY <1>3, <3>2, <3>3, <3>4 DEF OtherStores, Early, Young
    <3>6. Ended' /\ OutputIsWatched'
      BY <1>3, <3>1, <3>2, <3>4 DEF OtherStores, Ended, OutputIsWatched
    <3>7. QED
      BY <3>5, <3>6
  <2>6. QED
    BY <2>3, <2>4, <2>5
<1>4. CASE OtherQueues(o)
  <2>1. pending[o] \in Functors /\ pending[o].op # "established"
    BY <1>4, CallIsFunctor DEF OtherQueues
  <2>2. TypeOK'
    <3>1. pending' \in [Others -> Functors \union Stores \union {Idle}]
      BY <1>4 DEF OtherQueues, TypeOK
    <3>2. QED
      BY <1>4, <2>1, <3>1, Queued DEF OtherQueues, TypeOK
  <2>3. Named'
    <3>1. \A i \in DOMAIN functors' : functors'[i].op = "send" => functors'[i].msg # 0
      BY <1>4, <2>1, Queued DEF OtherQueues, Named
    <3>2. Idle.op \notin {"send", "established", "destroyed"}
      BY DEF Idle
    <3>3. QED
      BY <1>4, <3>1, <3>2 DEF OtherQueues, Named, TypeOK
  <2>4. Orderly'
    <3> SUFFICES ASSUME ~raced PROVE Early' /\ Ended' /\ OutputIsWatched'
      BY <1>4 DEF Orderly, OtherQueues
    <3>1. Early /\ Ended /\ OutputIsWatched
      BY DEF Orderly
    <3>2. state \notin Young /\ state' = state
      BY <1>4, <3>1 DEF OtherQueues, Early, Idle
    <3>3. \A i \in DOMAIN functors' : functors'[i].op # "established"
      BY <1>4, <2>1, <3>1, <3>2, Queued DEF OtherQueues, Early
    <3>4. Early'
      BY <3>2, <3>3 DEF Early, Young
    <3>5. Ended' /\ OutputIsWatched'
      BY <1>4, <3>1 DEF OtherQueues, Ended, OutputIsWatched
    <3>6. QED
      BY <3>4, <3>5
  <2>5. QED
    BY <2>2, <2>3, <2>4
<1>5. OtherShutdown(o) => OtherTests(o, "shuttingDown", Live)
  BY DEF OtherShutdown, OtherTests, Live
<1>6. QED
  BY <1>1, <1>2, <1>3, <1>4, <1>5 DEF OtherStep, OtherForceClose

LEMMA PeerKeeps ==
  ASSUME Inv, PeerReads \/ PeerCloses
  PROVE  Inv'
<1> USE DEF Inv, PeerReads, PeerCloses, histVars
<1>1. CASE PeerReads
  BY <1>1, RoomType DEF TypeOK, Named, Orderly, Early, Young, Ended, OutputIsWatched
<1>2. CASE PeerCloses
  BY <1>2 DEF TypeOK, Named, Orderly, Early, Young, Ended, OutputIsWatched
<1>3. QED
  BY <1>1, <1>2

-----------------------------------------------------------------------------
(* Inv is invariant. *)
LEMMA Inductive == Safety => []Inv
<1>1. ASSUME Init PROVE Inv
  <2>1. TypeOK
    <3>1. /\ pending \in [Others -> Functors \union Stores \union {Idle}]
          /\ sender \in Seq(Threads) /\ Len(sender) <= MaxSends
          /\ output \in Seq(Byte) /\ functors \in Seq(Functors) /\ wire \in Seq(Byte)
      BY <1>1, ConnectionAssumption DEF Init
    <3>2. unread \in 0 .. KernelRoom /\ downs \in 0 .. 2
      BY <1>1, RoomType DEF Init
    <3>3. QED
      BY <1>1, <3>1, <3>2 DEF Init, TypeOK, States
  <2>2. Named
    BY <1>1 DEF Init, Named, Idle
  <2>3. Orderly
    BY <1>1 DEF Init, Orderly, Early, Young, Ended, OutputIsWatched, Live
  <2>4. QED
    BY <2>1, <2>2, <2>3 DEF Inv
<1>2. Inv /\ [Next]_vars => Inv'
  <2> SUFFICES ASSUME Inv, [Next]_vars PROVE Inv'
    OBVIOUS
  <2>1. CASE UNCHANGED vars
    BY <2>1 DEF vars, netVars, histVars, Inv, TypeOK, Named, Orderly, Early, Ended, OutputIsWatched
  <2>2. CASE FunctorStep
    BY <2>2, EstablishedKeeps, DestroyedKeeps, SendFunctorKeeps, ShutdownFunctorKeeps,
       ForceCloseFunctorKeeps DEF FunctorStep
  <2>3. QED
    BY <2>1, <2>2, NewConnectionKeeps, ServerDestroyedKeeps, EventKeeps, LoopCallKeeps,
       OtherKeeps, PeerKeeps DEF Next
<1>3. QED
  BY <1>1, <1>2, PTL DEF Safety

(* TypeOK holds in every reachable state: what the kernel was given fits   *)
(* its buffer, and a functor that sends carries a message.                 *)
THEOREM TypeCorrect == Safety => []TypeOK
BY Inductive, PTL DEF Inv

(* OutputIsWatched holds in every reachable state: the poller watches for  *)
(* room exactly while a live connection has bytes to write, and watches a  *)
(* closed one for nothing.                                                 *)
THEOREM WatchedWhileWaiting == Safety => []OutputIsWatched
<1>1. Inv => OutputIsWatched
  BY DEF Inv, Orderly, OutputIsWatched
<1>2. QED
  BY <1>1, Inductive, PTL

(* ClosedOnce holds in every reachable state: the user is told of the end  *)
(* at most once, and only remove()'s assert can fail.                      *)
THEOREM ToldOnce == Safety => []ClosedOnce
<1>1. Inv => ClosedOnce
  BY DEF Inv, Orderly, Ended, ClosedOnce
<1>2. QED
  BY <1>1, Inductive, PTL

-----------------------------------------------------------------------------
(***************************************************************************)
(* The way of a byte.  A message that send() accepted waits, in a call of  *)
(* another thread or in a functor, until sendInLoop() puts its bytes into  *)
(* the flow: what the kernel took and what the output buffer holds.        *)
(***************************************************************************)
Flow == wire \o output
InFlow(m) == \E j \in DOMAIN Flow : Flow[j].msg = m

Waiting(m) ==
  \/ \E i \in DOMAIN functors : functors[i].op = "send" /\ functors[i].msg = m
  \/ \E o \in Others : pending[o].op = "send" /\ pending[o].msg = m

(* What waits was sent, by another thread; *)
Callers ==
  /\ \A i \in DOMAIN functors :
       functors[i].op = "send" =>
         functors[i].msg \in DOMAIN sender /\ sender[functors[i].msg] \in Others
  /\ \A o \in Others :
       pending[o].op = "send" => pending[o].msg \in DOMAIN sender /\ sender[pending[o].msg] = o

(* and one thread's messages wait in the order in which it sent them. *)
Fifo ==
  /\ \A i, j \in DOMAIN functors :
       i < j /\ functors[i].op = "send" /\ functors[j].op = "send"
       /\ sender[functors[i].msg] = sender[functors[j].msg]
       => functors[i].msg < functors[j].msg
  /\ \A i \in DOMAIN functors, o \in Others :
       functors[i].op = "send" /\ pending[o].op = "send" /\ sender[functors[i].msg] = o
       => functors[i].msg < pending[o].msg

(* The flow holds whole messages, one thread's in their order and before   *)
(* those of it that wait.                                                  *)
InTurn ==
  /\ \A j \in DOMAIN Flow : Flow[j].msg \in DOMAIN sender
  /\ \A j \in DOMAIN Flow : \A m \in DOMAIN sender :
       Waiting(m) /\ sender[m] = sender[Flow[j].msg] => Flow[j].msg < m
  /\ \A j, k \in DOMAIN Flow :
       j < k /\ sender[Flow[j].msg] = sender[Flow[k].msg] => Before(Flow[j], Flow[k])
  /\ \A j \in DOMAIN Flow : \A a \in 1 .. MsgLen :
       \E i \in DOMAIN Flow : Flow[i] = [msg |-> Flow[j].msg, at |-> a]

(* sendInLoop() gives its message up, and will do so with the next one. *)
Shut == state = "kDisconnected" \/ ("write" \notin events /\ output = <<>> /\ Broken)

(* Until then nothing is lost, *)
Kept == ~raced /\ ~Shut => \A m \in DOMAIN sender : InFlow(m) \/ Waiting(m)

(* and what is lost is never followed by what was sent later. *)
Gapless ==
  ~raced => \A j \in DOMAIN Flow : \A m \in DOMAIN sender :
              sender[m] = sender[Flow[j].msg] /\ m < Flow[j].msg => InFlow(m)

(* The socket is shut down, or about to be, in the last two states only. *)
Late ==
  \/ finSent
  \/ \E i \in DOMAIN functors : functors[i].op = "shutdown"
  \/ \E o \in Others : pending[o].op = "shutdown"
  => state \in {"kDisconnecting", "kDisconnected"}

(* A FIN that shutdown() sent found nothing in the output buffer. *)
Drained == SoftClosed => output = <<>> /\ \A m \in By(Loop) : InFlow(m)

Delivery == Callers /\ Fifo /\ InTurn /\ Kept /\ Gapless /\ Late /\ Drained

-----------------------------------------------------------------------------
(* The flow is a sequence of bytes; their numbers can be compared. *)
LEMMA FlowType ==
  ASSUME TypeOK
  PROVE  /\ Flow \in Seq(Byte) /\ Len(Flow) \in Nat /\ DOMAIN Flow = 1 .. Len(Flow)
         /\ \A j \in DOMAIN Flow : Flow[j] \in Byte /\ Flow[j].msg \in Nat /\ Flow[j].at \in Nat
         /\ sender \in Seq(Threads) /\ Len(sender) \in Nat /\ DOMAIN sender = 1 .. Len(sender)
         /\ \A m \in DOMAIN sender : m \in Messages /\ m \in Nat
<1>1. wire \in Seq(Byte) /\ output \in Seq(Byte)
  BY DEF TypeOK
<1>2. Flow \in Seq(Byte)
  BY <1>1, ConcatProperties DEF Flow
<1> HIDE DEF Flow
<1>3. \A j \in DOMAIN Flow : Flow[j] \in Byte
  BY <1>2
<1>4. \A b \in Byte : b.msg \in Nat /\ b.at \in Nat
  BY ConnectionAssumption DEF Byte, Messages
<1>5. sender \in Seq(Threads) /\ Len(sender) <= MaxSends
  BY DEF TypeOK
<1>6. \A m \in DOMAIN sender : m \in Messages /\ m \in Nat
  BY <1>5, ConnectionAssumption DEF Messages
<1>7. QED
  BY <1>2, <1>3, <1>4, <1>5, <1>6

(* A sequence put together again. *)
LEMMA Rejoined ==
  ASSUME NEW s \in Seq(Byte), NEW n \in 0 .. Len(s)
  PROVE  SubSeq(s, 1, n) \o SubSeq(s, n + 1, Len(s)) = s
<1>1. Len(s) \in Nat /\ 1 \in 1 .. Len(s) + 1 /\ n \in 1 - 1 .. Len(s) /\ Len(s) \in n .. Len(s)
  BY LenProperties
<1>2. SubSeq(s, 1, n) \o SubSeq(s, n + 1, Len(s)) = SubSeq(s, 1, Len(s))
  BY <1>1, ConcatAdjacentSubSeq
<1>3. QED
  BY <1>2, SubSeqFull

(* Three sequences in a row. *)
LEMMA Regrouped ==
  ASSUME NEW s \in Seq(Byte), NEW t \in Seq(Byte), NEW u \in Seq(Byte)
  PROVE  (s \o t) \o u = s \o (t \o u)
BY ConcatAssociative

(* sendInLoop() drops its message, or adds its bytes to the flow. *)
LEMMA SendFlow ==
  ASSUME TypeOK, NEW m \in Messages, sendInLoop(m)
  PROVE  IF Shut THEN UNCHANGED <<events, output, unread, wire>>
                 ELSE Flow' = Flow \o Bytes(m)
<1>1. CASE Shut
  BY <1>1 DEF Shut, sendInLoop
<1>2. CASE ~Shut
  <2> DEFINE direct == "write" \notin events /\ output = <<>>
             n == IF direct THEN Taken(MsgLen) ELSE 0
             b == Bytes(m)
             s1 == SubSeq(b, 1, n)
             s2 == SubSeq(b, n + 1, MsgLen)
  <2>1. wire' = wire \o s1 /\ output' = output \o s2
    BY <1>2 DEF Shut, sendInLoop
  <2>2. n \in 0 .. MsgLen
    BY Takes, ConnectionAssumption
  <2>3. b \in Seq(Byte) /\ Len(b) = MsgLen
    BY BytesType
  <2>4. wire \in Seq(Byte) /\ output \in Seq(Byte)
    BY DEF TypeOK
  <2>5. direct => output = <<>>
    OBVIOUS
  <2>6. ~direct => n = 0
    OBVIOUS
  <2> HIDE DEF n, direct, b
  <2>7. s1 \o s2 = b /\ s1 \in Seq(Byte) /\ s2 \in Seq(Byte)
    BY <2>2, <2>3, Rejoined, Cut
  <2>8. Flow' = (wire \o s1) \o (output \o s2)
    BY <2>1 DEF Flow
  <2>9. CASE direct
    <3>1. output \o s2 = s2 /\ wire \o output = wire
      BY <2>4, <2>5, <2>7, <2>9, ConcatEmptySeq
    <3> HIDE DEF s1, s2
    <3>2. (wire \o s1) \o s2 = wire \o (s1 \o s2)
      BY <2>4, <2>7, Regrouped
    <3>3. QED
      BY <1>2, <2>7, <2>8, <3>1, <3>2 DEF Flow, b
  <2>10. CASE ~direct
    <3>1. s1 = <<>>
      BY <2>6, <2>10, SubSeqEmpty
    <3>2. s2 = b
      BY <2>3, <2>7, <3>1, ConcatEmptySeq
    <3>3. wire \o s1 = wire
      BY <2>4, <3>1, ConcatEmptySeq
    <3>4. (wire \o output) \o b = wire \o (output \o b)
      BY <2>3, <2>4, Regrouped
    <3>5. QED
      BY <1>2, <2>8, <3>2, <3>3, <3>4 DEF Flow, b
  <2>11. QED
    BY <2>9, <2>10
<1>3. QED
  BY <1>1, <1>2

(* handleWrite() moves bytes along in it. *)
LEMMA WriteFlow ==
  ASSUME TypeOK, HandleWrite
  PROVE  Flow' = Flow
<1> DEFINE n == Taken(Len(output))
           s1 == SubSeq(output, 1, n)
           s2 == SubSeq(output, n + 1, Len(output))
<1>1. wire \in Seq(Byte) /\ output \in Seq(Byte) /\ n \in 0 .. Len(output)
  <2>1. wire \in Seq(Byte) /\ output \in Seq(Byte)
    BY DEF TypeOK
  <2>2. Len(output) \in Nat
    BY <2>1
  <2>3. QED
    BY <2>1, <2>2, Takes
<1>2. wire' = wire \o s1 /\ output' = s2
  BY DEF HandleWrite
<1> HIDE DEF n
<1>3. s1 \o s2 = output /\ s1 \in Seq(Byte) /\ s2 \in Seq(Byte)
  BY <1>1, Rejoined, Cut
<1> HIDE DEF s1, s2
<1>4. (wire \o s1) \o s2 = wire \o (s1 \o s2)
  BY <1>1, <1>3, Regrouped
<1>5. QED
  BY <1>2, <1>3, <1>4 DEF Flow

(* The bytes of a message behind those of the flow. *)
LEMMA Extended ==
  ASSUME TypeOK, NEW m \in Messages, Flow' = Flow \o Bytes(m)
  PROVE  /\ DOMAIN Flow' = 1 .. Len(Flow) + MsgLen
         /\ \A j \in DOMAIN Flow : j \in DOMAIN Flow' /\ Flow'[j] = Flow[j]
         /\ \A a \in 1 .. MsgLen : /\ Len(Flow) + a \in DOMAIN Flow'
                                   /\ Flow'[Len(Flow) + a] = [msg |-> m, at |-> a]
         /\ \A j \in DOMAIN Flow' : j \notin DOMAIN Flow =>
              j - Len(Flow) \in 1 .. MsgLen /\ Flow'[j] = [msg |-> m, at |-> j - Len(Flow)]
<1> DEFINE b == Bytes(m)
<1>1. Flow \in Seq(Byte) /\ Len(Flow) \in Nat /\ DOMAIN Flow = 1 .. Len(Flow)
  BY FlowType
<1>2. b \in Seq(Byte) /\ Len(b) = MsgLen /\ MsgLen \in Nat
  BY BytesType, ConnectionAssumption
<1>3. \A a \in 1 .. MsgLen : b[a] = [msg |-> m, at |-> a]
  BY DEF Bytes
<1> HIDE DEF b
<1>4. /\ Flow \o b \in Seq(Byte)
      /\ Len(Flow \o b) = Len(Flow) + MsgLen
      /\ \A i \in 1 .. Len(Flow) + MsgLen : 
           (Flow \o b)[i] = IF i <= Len(Flow) THEN Flow[i] ELSE b[i - Len(Flow)]
  BY <1>1, <1>2, ConcatProperties
<1>5. Flow' = Flow \o b
  BY DEF b
<1>6. DOMAIN (Flow \o b) = 1 .. Len(Flow) + MsgLen
  BY <1>4
<1>7. QED
  BY <1>1, <1>2, <1>3, <1>4, <1>5, <1>6

-----------------------------------------------------------------------------
(***************************************************************************)
(* What a step does to the messages: it leaves the flow alone, and what    *)
(* waited still waits, or it puts one message into the flow.               *)
(***************************************************************************)
Grows ==
  /\ \A m \in DOMAIN sender : m \in DOMAIN sender' /\ sender'[m] = sender[m]
  /\ \A m \in DOMAIN sender', k \in DOMAIN sender : m \notin DOMAIN sender => k < m
  /\ \A m \in DOMAIN sender : Waiting(m)' => Waiting(m)
  /\ raced => raced'
  /\ ~raced' /\ Shut => Shut'

Quiet ==
  /\ Grows
  /\ Flow' = Flow
  /\ ~raced' /\ ~Shut' =>
       \A m \in DOMAIN sender' : m \notin DOMAIN sender \/ Waiting(m) => Waiting(m)'

Writes(m) ==
  /\ Grows
  /\ ~Shut
  /\ Flow' = Flow \o Bytes(m)
  /\ m \in DOMAIN sender'
  /\ \A k \in DOMAIN sender' : k \notin DOMAIN sender => k = m
  /\ \A k \in DOMAIN sender : Waiting(k) => Waiting(k)' \/ k = m
  /\ \A k \in DOMAIN sender : Waiting(k) /\ sender[k] = sender'[m] => m <= k
  /\ \A k \in DOMAIN sender : Waiting(k)' /\ sender[k] = sender'[m] => m < k
  /\ ~Waiting(m)'
  /\ \A j \in DOMAIN Flow : sender[Flow[j].msg] = sender'[m] => Flow[j].msg < m

LEMMA QuietDelivers ==
  ASSUME TypeOK, TypeOK', InTurn, Kept, Gapless, Quiet
  PROVE  InTurn' /\ Kept' /\ Gapless' /\ \A m : InFlow(m)' <=> InFlow(m)
<1>1. Flow' = Flow
  BY DEF Quiet
<1>2. Grows /\ \A m \in DOMAIN sender' : m \in Nat
  <2>1. sender' \in Seq(Threads)
    BY DEF TypeOK
  <2>2. QED
    BY <2>1 DEF Quiet
<1>3. \A m : InFlow(m)' <=> InFlow(m)
  BY <1>1 DEF InFlow
<1>4. /\ \A j \in DOMAIN Flow : Flow[j].msg \in DOMAIN sender
      /\ \A j \in DOMAIN Flow : sender'[Flow[j].msg] = sender[Flow[j].msg]
  BY <1>2 DEF InTurn, Grows
<1>5. \A j \in DOMAIN Flow : \A m \in DOMAIN sender' :
        m \notin DOMAIN sender => Flow[j].msg < m
  BY <1>2, <1>4 DEF Grows
<1> HIDE DEF Flow
<1>6. InTurn'
  <2>1. \A j \in DOMAIN Flow' : Flow'[j].msg \in DOMAIN sender'
    BY <1>1, <1>2, <1>4 DEF Grows
  <2>2. \A j \in DOMAIN Flow' : \A m \in DOMAIN sender' :
          Waiting(m)' /\ sender'[m] = sender'[Flow'[j].msg] => Flow'[j].msg < m
    <3> SUFFICES ASSUME NEW j \in DOMAIN Flow, NEW m \in DOMAIN sender,
                        Waiting(m)', sender[m] = sender[Flow[j].msg]
                 PROVE  Flow[j].msg < m
      BY <1>1, <1>2, <1>4, <1>5 DEF Grows
    <3>1. Waiting(m)
      BY <1>2 DEF Grows
    <3>2. QED
      BY <3>1 DEF InTurn
  <2>3. \A j, k \in DOMAIN Flow' :
          j < k /\ sender'[Flow'[j].msg] = sender'[Flow'[k].msg] => Before(Flow'[j], Flow'[k])
    BY <1>1, <1>4 DEF InTurn
  <2>4. \A j \in DOMAIN Flow' : \A a \in 1 .. MsgLen :
          \E i \in DOMAIN Flow' : Flow'[i] = [msg |-> Flow'[j].msg, at |-> a]
    BY <1>1 DEF InTurn
  <2>5. QED
    BY <2>1, <2>2, <2>3, <2>4 DEF InTurn
<1>7. Kept'
  <2> SUFFICES ASSUME ~raced', ~Shut', NEW m \in DOMAIN sender'
               PROVE  InFlow(m)' \/ Waiting(m)'
    BY DEF Kept
  <2>1. ~raced /\ ~Shut
    BY <1>2 DEF Grows
  <2>2. m \in DOMAIN sender => InFlow(m) \/ Waiting(m)
    BY <2>1 DEF Kept
  <2>3. QED
    BY <1>3, <2>2 DEF Quiet
<1>8. Gapless'
  <2> SUFFICES ASSUME ~raced', NEW j \in DOMAIN Flow, NEW m \in DOMAIN sender',
                      sender'[m] = sender'[Flow[j].msg], m < Flow[j].msg
               PROVE  InFlow(m)'
    BY <1>1 DEF Gapless
  <2>1. ~raced
    BY <1>2 DEF Grows
  <2>2. m \in DOMAIN sender
    <3>1. ~(Flow[j].msg < m)
      BY <1>2, <1>4, FlowType
    <3>2. QED
      BY <1>5, <3>1
  <2>3. sender[m] = sender[Flow[j].msg]
    BY <1>2, <1>4, <2>2 DEF Grows
  <2>4. QED
    BY <1>3, <2>1, <2>2, <2>3 DEF Gapless
<1>9. QED
  BY <1>3, <1>6, <1>7, <1>8

LEMMA WritesDeliver ==
  ASSUME TypeOK, TypeOK', InTurn, Kept, Gapless, NEW m \in Messages, Writes(m)
  PROVE  InTurn' /\ Kept' /\ Gapless' /\ \A k : InFlow(k) => InFlow(k)'
<1> DEFINE L == Len(Flow)
<1>1. Grows /\ m \in DOMAIN sender' /\ \A k \in DOMAIN sender' : k \in Nat
  <2>1. sender' \in Seq(Threads)
    BY DEF TypeOK
  <2>2. QED
    BY <2>1 DEF Writes
<1>2. /\ DOMAIN Flow' = 1 .. L + MsgLen
      /\ \A j \in DOMAIN Flow : j \in DOMAIN Flow' /\ Flow'[j] = Flow[j]
      /\ \A a \in 1 .. MsgLen : L + a \in DOMAIN Flow' /\ Flow'[L + a] = [msg |-> m, at |-> a]
      /\ \A j \in DOMAIN Flow' : j \notin DOMAIN Flow =>
           j - L \in 1 .. MsgLen /\ Flow'[j] = [msg |-> m, at |-> j - L]
  BY Extended DEF Writes
<1>3. /\ Len(Flow) \in Nat /\ DOMAIN Flow = 1 .. Len(Flow)
      /\ \A j \in DOMAIN Flow : Flow[j] \in Byte /\ Flow[j].msg \in Nat /\ Flow[j].at \in Nat
      /\ m \in Nat /\ MsgLen \in Nat /\ 1 \in 1 .. MsgLen
  <2>1. m \in Nat /\ MsgLen \in Nat /\ 1 \in 1 .. MsgLen
    BY ConnectionAssumption DEF Messages
  <2>2. QED
    BY <2>1, FlowType
<1>4. /\ \A j \in DOMAIN Flow : Flow[j].msg \in DOMAIN sender
      /\ \A j \in DOMAIN Flow : sender'[Flow[j].msg] = sender[Flow[j].msg]
  BY <1>1 DEF InTurn, Grows
<1>5. \A j \in DOMAIN Flow : sender[Flow[j].msg] = sender'[m] => Flow[j].msg < m
  BY DEF Writes
<1> HIDE DEF Flow
<1>6. \A k : InFlow(k) => InFlow(k)'
  BY <1>2 DEF InFlow
<1>7. InFlow(m)'
  <2>1. Flow'[L + 1] = [msg |-> m, at |-> 1] /\ L + 1 \in DOMAIN Flow'
    BY <1>2, <1>3
  <2>2. QED
    BY <2>1 DEF InFlow
<1>8. InTurn'
  <2>1. \A j \in DOMAIN Flow' : Flow'[j].msg \in DOMAIN sender'
    <3> TAKE j \in DOMAIN Flow'
    <3>1. CASE j \in DOMAIN Flow
      BY <1>1, <1>2, <1>4, <3>1 DEF Grows
    <3>2. CASE j \notin DOMAIN Flow
      BY <1>1, <1>2, <3>2
    <3>3. QED
      BY <3>1, <3>2
  <2>2. \A j \in DOMAIN Flow' : \A k \in DOMAIN sender' :
          Waiting(k)' /\ sender'[k] = sender'[Flow'[j].msg] => Flow'[j].msg < k
    <3> SUFFICES ASSUME NEW j \in DOMAIN Flow', NEW k \in DOMAIN sender',
                        Waiting(k)', sender'[k] = sender'[Flow'[j].msg]
                 PROVE  Flow'[j].msg < k
      OBVIOUS
    <3>1. k \in DOMAIN sender /\ sender'[k] = sender[k] /\ Waiting(k)
      BY <1>1 DEF Writes, Grows
    <3>2. CASE j \in DOMAIN Flow
      <4>1. Flow'[j] = Flow[j] /\ sender[k] = sender[Flow[j].msg]
        BY <1>2, <1>4, <3>1, <3>2
      <4>2. QED
        BY <3>1, <3>2, <4>1 DEF InTurn
    <3>3. CASE j \notin DOMAIN Flow
      <4>1. Flow'[j].msg = m
        BY <1>2, <3>3
      <4>2. QED
        BY <3>1, <4>1 DEF Writes
    <3>4. QED
      BY <3>2, <3>3
  <2>3. \A j, k \in DOMAIN Flow' :
          j < k /\ sender'[Flow'[j].msg] = sender'[Flow'[k].msg] => Before(Flow'[j], Flow'[k])
    <3> SUFFICES ASSUME NEW j \in DOMAIN Flow', NEW k \in DOMAIN Flow', j < k,
                        sender'[Flow'[j].msg] = sender'[Flow'[k].msg]
                 PROVE  Before(Flow'[j], Flow'[k])
      OBVIOUS
    <3>1. CASE k \in DOMAIN Flow
      <4>1. j \in DOMAIN Flow
        BY <1>2, <1>3, <3>1
      <4>2. QED
        BY <1>2, <1>4, <3>1, <4>1 DEF InTurn
    <3>2. CASE j \in DOMAIN Flow /\ k \notin DOMAIN Flow
      <4>1. Flow'[j] = Flow[j] /\ Flow'[k].msg = m
        BY <1>2, <3>2
      <4>2. sender[Flow[j].msg] = sender'[m]
        BY <1>4, <3>2, <4>1
      <4>3. QED
        BY <1>5, <3>2, <4>1, <4>2 DEF Before
    <3>3. CASE j \notin DOMAIN Flow /\ k \notin DOMAIN Flow
      <4>1. /\ Flow'[j] = [msg |-> m, at |-> j - L]
            /\ Flow'[k] = [msg |-> m, at |-> k - L]
        BY <1>2, <3>3
      <4>2. j - L < k - L
        BY <1>2, <1>3
      <4>3. QED
        BY <4>1, <4>2 DEF Before
    <3>4. QED
      BY <3>1, <3>2, <3>3
  <2>4. \A j \in DOMAIN Flow' : \A a \in 1 .. MsgLen :
          \E i \in DOMAIN Flow' : Flow'[i] = [msg |-> Flow'[j].msg, at |-> a]
    <3> TAKE j \in DOMAIN Flow'
    <3> TAKE a \in 1 .. MsgLen
    <3>1. CASE j \in DOMAIN Flow
      <4>1. PICK i \in DOMAIN Flow : Flow[i] = [msg |-> Flow[j].msg, at |-> a]
        BY <3>1 DEF InTurn
      <4>2. QED
        BY <1>2, <3>1, <4>1
    <3>2. CASE j \notin DOMAIN Flow
      <4>1. Flow'[j].msg = m
        BY <1>2, <3>2
      <4>2. Flow'[L + a] = [msg |-> m, at |-> a] /\ L + a \in DOMAIN Flow'
        BY <1>2
      <4>3. QED
        BY <4>1, <4>2
    <3>3. QED
      BY <3>1, <3>2
  <2>5. QED
    BY <2>1, <2>2, <2>3, <2>4 DEF InTurn
<1>9. Kept'
  <2> SUFFICES ASSUME ~raced', NEW k \in DOMAIN sender'
               PROVE  InFlow(k)' \/ Waiting(k)'
    BY DEF Kept
  <2>1. ~raced /\ ~Shut
    BY <1>1 DEF Writes, Grows
  <2>2. k \in DOMAIN sender => InFlow(k) \/ Waiting(k)
    BY <2>1 DEF Kept
  <2>3. QED
    BY <1>6, <1>7, <2>2 DEF Writes
<1>10. Gapless'
  <2> SUFFICES ASSUME ~raced', NEW j \in DOMAIN Flow', NEW k \in DOMAIN sender',
                      sender'[k] = sender'[Flow'[j].msg], k < Flow'[j].msg
               PROVE  InFlow(k)'
    BY DEF Gapless
  <2>1. ~raced /\ ~Shut
    BY <1>1 DEF Writes, Grows
  <2>2. CASE j \in DOMAIN Flow
    <3>1. Flow'[j] = Flow[j] /\ sender'[Flow[j].msg] = sender[Flow[j].msg]
      BY <1>2, <1>4, <2>2
    <3>2. k \in DOMAIN sender
      <4>1. Flow[j].msg \in DOMAIN sender /\ ~(Flow[j].msg < k)
        BY <1>1, <1>3, <1>4, <2>2, <3>1
      <4>2. QED
        BY <1>1, <4>1 DEF Grows
    <3>3. sender[k] = sender[Flow[j].msg]
      BY <1>1, <3>1, <3>2 DEF Grows
    <3>4. QED
      BY <1>6, <2>1, <2>2, <3>1, <3>2, <3>3 DEF Gapless
  <2>3. CASE j \notin DOMAIN Flow
    <3>1. Flow'[j].msg = m
      BY <1>2, <2>3
    <3>2. k \in DOMAIN sender /\ sender'[k] = sender[k]
      <4>1. k # m
        BY <1>3, <3>1
      <4>2. QED
        BY <1>1, <4>1 DEF Writes, Grows
    <3>3. ~Waiting(k)
      <4>1. k \in Nat /\ ~(m <= k)
        BY <1>3, <3>1, <3>2, FlowType
      <4>2. QED
        BY <3>1, <3>2, <4>1 DEF Writes
    <3>4. QED
      BY <1>6, <2>1, <3>2, <3>3 DEF Kept
  <2>4. QED
    BY <2>2, <2>3
<1>11. QED
  BY <1>6, <1>8, <1>9, <1>10

-----------------------------------------------------------------------------
(* What the queues do to the messages that wait. *)

Carried == Callers /\ Fifo

(* A functor that sends nothing joins the queue. *)
LEMMA OtherFunctorQueued ==
  ASSUME TypeOK, Carried, NEW f \in Functors, f.op # "send",
         functors' = Append(functors, f), UNCHANGED <<pending, sender>>
  PROVE  Carried' /\ \A m : Waiting(m)' <=> Waiting(m)
<1> DEFINE N == Len(functors) + 1
<1>1. /\ DOMAIN functors' = DOMAIN functors \union {N}
      /\ \A i \in DOMAIN functors : functors'[i] = functors[i]
      /\ functors'[N].op # "send"
  BY Queued
<1> HIDE DEF N
<1>2. \A i \in DOMAIN functors' : functors'[i].op = "send" =>
        i \in DOMAIN functors /\ functors'[i] = functors[i]
  BY <1>1
<1>3. Callers'
  BY <1>2 DEF Carried, Callers
<1>4. Fifo'
  BY <1>2 DEF Carried, Fifo
<1>5. \A m : Waiting(m)' <=> Waiting(m)
  BY <1>1, <1>2 DEF Waiting
<1>6. QED
  BY <1>3, <1>4, <1>5 DEF Carried

(* The oldest functor leaves it. *)
LEMMA FunctorTaken ==
  ASSUME TypeOK, Carried, NEW op, Runs(op), UNCHANGED <<pending, sender>>
  PROVE  /\ Carried'
         /\ \A m : Waiting(m)' => Waiting(m)
         /\ \A m : Waiting(m) => Waiting(m)' \/ (op = "send" /\ m = Head(functors).msg)
<1>1. /\ Head(functors) = functors[1] /\ functors[1].op = op
      /\ \A i \in DOMAIN functors' : i + 1 \in DOMAIN functors /\ functors'[i] = functors[i + 1]
  BY Dequeued
<1>2. /\ functors \in Seq(Functors) /\ functors' \in Seq(Functors)
      /\ Len(functors') = Len(functors) - 1 /\ Len(functors) \in Nat \ {0}
  BY DEF TypeOK, Runs
<1>3. \A i \in DOMAIN functors : i = 1 \/ (i - 1 \in DOMAIN functors' /\ functors'[i - 1] = functors[i])
  BY <1>1, <1>2
<1>4. Callers'
  BY <1>1 DEF Carried, Callers
<1>5. Fifo'
  <2>1. \A i, j \in DOMAIN functors' : i < j => i + 1 < j + 1
    BY <1>2
  <2>2. QED
    BY <1>1, <2>1 DEF Carried, Fifo
<1>6. \A m : Waiting(m)' => Waiting(m)
  BY <1>1 DEF Waiting
<1>7. \A m : Waiting(m) => Waiting(m)' \/ (op = "send" /\ m = Head(functors).msg)
  BY <1>1, <1>3 DEF Waiting
<1>8. QED
  BY <1>4, <1>5, <1>6, <1>7 DEF Carried

(* A functor that sends is the first one of its thread. *)
LEMMA SendTaken ==
  ASSUME TypeOK, Carried, Runs("send"), UNCHANGED <<pending, sender>>,
         NEW m, m = Head(functors).msg
  PROVE  /\ m \in DOMAIN sender /\ m \in Nat /\ sender[m] \in Others /\ Waiting(m)
         /\ \A k \in DOMAIN sender : Waiting(k) /\ sender[k] = sender[m] => m <= k
         /\ \A k \in DOMAIN sender : Waiting(k)' /\ sender[k] = sender[m] => m < k
<1>1. /\ functors[1].op = "send" /\ functors[1].msg = m /\ 1 \in DOMAIN functors
      /\ \A i \in DOMAIN functors' : i + 1 \in DOMAIN functors /\ functors'[i] = functors[i + 1]
  BY Dequeued
<1>2. /\ functors \in Seq(Functors) /\ functors' \in Seq(Functors)
      /\ Len(functors) \in Nat /\ DOMAIN functors = 1 .. Len(functors)
      /\ DOMAIN functors' \subseteq Nat \ {0}
  BY DEF TypeOK, Runs
<1>3. m \in DOMAIN sender /\ sender[m] \in Others /\ m \in Nat
  BY <1>1, FlowType DEF Carried, Callers
<1>4. \A i \in DOMAIN functors :
        functors[i].op = "send" /\ sender[functors[i].msg] = sender[m]
        => i = 1 \/ m < functors[i].msg
  <2>1. \A i \in DOMAIN functors : i = 1 \/ 1 < i
    BY <1>2
  <2>2. QED
    BY <1>1, <2>1 DEF Carried, Fifo
<1>5. \A o \in Others : pending[o].op = "send" /\ o = sender[m] => m < pending[o].msg
  BY <1>1 DEF Carried, Fifo
<1>6. \A o \in Others : pending[o].op = "send" => sender[pending[o].msg] = o
  BY DEF Carried, Callers
<1>7. \A k \in DOMAIN sender : Waiting(k) /\ sender[k] = sender[m] => m <= k
  <2> SUFFICES ASSUME NEW k \in DOMAIN sender, Waiting(k), sender[k] = sender[m]
               PROVE  k = m \/ m < k
    BY <1>3, FlowType
  <2>1. CASE \E i \in DOMAIN functors : functors[i].op = "send" /\ functors[i].msg = k
    <3>1. PICK i \in DOMAIN functors : functors[i].op = "send" /\ functors[i].msg = k
      BY <2>1
    <3>2. CASE i = 1
      BY <1>1, <3>1, <3>2
    <3>3. CASE i # 1
      BY <1>4, <3>1, <3>3
    <3>4. QED
      BY <3>2, <3>3
  <2>2. CASE \E o \in Others : pending[o].op = "send" /\ pending[o].msg = k
    BY <1>5, <1>6, <2>2
  <2>3. QED
    BY <2>1, <2>2 DEF Waiting
<1>8. \A k \in DOMAIN sender : Waiting(k)' /\ sender[k] = sender[m] => m < k
  <2> SUFFICES ASSUME NEW k \in DOMAIN sender, Waiting(k)', sender[k] = sender[m]
               PROVE  m < k
    OBVIOUS
  <2>1. CASE \E i \in DOMAIN functors' : functors'[i].op = "send" /\ functors'[i].msg = k
    <3>1. PICK i \in DOMAIN functors' : functors'[i].op = "send" /\ functors'[i].msg = k
      BY <2>1
    <3>2. i + 1 \in DOMAIN functors /\ functors'[i] = functors[i + 1] /\ i + 1 # 1
      BY <1>1, <1>2
    <3>3. QED
      BY <1>4, <3>1, <3>2
  <2>2. CASE \E o \in Others : pending[o].op = "send" /\ pending[o].msg = k
    BY <1>5, <1>6, <2>2
  <2>3. QED
    BY <2>1, <2>2 DEF Waiting
<1>9. QED
  BY <1>1, <1>3, <1>7, <1>8 DEF Waiting

(* Another thread's send() accepts a message. *)
LEMMA CallSends ==
  ASSUME TypeOK, Carried, NEW o \in Others, NEW m \in Messages, OtherSend(o, m)
  PROVE  Carried' /\ \A k : Waiting(k)' <=> Waiting(k) \/ k = m
<1>1. /\ m \notin DOMAIN sender
      /\ DOMAIN sender' = DOMAIN sender \union {m}
      /\ sender'[m] = o
      /\ \A i \in DOMAIN sender : sender'[i] = sender[i] /\ i < m
  BY Accepted DEF OtherSend, Threads
<1>2. /\ pending[o].op # "send" /\ pending'[o].op = "send" /\ pending'[o].msg = m
      /\ \A p \in Others : p # o => pending'[p] = pending[p]
      /\ functors' = functors
  BY DEF OtherSend, TypeOK, functor, Idle
<1>3. Callers'
  BY <1>1, <1>2 DEF Carried, Callers
<1>4. Fifo'
  <2>1. \A i, j \in DOMAIN functors' :
          i < j /\ functors'[i].op = "send" /\ functors'[j].op = "send"
          /\ sender'[functors'[i].msg] = sender'[functors'[j].msg]
          => functors'[i].msg < functors'[j].msg
    BY <1>1, <1>2 DEF Carried, Callers, Fifo
  <2>2. \A i \in DOMAIN functors', p \in Others :
          functors'[i].op = "send" /\ pending'[p].op = "send" /\ sender'[functors'[i].msg] = p
          => functors'[i].msg < pending'[p].msg
    <3> SUFFICES ASSUME NEW i \in DOMAIN functors, NEW p \in Others, functors[i].op = "send",
                        pending'[p].op = "send", sender'[functors[i].msg] = p
                 PROVE  functors[i].msg < pending'[p].msg
      BY <1>2
    <3>1. functors[i].msg \in DOMAIN sender /\ sender[functors[i].msg] = p
      BY <1>1 DEF Carried, Callers
    <3>2. CASE p = o
      BY <1>1, <1>2, <3>1, <3>2
    <3>3. CASE p # o
      BY <1>2, <3>1, <3>3 DEF Carried, Fifo
    <3>4. QED
      BY <3>2, <3>3
  <2>3. QED
    BY <2>1, <2>2 DEF Fifo
<1>5. \A k : Waiting(k)' <=> Waiting(k) \/ k = m
  BY <1>2 DEF Waiting
<1>6. QED
  BY <1>3, <1>4, <1>5 DEF Carried

(* Another thread has tested the state for something else, or stored it. *)
LEMMA CallTests ==
  ASSUME TypeOK, Carried, NEW o \in Others,
         OtherStores(o) \/ \E op \in {"shuttingDown", "closing"} : OtherTests(o, op, Live)
  PROVE  Carried' /\ \A k : Waiting(k)' <=> Waiting(k)
<1>1. /\ pending[o].op # "send" /\ pending'[o].op # "send"
      /\ \A p \in Others : p # o => pending'[p] = pending[p]
      /\ functors' = functors /\ sender' = sender
  BY DEF OtherTests, OtherStores, TypeOK, functor, Idle
<1>2. \A p \in Others : pending'[p].op = "send" => pending'[p] = pending[p]
  BY <1>1
<1>3. Callers'
  BY <1>1, <1>2 DEF Carried, Callers
<1>4. Fifo'
  BY <1>1, <1>2 DEF Carried, Fifo
<1>5. \A k : Waiting(k)' <=> Waiting(k)
  BY <1>1 DEF Waiting
<1>6. QED
  BY <1>3, <1>4, <1>5 DEF Carried

(* The functor of another thread joins the queue. *)
LEMMA CallQueued ==
  ASSUME TypeOK, Carried, NEW o \in Others, OtherQueues(o)
  PROVE  Carried' /\ \A k : Waiting(k)' <=> Waiting(k)
<1> DEFINE N == Len(functors) + 1
<1>1. pending[o] \in Functors
  BY CallIsFunctor
<1>2. /\ DOMAIN functors' = DOMAIN functors \union {N}
      /\ \A i \in DOMAIN functors : functors'[i] = functors[i] /\ i < N
      /\ functors'[N] = pending[o]
      /\ \A i \in DOMAIN functors' : N < i => FALSE
  <2>1. Len(functors) \in Nat /\ DOMAIN functors = 1 .. Len(functors)
    BY DEF TypeOK
  <2>2. QED
    BY <1>1, <2>1, Queued DEF OtherQueues
<1>3. /\ pending'[o].op # "send" /\ sender' = sender
      /\ \A p \in Others : p # o => pending'[p] = pending[p]
  BY DEF OtherQueues, TypeOK, Idle
<1> HIDE DEF N
<1>4. Callers'
  BY <1>2, <1>3 DEF Carried, Callers
<1>5. Fifo'
  <2>1. \A i, j \in DOMAIN functors' :
          i < j /\ functors'[i].op = "send" /\ functors'[j].op = "send"
          /\ sender'[functors'[i].msg] = sender'[functors'[j].msg]
          => functors'[i].msg < functors'[j].msg
    <3> SUFFICES ASSUME NEW i \in DOMAIN functors', NEW j \in DOMAIN functors', i < j,
                        functors'[i].op = "send", functors'[j].op = "send",
                        sender[functors'[i].msg] = sender[functors'[j].msg]
                 PROVE  functors'[i].msg < functors'[j].msg
      BY <1>3
    <3>1. i # N /\ i \in DOMAIN functors
      BY <1>2
    <3>2. CASE j = N
      BY <1>2, <3>1, <3>2 DEF Carried, Callers, Fifo
    <3>3. CASE j # N
      BY <1>2, <3>1, <3>3 DEF Carried, Fifo
    <3>4. QED
      BY <3>2, <3>3
  <2>2. \A i \in DOMAIN functors', p \in Others :
          functors'[i].op = "send" /\ pending'[p].op = "send" /\ sender'[functors'[i].msg] = p
          => functors'[i].msg < pending'[p].msg
    <3> SUFFICES ASSUME NEW i \in DOMAIN functors', NEW p \in Others, functors'[i].op = "send",
                        pending'[p].op = "send", sender[functors'[i].msg] = p
                 PROVE  functors'[i].msg < pending'[p].msg
      BY <1>3
    <3>1. p # o /\ pending'[p] = pending[p]
      BY <1>3
    <3>2. i # N
      BY <1>2, <3>1 DEF Carried, Callers
    <3>3. QED
      BY <1>2, <3>1, <3>2 DEF Carried, Fifo
  <2>3. QED
    BY <2>1, <2>2 DEF Fifo
<1>6. \A k : Waiting(k)' <=> Waiting(k)
  BY <1>2, <1>3 DEF Waiting
<1>7. QED
  BY <1>4, <1>5, <1>6 DEF Carried

(* The loop thread's send() accepts a message. *)
LEMMA LoopAccepts ==
  ASSUME TypeOK, Carried, NEW m, Accepts(Loop, m), UNCHANGED <<functors, pending>>
  PROVE  Carried' /\ \A k : Waiting(k)' <=> Waiting(k)
<1>1. \A i \in DOMAIN sender : i \in DOMAIN sender' /\ sender'[i] = sender[i]
  BY Accepted DEF Threads
<1>2. Carried'
  BY <1>1 DEF Carried, Callers, Fifo
<1>3. \A k : Waiting(k)' <=> Waiting(k)
  BY DEF Waiting
<1>4. QED
  BY <1>2, <1>3

-----------------------------------------------------------------------------
(* A message that sendInLoop() gives up is given up for good. *)
LEMMA StaysShut ==
  ASSUME TypeOK, Next
  PROVE  (raced => raced') /\ (~raced' /\ Shut => Shut')
<1> USE DEF netVars, histVars
<1>1. ASSUME UNCHANGED raced, UNCHANGED output,
             state' = state \/ state # "kDisconnected",
             events' \subseteq events \union {"read"} \/ state' = "kDisconnected",
             finSent' = finSent \/ finSent' = TRUE, peer = "reset" => peer' = "reset"
      PROVE  (raced => raced') /\ (~raced' /\ Shut => Shut')
  BY <1>1 DEF Shut, Broken
<1>2. \A m : Shut /\ sendInLoop(m) => UNCHANGED <<events, output>>
  BY DEF Shut, sendInLoop
<1>3. ASSUME UNCHANGED <<state, finSent, peer, raced>>, Shut => UNCHANGED <<events, output>>
      PROVE  (raced => raced') /\ (~raced' /\ Shut => Shut')
  BY <1>3 DEF Shut, Broken
<1>4. finSent \in BOOLEAN /\ events \subseteq {"read", "write"}
  BY DEF TypeOK
<1>5. CASE NewConnection \/ ServerDestroyed
  BY <1>1, <1>5 DEF NewConnection, ServerDestroyed
<1>6. CASE ConnectEstablished \/ ConnectDestroyed \/ ShutdownFunctor
  BY <1>1, <1>4, <1>6 DEF ConnectEstablished, ConnectDestroyed, ShutdownFunctor, shutdownInLoop
<1>7. CASE ForceCloseFunctor \/ HandleRead
  BY <1>1, <1>7 DEF ForceCloseFunctor, HandleRead, handleClose, Live
<1>8. CASE SendFunctor
  BY <1>2, <1>3, <1>8 DEF SendFunctor
<1>9. CASE HandleWrite
  <2>1. UNCHANGED <<state, raced>> /\ "write" \in events
    BY <1>9 DEF HandleWrite
  <2>2. QED
    BY <2>1 DEF Shut
<1>10. CASE LoopCall
  <2>1. ASSUME NEW m \in Messages, LoopSend(m)
        PROVE  (raced => raced') /\ (~raced' /\ Shut => Shut')
    BY <1>2, <1>3, <2>1 DEF LoopSend
  <2>2. CASE LoopShutdown \/ LoopForceClose \/ LoopForceCloseWithDelay
    BY <1>1, <1>4, <2>2 DEF LoopShutdown, LoopForceClose, LoopForceCloseWithDelay, shutdownInLoop, Live
  <2>3. QED
    BY <1>10, <2>1, <2>2 DEF LoopCall
<1>11. ASSUME NEW o \in Others, OtherStep(o)
       PROVE  (raced => raced') /\ (~raced' /\ Shut => Shut')
  <2>1. CASE OtherStores(o)
    BY <2>1 DEF OtherStores, Shut, Broken
  <2>2. CASE ~OtherStores(o)
    BY <1>1, <1>11, <2>2 DEF OtherStep, OtherSend, OtherShutdown, OtherForceClose, OtherTests,
                             OtherQueues
  <2>3. QED
    BY <2>1, <2>2
<1>12. CASE PeerReads \/ PeerCloses
  BY <1>1, <1>12 DEF PeerReads, PeerCloses
<1>13. QED
  BY <1>5, <1>6, <1>7, <1>8, <1>9, <1>10, <1>11, <1>12 DEF Next, FunctorStep, EventStep

(* A step that touches neither messages nor flow. *)
LEMMA QuietStep ==
  ASSUME TypeOK, Next, UNCHANGED sender, Flow' = Flow, \A m : Waiting(m)' <=> Waiting(m)
  PROVE  Quiet
<1>1. Grows
  <2>1. \A m \in DOMAIN sender : m \in DOMAIN sender' /\ sender'[m] = sender[m]
    OBVIOUS
  <2>2. \A m \in DOMAIN sender', k \in DOMAIN sender : m \notin DOMAIN sender => k < m
    OBVIOUS
  <2>3. QED
    BY <2>1, <2>2, StaysShut DEF Grows
<1>2. QED
  BY <1>1 DEF Quiet

LEMMA Still ==
  ASSUME Carried, UNCHANGED <<functors, pending, sender>>
  PROVE  Carried' /\ \A m : Waiting(m)' <=> Waiting(m)
BY DEF Carried, Callers, Fifo, Waiting

(* A functor that sends, in its turn. *)
LEMMA SendFunctorMoves ==
  ASSUME TypeOK, Named, Next, Carried, InTurn, SendFunctor
  PROVE  Carried' /\ (Quiet \/ \E m \in Messages : Writes(m))
<1>1. Runs("send") /\ UNCHANGED <<pending, sender>> /\ sendInLoop(Head(functors).msg)
  BY DEF SendFunctor
<1>2. Head(functors).msg \in Messages
  BY <1>1, Dequeued DEF Named, Functors
<1> SUFFICES ASSUME NEW m \in Messages, m = Head(functors).msg
             PROVE  Carried' /\ (Quiet \/ Writes(m))
  BY <1>2
<1>3. /\ Carried'
      /\ \A k : Waiting(k)' => Waiting(k)
      /\ \A k : Waiting(k) => Waiting(k)' \/ k = m
  BY <1>1, FunctorTaken
<1>4. /\ m \in DOMAIN sender /\ m \in Nat /\ Waiting(m)
      /\ \A k \in DOMAIN sender : Waiting(k) /\ sender[k] = sender[m] => m <= k
      /\ \A k \in DOMAIN sender : Waiting(k)' /\ sender[k] = sender[m] => m < k
  BY <1>1, SendTaken
<1>5. Grows
  BY <1>1, <1>3, StaysShut DEF Grows
<1>6. CASE Shut
  <2>1. UNCHANGED <<output, wire>>
    BY <1>1, <1>2, <1>6, SendFlow
  <2>2. Flow' = Flow
    BY <2>1 DEF Flow
  <2>3. ~raced' => Shut'
    BY <1>6, StaysShut
  <2>4. QED
    BY <1>3, <1>5, <2>2, <2>3 DEF Quiet
<1>7. CASE ~Shut
  <2>1. Flow' = Flow \o Bytes(m)
    BY <1>1, <1>2, <1>7, SendFlow
  <2>2. \A j \in DOMAIN Flow : sender[Flow[j].msg] = sender'[m] => Flow[j].msg < m
    BY <1>1, <1>4 DEF InTurn
  <2>3. ~Waiting(m)'
    BY <1>4
  <2>4. UNCHANGED sender
    BY <1>1
  <2>5. /\ \A k \in DOMAIN sender' : k \notin DOMAIN sender => k = m
        /\ \A k \in DOMAIN sender : Waiting(k) => Waiting(k)' \/ k = m
        /\ \A k \in DOMAIN sender : Waiting(k) /\ sender[k] = sender'[m] => m <= k
        /\ \A k \in DOMAIN sender : Waiting(k)' /\ sender[k] = sender'[m] => m < k
        /\ m \in DOMAIN sender'
    BY <1>3, <1>4, <2>4
  <2>6. Writes(m)
    BY <1>5, <1>7, <2>1, <2>2, <2>3, <2>5 DEF Writes
  <2>7. QED
    BY <1>2, <1>3, <2>6
<1>8. QED
  BY <1>6, <1>7

(* A send() of the loop thread. *)
LEMMA LoopSendMoves ==
  ASSUME TypeOK, Next, Carried, InTurn, NEW m \in Messages, LoopSend(m)
  PROVE  Carried' /\ (Quiet \/ \E k \in Messages : Writes(k))
<1>1. Accepts(Loop, m) /\ UNCHANGED <<functors, pending>> /\ sendInLoop(m)
  BY DEF LoopSend
<1>2. Carried' /\ \A k : Waiting(k)' <=> Waiting(k)
  BY <1>1, LoopAccepts
<1>3. /\ m \in Nat /\ m \notin DOMAIN sender
      /\ DOMAIN sender' = DOMAIN sender \union {m}
      /\ sender'[m] = Loop
      /\ \A i \in DOMAIN sender : sender'[i] = sender[i] /\ i < m
  BY <1>1, Accepted DEF Threads
<1>4. Grows
  BY <1>2, <1>3, StaysShut DEF Grows
<1>5. CASE Shut
  <2>1. UNCHANGED <<output, wire>>
    BY <1>1, <1>5, SendFlow
  <2>2. Flow' = Flow
    BY <2>1 DEF Flow
  <2>3. ~raced' => Shut'
    BY <1>5, StaysShut
  <2>4. QED
    BY <1>2, <1>4, <2>2, <2>3 DEF Quiet
<1>6. CASE ~Shut
  <2>1. Flow' = Flow \o Bytes(m)
    BY <1>1, <1>6, SendFlow
  <2>2. \A j \in DOMAIN Flow : Flow[j].msg < m
    BY <1>3 DEF InTurn
  <2>3. \A k \in DOMAIN sender : Waiting(k) => sender[k] # Loop
    BY ConnectionAssumption DEF Carried, Callers, Waiting
  <2>4. ~Waiting(m)
    BY <1>3 DEF Carried, Callers, Waiting
  <2>5. Writes(m)
    BY <1>2, <1>3, <1>4, <1>6, <2>1, <2>2, <2>3, <2>4 DEF Writes
  <2>6. QED
    BY <1>2, <2>5
<1>7. QED
  BY <1>5, <1>6

(* Every step is one or the other. *)
LEMMA Moves ==
  ASSUME TypeOK, Named, Next, Carried, InTurn
  PROVE  Carried' /\ (Quiet \/ \E m \in Messages : Writes(m))
<1> USE DEF netVars, histVars, queueInLoop
<1>1. UNCHANGED <<wire, output>> => Flow' = Flow
  BY DEF Flow
<1>2. ASSUME NEW op \in {"established", "destroyed", "shutdown", "forceClose"},
             functors' = Append(functors, functor(op, 0)),
             UNCHANGED <<pending, sender, wire, output>>
      PROVE  Carried' /\ Quiet
  <2>1. functor(op, 0) \in Functors /\ functor(op, 0).op # "send"
    BY FunctorType
  <2>2. Carried' /\ \A m : Waiting(m)' <=> Waiting(m)
    BY <1>2, <2>1, OtherFunctorQueued
  <2>3. QED
    BY <1>1, <1>2, <2>2, QuietStep
<1>3. ASSUME NEW op \in {"established", "destroyed", "shutdown", "forceClose"},
             Runs(op), UNCHANGED <<pending, sender, wire, output>>
      PROVE  Carried' /\ Quiet
  <2>1. Carried' /\ \A m : Waiting(m)' <=> Waiting(m)
    BY <1>3, FunctorTaken
  <2>2. QED
    BY <1>1, <1>3, <2>1, QuietStep
<1>4. ASSUME UNCHANGED <<functors, pending, sender>>, Flow' = Flow
      PROVE  Carried' /\ Quiet
  BY <1>4, Still, QuietStep
<1>5. CASE NewConnection \/ ServerDestroyed \/ LoopForceClose
  BY <1>2, <1>5 DEF NewConnection, ServerDestroyed, LoopForceClose
<1>6. CASE FunctorStep
  <2>1. CASE ConnectEstablished
    BY <1>3, <2>1 DEF ConnectEstablished
  <2>2. CASE ConnectDestroyed
    BY <1>3, <2>2 DEF ConnectDestroyed
  <2>3. CASE ShutdownFunctor
    BY <1>3, <2>3 DEF ShutdownFunctor
  <2>4. CASE ForceCloseFunctor
    BY <1>3, <2>4 DEF ForceCloseFunctor
  <2>5. QED
    BY <1>6, <2>1, <2>2, <2>3, <2>4, SendFunctorMoves DEF FunctorStep
<1>7. CASE EventStep
  <2>1. UNCHANGED <<functors, pending, sender>>
    BY <1>7 DEF EventStep, HandleRead, HandleWrite
  <2>2. CASE HandleRead
    BY <1>1, <1>4, <2>1, <2>2 DEF HandleRead
  <2>3. CASE HandleWrite
    BY <1>4, <2>1, <2>3, WriteFlow
  <2>4. QED
    BY <1>7, <2>2, <2>3 DEF EventStep
<1>8. CASE LoopShutdown \/ LoopForceCloseWithDelay \/ PeerReads \/ PeerCloses
  BY <1>1, <1>4, <1>8 DEF LoopShutdown, LoopForceCloseWithDelay, PeerReads, PeerCloses
<1>9. ASSUME NEW o \in Others, OtherStep(o)
      PROVE  Carried' /\ Quiet
  <2>1. UNCHANGED <<wire, output>>
    BY <1>9 DEF OtherStep, OtherSend, OtherShutdown, OtherForceClose, OtherTests, OtherStores,
                OtherQueues
  <2>2. ASSUME NEW m \in Messages, OtherSend(o, m)
        PROVE  Carried' /\ Quiet
    <3>1. Carried' /\ \A k : Waiting(k)' <=> Waiting(k) \/ k = m
      BY <2>2, CallSends
    <3>2. /\ m \notin DOMAIN sender
          /\ DOMAIN sender' = DOMAIN sender \union {m}
          /\ \A i \in DOMAIN sender : sender'[i] = sender[i] /\ i < m
      BY <2>2, Accepted DEF OtherSend, Threads
    <3>3. Grows
      BY <3>1, <3>2, StaysShut DEF Grows
    <3>4. QED
      BY <1>1, <2>1, <3>1, <3>2, <3>3 DEF Quiet
  <2>3. CASE OtherStores(o) \/ \E op \in {"shuttingDown", "closing"} : OtherTests(o, op, Live)
    <3>1. sender' = sender
      BY <2>3 DEF OtherTests, OtherStores
    <3>2. QED
      BY <1>1, <2>1, <2>3, <3>1, CallTests, QuietStep
  <2>4. CASE OtherQueues(o)
    <3>1. sender' = sender
      BY <2>4 DEF OtherQueues
    <3>2. QED
      BY <1>1, <2>1, <2>4, <3>1, CallQueued, QuietStep
  <2>5. OtherShutdown(o) => OtherTests(o, "shuttingDown", Live)
    BY DEF OtherShutdown, OtherTests, Live
  <2>6. QED
    BY <1>9, <2>2, <2>3, <2>4, <2>5 DEF OtherStep, OtherForceClose
<1>10. QED
  BY <1>5, <1>6, <1>7, <1>8, <1>9, LoopSendMoves DEF Next, LoopCall

-----------------------------------------------------------------------------
(* The FIN. *)

LEMMA LateKeeps ==
  ASSUME TypeOK, Late, Next
  PROVE  Late'
<1> USE DEF netVars, histVars, queueInLoop
<1> DEFINE Asked == \E i \in DOMAIN functors : functors[i].op = "shutdown"
           Asks == \E o \in Others : pending[o].op = "shutdown"
           Ends == {"kDisconnecting", "kDisconnected"}
<1>0. UNCHANGED pending => (Asks' => Asks)
  OBVIOUS
<1>1. ASSUME NEW op, Runs(op)
      PROVE  /\ Asked' => Asked
             /\ op = "shutdown" => Asked
  BY <1>1, Dequeued
<1>2. ASSUME NEW f \in Functors, functors' = Append(functors, f), f.op # "shutdown"
      PROVE  Asked' => Asked
  BY <1>2, Queued
<1>3. functors' = functors => (Asked' => Asked)
  OBVIOUS
<1>4. finSent \/ Asked \/ Asks => state \in Ends
  BY DEF Late
<1> HIDE DEF Asked
<1>5. SUFFICES ASSUME finSent' \/ Asked' \/ Asks'
               PROVE  state' \in Ends
  BY DEF Late, Asked
<1> HIDE DEF Asks
<1>6. CASE NewConnection \/ ServerDestroyed
  <2>1. \A op \in {"established", "destroyed"} :
          functor(op, 0) \in Functors /\ functor(op, 0).op # "shutdown"
    BY FunctorType
  <2>2. Asked' => Asked
    BY <1>2, <1>6, <2>1 DEF NewConnection, ServerDestroyed
  <2>3. QED
    BY <1>0, <1>4, <1>5, <1>6, <2>2 DEF NewConnection, ServerDestroyed
<1>7. CASE FunctorStep
  <2>1. Asked' => Asked
    BY <1>1, <1>7 DEF FunctorStep, ConnectEstablished, ConnectDestroyed, SendFunctor,
                      ShutdownFunctor, ForceCloseFunctor
  <2>2. finSent' => finSent \/ Asked
    BY <1>1, <1>7 DEF FunctorStep, ConnectEstablished, ConnectDestroyed, SendFunctor,
                      ShutdownFunctor, ForceCloseFunctor
  <2>3. state \in Ends => state' \in Ends
    BY <1>7 DEF FunctorStep, ConnectEstablished, ConnectDestroyed, SendFunctor, ShutdownFunctor,
                ForceCloseFunctor, handleClose
  <2>4. UNCHANGED pending
    BY <1>7 DEF FunctorStep, ConnectEstablished, ConnectDestroyed, SendFunctor, ShutdownFunctor,
                ForceCloseFunctor
  <2>5. QED
    BY <1>0, <1>4, <1>5, <2>1, <2>2, <2>3, <2>4
<1>8. CASE EventStep
  <2>1. UNCHANGED <<functors, pending>>
    BY <1>8 DEF EventStep, HandleRead, HandleWrite
  <2>2. state \in Ends => state' \in Ends
    BY <1>8 DEF EventStep, HandleRead, HandleWrite, handleClose
  <2>3. finSent' => finSent \/ state \in Ends
    BY <1>8 DEF EventStep, HandleRead, HandleWrite
  <2>4. QED
    BY <1>0, <1>3, <1>4, <1>5, <2>1, <2>2, <2>3
<1>9. CASE LoopCall
  <2>1. ASSUME NEW m \in Messages, LoopSend(m)
        PROVE  state' \in Ends
    BY <1>0, <1>3, <1>4, <1>5, <2>1 DEF LoopSend
  <2>2. CASE LoopShutdown \/ LoopForceClose \/ LoopForceCloseWithDelay
    BY <2>2 DEF LoopShutdown, LoopForceClose, LoopForceCloseWithDelay
  <2>3. QED
    BY <1>9, <2>1, <2>2 DEF LoopCall
<1>10. ASSUME NEW o \in Others, OtherStep(o)
       PROVE  state' \in Ends
  <2>1. CASE OtherStores(o)
    BY <2>1 DEF OtherStores
  <2>2. CASE OtherQueues(o)
    <3>1. pending[o] \in Functors
      BY <2>2, CallIsFunctor
    <3>2. Asked' => Asked \/ Asks
      <4>1. CASE pending[o].op = "shutdown"
        BY <4>1 DEF Asks
      <4>2. CASE pending[o].op # "shutdown"
        BY <1>2, <2>2, <3>1, <4>2 DEF OtherQueues
      <4>3. QED
        BY <4>1, <4>2
    <3>3. Asks' => Asks
      BY <2>2 DEF OtherQueues, Asks, TypeOK, Idle
    <3>4. QED
      BY <1>4, <1>5, <2>2, <3>2, <3>3 DEF OtherQueues
  <2>3. CASE ~OtherStores(o) /\ ~OtherQueues(o)
    <3>1. /\ UNCHANGED <<functors, finSent, state>>
          /\ \E op : op # "shutdown" /\ \E m : pending' = [pending EXCEPT ![o] = functor(op, m)]
      BY <1>10, <2>3 DEF OtherStep, OtherSend, OtherShutdown, OtherForceClose, OtherTests
    <3>2. Asks' => Asks
      BY <3>1 DEF Asks, TypeOK, functor
    <3>3. QED
      BY <1>3, <1>4, <1>5, <3>1, <3>2
  <2>4. QED
    BY <2>1, <2>2, <2>3
<1>11. CASE PeerReads \/ PeerCloses
  BY <1>0, <1>3, <1>4, <1>5, <1>11 DEF PeerReads, PeerCloses
<1>12. QED
  BY <1>6, <1>7, <1>8, <1>9, <1>10, <1>11 DEF Next

(* The messages of the loop thread never wait. *)
LEMMA LoopNeverWaits ==
  ASSUME Callers, NEW m \in By(Loop)
  PROVE  ~Waiting(m)
BY ConnectionAssumption DEF Callers, By, Waiting

(* A soft close that has sent its FIN. *)
LEMMA StaysDrained ==
  ASSUME Inv, Drained, Next, SoftClosed, SoftClosed', \A m : InFlow(m) => InFlow(m)'
  PROVE  output' = <<>> /\ \A m \in By(Loop)' : InFlow(m)'
<1> USE DEF netVars, histVars
<1>1. Shut /\ Broken /\ state = "kDisconnecting" /\ output = <<>>
      /\ \A m \in By(Loop) : InFlow(m)
  BY DEF Inv, Orderly, OutputIsWatched, Live, Drained, SoftClosed, Shut, Broken
<1>2. output' = <<>>
  <2>1. CASE SendFunctor
    BY <1>1, <2>1 DEF SendFunctor, sendInLoop, Shut
  <2>2. CASE HandleWrite
    BY <1>1, <2>2 DEF HandleWrite
  <2>3. CASE LoopCall
    BY <1>1, <2>3 DEF LoopCall, LoopSend, LoopShutdown, LoopForceClose, LoopForceCloseWithDelay
  <2>4. ASSUME NEW o \in Others, OtherStep(o)
        PROVE  output' = <<>>
    BY <1>1, <2>4 DEF OtherStep, OtherSend, OtherShutdown, OtherForceClose, OtherTests, OtherStores,
                      OtherQueues
  <2>5. CASE ConnectEstablished \/ ConnectDestroyed \/ ShutdownFunctor \/ ForceCloseFunctor
    BY <1>1, <2>5 DEF ConnectEstablished, ConnectDestroyed, ShutdownFunctor, ForceCloseFunctor
  <2>6. CASE NewConnection \/ ServerDestroyed \/ HandleRead \/ PeerReads \/ PeerCloses
    BY <1>1, <2>6 DEF NewConnection, ServerDestroyed, HandleRead, PeerReads, PeerCloses
  <2>7. QED
    BY <2>1, <2>2, <2>3, <2>4, <2>5, <2>6 DEF Next, FunctorStep, EventStep
<1>3. By(Loop)' = By(Loop)
  <2>1. CASE UNCHANGED sender
    BY <2>1 DEF By
  <2>2. CASE \E o \in Others, m \in Messages : OtherSend(o, m)
    BY <1>1, <2>2 DEF OtherSend
  <2>3. CASE \E m \in Messages : LoopSend(m)
    BY <1>1, <2>3 DEF LoopSend
  <2>4. UNCHANGED sender \/ (\E o \in Others, m \in Messages : OtherSend(o, m))
        \/ \E m \in Messages : LoopSend(m)
    <3>1. CASE FunctorStep \/ EventStep
      BY <3>1 DEF FunctorStep, EventStep, ConnectEstablished, ConnectDestroyed, SendFunctor,
                  ShutdownFunctor, ForceCloseFunctor, HandleRead, HandleWrite
    <3>2. CASE LoopCall
      BY <3>2 DEF LoopCall, LoopShutdown, LoopForceClose, LoopForceCloseWithDelay
    <3>3. ASSUME NEW o \in Others, OtherStep(o)
          PROVE  UNCHANGED sender \/ \E m \in Messages : OtherSend(o, m)
      BY <3>3 DEF OtherStep, OtherShutdown, OtherForceClose, OtherTests, OtherStores, OtherQueues
    <3>4. CASE NewConnection \/ ServerDestroyed \/ PeerReads \/ PeerCloses
      BY <3>4 DEF NewConnection, ServerDestroyed, PeerReads, PeerCloses
    <3>5. QED
      BY <3>1, <3>2, <3>3, <3>4 DEF Next
  <2>5. QED
    BY <2>1, <2>2, <2>3, <2>4
<1>4. QED
  BY <1>1, <1>2, <1>3

(* The steps that send the FIN find nothing to wait for. *)
LEMMA FinSentAfterData ==
  ASSUME Inv, Callers, Kept, Late, Next, ~SoftClosed, SoftClosed',
         \A m : InFlow(m) => InFlow(m)'
  PROVE  output' = <<>> /\ \A m \in By(Loop)' : InFlow(m)'
<1> USE DEF netVars, histVars
<1>1. finSent' /\ state' = "kDisconnecting" /\ peer' # "reset" /\ ~raced'
  BY DEF SoftClosed
<1>2. ~raced
  BY <1>1, StaysShut DEF Inv
<1>3. OutputIsWatched /\ TypeOK
  BY <1>2 DEF Inv, Orderly
<1>4. \A m \in By(Loop) : ~Shut => InFlow(m)
  BY <1>2, LoopNeverWaits DEF Kept, By
<1>5. ShutdownFunctor \/ LoopShutdown \/ HandleWrite
  <2>1. ASSUME UNCHANGED finSent
        PROVE  FALSE
    <3>1. peer # "reset"
      <4>1. CASE PeerCloses
        BY <1>1, <4>1 DEF PeerCloses
      <4>2. CASE ~PeerCloses
        <5>1. UNCHANGED peer
          <6>1. CASE FunctorStep \/ EventStep
            BY <6>1 DEF FunctorStep, EventStep, ConnectEstablished, ConnectDestroyed, SendFunctor,
                        ShutdownFunctor, ForceCloseFunctor, HandleRead, HandleWrite
          <6>2. CASE LoopCall
            BY <6>2 DEF LoopCall, LoopSend, LoopShutdown, LoopForceClose, LoopForceCloseWithDelay
          <6>3. ASSUME NEW o \in Others, OtherStep(o)
                PROVE  UNCHANGED peer
            BY <6>3 DEF OtherStep, OtherSend, OtherShutdown, OtherForceClose, OtherTests,
                        OtherStores, OtherQueues
          <6>4. CASE NewConnection \/ ServerDestroyed \/ PeerReads
            BY <6>4 DEF NewConnection, ServerDestroyed, PeerReads
          <6>5. QED
            BY <4>2, <6>1, <6>2, <6>3, <6>4 DEF Next
        <5>2. QED
          BY <1>1, <5>1
      <4>3. QED
        BY <4>1, <4>2
    <3>2. finSent
      BY <1>1, <2>1
    <3>3. state = "kDisconnected"
      BY <1>2, <3>1, <3>2 DEF Late, SoftClosed
    <3>4. Shut
      BY <3>3 DEF Shut
    <3>5. state' = "kDisconnected"
      <4>1. CASE FunctorStep \/ EventStep
        BY <3>3, <4>1 DEF FunctorStep, EventStep, ConnectEstablished, ConnectDestroyed,
             SendFunctor, ShutdownFunctor, ForceCloseFunctor, HandleRead, HandleWrite, handleClose,
             Live
      <4>2. CASE LoopCall
        BY <3>3, <4>2 DEF LoopCall, LoopSend, LoopShutdown, LoopForceClose,
                          LoopForceCloseWithDelay, Live
      <4>3. ASSUME NEW o \in Others, OtherStep(o)
            PROVE  state' = "kDisconnected"
        BY <1>1, <3>3, <4>3 DEF OtherStep, OtherSend, OtherShutdown, OtherForceClose, OtherTests,
                                OtherStores, OtherQueues
      <4>4. CASE NewConnection \/ ServerDestroyed \/ PeerReads \/ PeerCloses
        BY <3>3, <4>4 DEF NewConnection, ServerDestroyed, PeerReads, PeerCloses
      <4>5. QED
        BY <4>1, <4>2, <4>3, <4>4 DEF Next
    <3>6. QED
      BY <1>1, <3>5
  <2>2. CASE FunctorStep \/ EventStep
    BY <2>1, <2>2 DEF FunctorStep, EventStep, ConnectEstablished, ConnectDestroyed, SendFunctor,
                      ForceCloseFunctor, HandleRead
  <2>3. CASE LoopCall
    BY <2>1, <2>3 DEF LoopCall, LoopSend, LoopForceClose, LoopForceCloseWithDelay
  <2>4. ASSUME NEW o \in Others, OtherStep(o)
        PROVE  FALSE
    BY <2>1, <2>4 DEF OtherStep, OtherSend, OtherShutdown, OtherForceClose, OtherTests, OtherStores,
                      OtherQueues
  <2>5. CASE NewConnection \/ ServerDestroyed \/ PeerReads \/ PeerCloses
    BY <2>1, <2>5 DEF NewConnection, ServerDestroyed, PeerReads, PeerCloses
  <2>6. QED
    BY <2>2, <2>3, <2>4, <2>5 DEF Next
<1>6. By(Loop)' = By(Loop) /\ UNCHANGED peer
  BY <1>5 DEF ShutdownFunctor, LoopShutdown, HandleWrite, By
<1>7. CASE finSent
  <2>1. state # "kDisconnecting"
    BY <1>1, <1>2, <1>6, <1>7 DEF SoftClosed
  <2>2. state' # "kDisconnecting"
    BY <1>5, <1>7, <2>1 DEF ShutdownFunctor, LoopShutdown, HandleWrite, Late
  <2>3. QED
    BY <1>1, <2>2
<1>8. CASE ~finSent
  <2>1. state \in Live
    BY <1>1, <1>5 DEF ShutdownFunctor, LoopShutdown, HandleWrite, Live
  <2>2. ~Shut
    BY <1>1, <1>6, <1>8, <2>1 DEF Shut, Broken, Live
  <2>3. output' = <<>>
    <3>1. CASE HandleWrite
      <4>1. "write" \notin events'
        BY <1>1, <1>8, <3>1 DEF HandleWrite
      <4>2. QED
        BY <1>3, <3>1, <4>1, WriteLeaves
    <3>2. CASE ShutdownFunctor \/ LoopShutdown
      <4>1. "write" \notin events /\ UNCHANGED output
        BY <1>1, <1>8, <3>2 DEF ShutdownFunctor, LoopShutdown, shutdownInLoop
      <4>2. QED
        BY <1>2, <1>3, <2>1, <4>1 DEF OutputIsWatched
    <3>3. QED
      BY <1>5, <3>1, <3>2
  <2>4. QED
    BY <1>4, <1>6, <2>2, <2>3
<1>9. QED
  BY <1>7, <1>8

-----------------------------------------------------------------------------
(* Delivery is invariant. *)
LEMMA DeliveryInductive == Safety => []Delivery
<1>1. ASSUME Init PROVE Delivery
  <2>1. Flow = <<>> /\ DOMAIN functors = {} /\ DOMAIN sender = {} /\ finSent = FALSE
    <3>1. wire = <<>> /\ output = <<>> /\ functors = <<>> /\ sender = <<>> /\ finSent = FALSE
      BY <1>1 DEF Init
    <3>2. wire \o output = <<>>
      BY <3>1, EmptySeq, ConcatEmptySeq
    <3>3. QED
      BY <3>1, <3>2 DEF Flow
  <2>2. DOMAIN Flow = {}
    BY <2>1
  <2>3. Callers /\ Fifo
    BY <1>1, <2>1 DEF Init, Callers, Fifo, Idle
  <2>4. InTurn /\ Kept /\ Gapless
    BY <2>1, <2>2 DEF InTurn, Kept, Gapless
  <2>5. Late /\ Drained
    BY <1>1, <2>1 DEF Init, Idle, Late, Drained, SoftClosed
  <2>6. QED
    BY <2>3, <2>4, <2>5 DEF Delivery
<1>2. Inv /\ Inv' /\ Delivery /\ [Next]_vars => Delivery'
  <2> SUFFICES ASSUME Inv, Inv', Delivery, [Next]_vars PROVE Delivery'
    OBVIOUS
  <2>1. TypeOK /\ TypeOK' /\ Named
    BY DEF Inv
  <2>2. CASE UNCHANGED vars
    <3>1. /\ UNCHANGED <<functors, pending, sender, wire, output, events, state, finSent, peer>>
          /\ UNCHANGED raced
      BY <2>2 DEF vars, netVars, histVars
    <3>2. Flow' = Flow /\ (Shut' <=> Shut) /\ (SoftClosed' <=> SoftClosed)
      BY <3>1 DEF Flow, Shut, Broken, SoftClosed
    <3>3. \A m : (Waiting(m)' <=> Waiting(m)) /\ (InFlow(m)' <=> InFlow(m))
      BY <3>1, <3>2 DEF Waiting, InFlow
    <3>4. By(Loop)' = By(Loop)
      BY <3>1 DEF By
    <3>5. QED
      BY <3>1, <3>2, <3>3, <3>4 DEF Delivery, Callers, Fifo, InTurn, Kept, Gapless, Late, Drained
  <2>3. CASE Next
    <3>1. Carried' /\ (Quiet \/ \E m \in Messages : Writes(m))
      BY <2>1, <2>3, Moves DEF Delivery, Carried
    <3>2. InTurn' /\ Kept' /\ Gapless' /\ \A m : InFlow(m) => InFlow(m)'
      BY <2>1, <3>1, QuietDelivers, WritesDeliver DEF Delivery
    <3>3. Late'
      BY <2>1, <2>3, LateKeeps DEF Delivery
    <3>4. Drained'
      BY <2>3, <3>2, StaysDrained, FinSentAfterData DEF Delivery, Drained
    <3>5. QED
      BY <3>1, <3>2, <3>3, <3>4 DEF Delivery, Carried
  <2>4. QED
    BY <2>2, <2>3
<1>3. QED
  BY <1>1, <1>2, Inductive, PTL DEF Safety

(* The kernel has the first bytes of the flow. *)
LEMMA WireFirst ==
  ASSUME TypeOK
  PROVE  /\ DOMAIN wire \subseteq DOMAIN Flow
         /\ \A j \in DOMAIN wire : wire[j] = Flow[j]
         /\ \A j \in DOMAIN wire : 1 .. j \subseteq DOMAIN wire /\ j \in Nat
         /\ output = <<>> => wire = Flow
<1>1. wire \in Seq(Byte) /\ output \in Seq(Byte)
  BY DEF TypeOK
<1>2. Len(wire) \in Nat /\ Len(output) \in Nat /\ DOMAIN wire = 1 .. Len(wire)
  BY <1>1
<1>3. /\ Flow \in Seq(Byte) /\ Len(Flow) = Len(wire) + Len(output)
      /\ \A i \in 1 .. Len(wire) + Len(output) :
           Flow[i] = IF i <= Len(wire) THEN wire[i] ELSE output[i - Len(wire)]
  BY <1>1, ConcatProperties DEF Flow
<1>4. DOMAIN Flow = 1 .. Len(wire) + Len(output)
  BY <1>3, FlowType
<1>5. output = <<>> => wire = Flow
  BY <1>1, ConcatEmptySeq DEF Flow
<1>6. QED
  BY <1>2, <1>3, <1>4, <1>5

(***************************************************************************)
(* InOrder holds in every reachable state, for any number of threads, any  *)
(* length of messages and any room: what reaches the kernel of a thread's  *)
(* bytes is in its order, none twice, and none skipped while no closed     *)
(* connection is revived.                                                  *)
(***************************************************************************)
THEOREM BytesInOrder == Safety => []InOrder
<1>1. TypeOK /\ Delivery => InOrder
  <2> SUFFICES ASSUME TypeOK, Delivery, NEW j \in DOMAIN wire,
                      NEW b \in BytesBy(sender[wire[j].msg])
               PROVE  /\ (\E i \in 1 .. j - 1 : wire[i] = b) => Before(b, wire[j])
                      /\ ~raced /\ Before(b, wire[j]) => \E i \in 1 .. j - 1 : wire[i] = b
    BY DEF InOrder
  <2>1. /\ j \in DOMAIN Flow /\ wire[j] = Flow[j] /\ j \in Nat /\ 1 .. j \subseteq DOMAIN wire
        /\ \A i \in 1 .. j : i \in DOMAIN Flow /\ wire[i] = Flow[i]
    BY WireFirst
  <2>2. /\ b = [msg |-> b.msg, at |-> b.at] /\ b.msg \in DOMAIN sender /\ b.at \in 1 .. MsgLen
        /\ sender[b.msg] = sender[Flow[j].msg]
    BY <2>1 DEF BytesBy, By
  <2>3. /\ b.msg \in Nat /\ b.at \in Nat /\ DOMAIN Flow = 1 .. Len(Flow) /\ Len(Flow) \in Nat
        /\ \A i \in DOMAIN Flow : Flow[i].msg \in Nat /\ Flow[i].at \in Nat
    BY <2>2, FlowType, ConnectionAssumption
  <2> HIDE DEF Flow
  <2>4. ASSUME NEW i \in 1 .. j - 1, wire[i] = b
        PROVE  Before(b, wire[j])
    <3>1. i \in DOMAIN Flow /\ Flow[i] = b /\ i < j
      BY <2>1, <2>4
    <3>2. QED
      BY <2>1, <2>2, <3>1 DEF Delivery, InTurn
  <2>5. ASSUME ~raced, Before(b, wire[j])
        PROVE  \E i \in 1 .. j - 1 : wire[i] = b
    <3>1. InFlow(b.msg)
      <4>1. CASE b.msg < Flow[j].msg
        BY <2>1, <2>2, <2>5, <4>1 DEF Delivery, Gapless
      <4>2. CASE b.msg = Flow[j].msg
        BY <2>1, <4>2 DEF InFlow
      <4>3. QED
        BY <2>1, <2>5, <4>1, <4>2 DEF Before
    <3>2. PICK k \in DOMAIN Flow : Flow[k].msg = b.msg
      BY <3>1 DEF InFlow
    <3>3. PICK i \in DOMAIN Flow : Flow[i] = b
      BY <2>2, <3>2 DEF Delivery, InTurn
    <3>4. ~Before(Flow[j], b)
      BY <2>1, <2>3, <2>5 DEF Before
    <3>5. ~(j < i)
      BY <2>1, <2>2, <3>3, <3>4 DEF Delivery, InTurn
    <3>6. i # j
      BY <2>1, <2>3, <2>5, <3>3 DEF Before
    <3>7. i \in 1 .. j - 1
      BY <2>1, <2>3, <3>5, <3>6
    <3>8. QED
      BY <2>1, <3>3, <3>7
  <2>6. QED
    BY <2>4, <2>5
<1>2. QED
  BY <1>1, TypeCorrect, DeliveryInductive, PTL

(***************************************************************************)
(* FinAfterLoopData holds in every reachable state: a FIN that a shutdown  *)
(* sent is behind every byte of the loop thread.                           *)
(***************************************************************************)
THEOREM FinBehindLoopData == Safety => []FinAfterLoopData
<1>1. TypeOK /\ Delivery => FinAfterLoopData
  <2> SUFFICES ASSUME TypeOK, Delivery, SoftClosed, NEW b \in BytesBy(Loop)
               PROVE  \E i \in DOMAIN wire : wire[i] = b
    BY DEF FinAfterLoopData, AllOut
  <2>1. b = [msg |-> b.msg, at |-> b.at] /\ b.msg \in By(Loop) /\ b.at \in 1 .. MsgLen
    BY DEF BytesBy
  <2>2. output = <<>> /\ InFlow(b.msg)
    BY <2>1 DEF Delivery, Drained
  <2>3. PICK j \in DOMAIN Flow : Flow[j].msg = b.msg
    BY <2>2 DEF InFlow
  <2>4. \E i \in DOMAIN Flow : Flow[i] = b
    BY <2>1, <2>3 DEF Delivery, InTurn
  <2>5. wire = Flow
    BY <2>2, WireFirst
  <2>6. QED
    BY <2>4, <2>5
<1>2. QED
  BY <1>1, TypeCorrect, DeliveryInductive, PTL

=============================================================================
