--------------------------- MODULE TcpConnection ---------------------------
(***************************************************************************)
(* One connection of a TcpServer, from newConnection() to its destruction: *)
(* network/net/net_tcp_connection.cpp with the parts of net_tcp_server.cpp *)
(* and net_channel.cpp that act on it.  Its I/O loop is the task queue     *)
(* that EventLoop implements: functors run in the order they were queued,  *)
(* one at a time, between the events of the channel.                       *)
(*                                                                         *)
(* Actors: the server's thread, the loop thread (events, functors, and the *)
(* user's callbacks, timer included, which may call send, shutdown and     *)
(* forceClose), other threads that make the same calls, the peer.          *)
(*                                                                         *)
(* Messages are numbered in the order in which send() accepts them, and a  *)
(* byte is known by its message and its place in it.  The kernel takes as  *)
(* many bytes as its buffer has room for.  The code's user callbacks for a *)
(* completed write and for high water, which HttpServer does not set, are  *)
(* left out.                                                               *)
(***************************************************************************)
EXTENDS Naturals, Sequences

CONSTANTS
  Loop,             (* the connection's loop thread                        *)
  Others,           (* other threads that hold the connection              *)
  MsgLen,           (* bytes in a message                                  *)
  KernelRoom,       (* bytes the socket's send buffer holds                *)
  MaxSends,         (* bound: messages sent                                *)
  MaxCalls          (* bound: functors waiting in the loop                 *)

ASSUME ConnectionAssumption ==
  /\ Loop \notin Others
  /\ {MsgLen, KernelRoom} \subseteq Nat \ {0}
  /\ {MaxSends, MaxCalls} \subseteq Nat

VARIABLES
  state,            (* state_; "none" before the connection exists         *)
  inMap,            (* TcpServer::connections_ holds it                    *)
  events,           (* the channel's events_; {}: not in the poller        *)
  output,           (* outputBuffer_                                       *)
  finSent,          (* shutdownWrite() was called on the socket            *)
  functors,         (* what waits in the loop for this connection          *)
  pending,          (* other threads: inside a call, what they do next     *)
  unread,           (* bytes in the kernel the peer has not taken          *)
  peer,             (* "open", "fin" or "reset"                            *)
  failed,           (* the assert that failed, or "none"                   *)
  sender,           (* history: the thread whose send() gave message i     *)
  wire,             (* history: bytes the kernel took                      *)
  closer,           (* history: the thread whose shutdown() took effect    *)
  downs,            (* history: "down" calls of connectionCallback_, up to 2 *)
  raced             (* history: an unsynchronised store to state_ undid
                       a handleClose()                                     *)

netVars == <<unread, peer>>
histVars == <<closer, downs, raced>>
vars == <<state, inMap, events, output, finSent, functors, pending, netVars, failed, sender,
          wire, histVars>>

Threads == Others \union {Loop}
Messages == 1 .. MaxSends
Byte == [msg : Messages, at : 1 .. MsgLen]
States == {"none", "kConnecting", "kConnected", "kDisconnecting", "kDisconnected"}
Live == {"kConnected", "kDisconnecting"}
Functors == [op : {"established", "destroyed", "send", "shutdown", "forceClose"},
             msg : Messages \union {0}]
Idle == [op |-> "idle", msg |-> 0]

(* A state that was tested and is about to be stored. *)
Stores == [op : {"shuttingDown", "closing"}, msg : {0}]

TypeOK ==
  /\ state \in States
  /\ inMap \in BOOLEAN
  /\ events \in SUBSET {"read", "write"}
  /\ output \in Seq(Byte)
  /\ finSent \in BOOLEAN
  /\ functors \in Seq(Functors)
  /\ pending \in [Others -> Functors \union Stores \union {Idle}]
  /\ unread \in 0 .. KernelRoom
  /\ peer \in {"open", "fin", "reset"}
  /\ failed \in {"none", "connectEstablished", "handleClose", "remove"}
  /\ sender \in Seq(Threads) /\ Len(sender) <= MaxSends
  /\ wire \in Seq(Byte)
  /\ closer \in Threads \union {"nobody"}
  /\ downs \in 0 .. 2
  /\ raced \in BOOLEAN

Init ==
  /\ state = "none"
  /\ inMap = FALSE
  /\ events = {}
  /\ output = <<>>
  /\ finSent = FALSE
  /\ functors = <<>>
  /\ pending = [o \in Others |-> Idle]
  /\ unread = 0
  /\ peer = "open"
  /\ failed = "none"
  /\ sender = <<>>
  /\ wire = <<>>
  /\ closer = "nobody"
  /\ downs = 0
  /\ raced = FALSE

-----------------------------------------------------------------------------
(* Pieces of the handlers. *)

functor(op, m) == [op |-> op, msg |-> m]
queueInLoop(op) == functors' = Append(functors, functor(op, 0))

(* send() accepts the next message, of thread t. *)
Accepts(t, m) == m \in Messages /\ m = Len(sender) + 1 /\ sender' = Append(sender, t)

Bytes(m) == [k \in 1 .. MsgLen |-> [msg |-> m, at |-> k]]

Smaller(a, b) == IF a <= b THEN a ELSE b

(* What write() takes of n bytes: as much as there is room for. *)
Taken(n) == Smaller(n, KernelRoom - unread)

(* A write after the FIN, or to a peer that reset, ends in EPIPE. *)
Broken == finSent \/ peer = "reset"

(* Mutant: write at once whatever is waiting. *)
sendInLoopOvertakes(m) ==
  LET b == Bytes(m)
      n == Taken(MsgLen)
  IN IF state = "kDisconnected" \/ Broken
     THEN UNCHANGED <<events, output, unread, wire>>
     ELSE /\ wire' = wire \o SubSeq(b, 1, n)
          /\ unread' = unread + n
          /\ output' = output \o SubSeq(b, n + 1, MsgLen)
          /\ events' = IF n < MsgLen THEN events \union {"write"} ELSE events

(* Mutant: write() is taken to accept everything. *)
sendInLoopForcesAll(m) ==
  IF state = "kDisconnected" \/ Broken
  THEN UNCHANGED <<events, output, unread, wire>>
  ELSE /\ wire' = wire \o Bytes(m)
       /\ unread' = unread + MsgLen
       /\ UNCHANGED <<events, output>>

(* Mutant: a partial write does not watch for room. *)
sendInLoopForgetsToWatch(m) ==
  LET b == Bytes(m)
      direct == "write" \notin events /\ output = <<>>
      n == IF direct THEN Taken(MsgLen) ELSE 0
  IN IF state = "kDisconnected" \/ (direct /\ Broken)
     THEN UNCHANGED <<events, output, unread, wire>>
     ELSE /\ wire' = wire \o SubSeq(b, 1, n)
          /\ unread' = unread + n
          /\ output' = output \o SubSeq(b, n + 1, MsgLen)
          /\ events' = IF n = 0 THEN events \union {"write"} ELSE events

(***************************************************************************)
(* sendInLoop(): write at once unless something is waiting already, append *)
(* the rest to the output buffer and watch for room; EPIPE drops it.       *)
(***************************************************************************)
sendInLoop(m) ==
  LET b == Bytes(m)
      direct == "write" \notin events /\ output = <<>>
      n == IF direct THEN Taken(MsgLen) ELSE 0
  IN IF state = "kDisconnected" \/ (direct /\ Broken)
     THEN UNCHANGED <<events, output, unread, wire>>
     ELSE /\ wire' = wire \o SubSeq(b, 1, n)
          /\ unread' = unread + n
          /\ output' = output \o SubSeq(b, n + 1, MsgLen)
          /\ events' = IF n < MsgLen THEN events \union {"write"} ELSE events

(* Mutant: the FIN does not wait. *)
shutdownInLoopAtOnce == finSent' = TRUE

(* shutdownInLoop(): the FIN waits for the output buffer. *)
shutdownInLoop == finSent' = (finSent \/ "write" \notin events)

(* Mutant: only reading is disabled. *)
handleCloseKeepsWriting ==
  /\ state' = "kDisconnected"
  /\ events' = events \ {"read"}
  /\ downs' = Smaller(downs + 1, 2)
  /\ UNCHANGED failed

(* handleClose(): nothing tells the server, closeCallback_ is not called. *)
handleClose ==
  IF state \in Live
  THEN /\ state' = "kDisconnected"
       /\ events' = {}
       /\ downs' = Smaller(downs + 1, 2)
       /\ UNCHANGED failed
  ELSE /\ failed' = "handleClose"
       /\ UNCHANGED <<state, events, downs>>

-----------------------------------------------------------------------------
(* The server's thread. *)

(* TcpServer::newConnection() *)
NewConnection ==
  /\ state = "none"
  /\ state' = "kConnecting"
  /\ inMap' = TRUE
  /\ queueInLoop("established")
  /\ UNCHANGED <<events, output, finSent, pending, netVars, failed, sender, wire, histVars>>

(* ~TcpServer() lets go of the connection and has it destroyed in its loop. *)
ServerDestroyed ==
  /\ inMap
  /\ inMap' = FALSE
  /\ queueInLoop("destroyed")
  /\ UNCHANGED <<state, events, output, finSent, pending, netVars, failed, sender, wire,
                 histVars>>

-----------------------------------------------------------------------------
(* The loop thread runs the oldest functor. *)

Runs(op) ==
  /\ functors # <<>>
  /\ Head(functors).op = op
  /\ functors' = Tail(functors)

ConnectEstablished ==
  /\ Runs("established")
  /\ IF state = "kConnecting"
     THEN /\ state' = "kConnected"
          /\ events' = events \union {"read"}
          /\ UNCHANGED failed
     ELSE /\ failed' = "connectEstablished"
          /\ UNCHANGED <<state, events>>
  /\ UNCHANGED <<inMap, output, finSent, pending, netVars, sender, wire, histVars>>

(* connectDestroyed(): remove() asserts that no event is enabled. *)
ConnectDestroyed ==
  /\ Runs("destroyed")
  /\ IF state = "kConnected"
     THEN /\ state' = "kDisconnected"
          /\ events' = {}
          /\ downs' = Smaller(downs + 1, 2)
          /\ UNCHANGED failed
     ELSE /\ failed' = IF events = {} THEN failed ELSE "remove"
          /\ UNCHANGED <<state, events, downs>>
  /\ UNCHANGED <<inMap, output, finSent, pending, netVars, sender, wire, closer, raced>>

SendFunctor ==
  /\ Runs("send")
  /\ sendInLoop(Head(functors).msg)
  /\ UNCHANGED <<state, inMap, finSent, pending, peer, failed, sender, histVars>>

ShutdownFunctor ==
  /\ Runs("shutdown")
  /\ shutdownInLoop
  /\ UNCHANGED <<state, inMap, events, output, pending, netVars, failed, sender, wire, histVars>>

(* Mutant: the state is not looked at again. *)
ForceCloseFunctorTrusts ==
  /\ Runs("forceClose")
  /\ handleClose
  /\ UNCHANGED <<inMap, output, finSent, pending, netVars, sender, wire, closer, raced>>

(* forceCloseInLoop() looks at the state again. *)
ForceCloseFunctor ==
  /\ Runs("forceClose")
  /\ IF state \in Live
     THEN handleClose
     ELSE UNCHANGED <<state, events, downs, failed>>
  /\ UNCHANGED <<inMap, output, finSent, pending, netVars, sender, wire, closer, raced>>

-----------------------------------------------------------------------------
(* The loop thread handles an event of the channel. *)

(* handleRead() gets 0, or after a reset an error first, which it only     *)
(* logs.  Data goes to the user's callback: see the calls below.           *)
HandleRead ==
  /\ "read" \in events
  /\ peer # "open"
  /\ handleClose
  /\ UNCHANGED <<inMap, output, finSent, functors, pending, netVars, sender, wire, closer, raced>>

(* Mutant: one partial write and no more watching. *)
HandleWriteGivesUp ==
  /\ "write" \in events
  /\ ~Broken
  /\ unread < KernelRoom
  /\ LET n == Taken(Len(output))
     IN /\ wire' = wire \o SubSeq(output, 1, n)
        /\ unread' = unread + n
        /\ output' = SubSeq(output, n + 1, Len(output))
        /\ events' = events \ {"write"}
        /\ finSent' = (finSent \/ state = "kDisconnecting")
  /\ UNCHANGED <<state, inMap, functors, pending, peer, failed, sender, histVars>>

(* handleWrite(): a soft close waits for the buffer to drain. *)
HandleWrite ==
  /\ "write" \in events
  /\ ~Broken
  /\ unread < KernelRoom
  /\ LET n == Taken(Len(output))
     IN /\ wire' = wire \o SubSeq(output, 1, n)
        /\ unread' = unread + n
        /\ output' = SubSeq(output, n + 1, Len(output))
        /\ IF n = Len(output)
           THEN /\ events' = events \ {"write"}
                /\ finSent' = (finSent \/ state = "kDisconnecting")
           ELSE UNCHANGED <<events, finSent>>
  /\ UNCHANGED <<state, inMap, functors, pending, peer, failed, sender, histVars>>

-----------------------------------------------------------------------------
(* Calls from the user's callbacks, in the loop thread. *)

LoopSend(m) ==
  /\ state = "kConnected"
  /\ Accepts(Loop, m)
  /\ sendInLoop(m)
  /\ UNCHANGED <<state, inMap, finSent, functors, pending, peer, failed, histVars>>

LoopShutdown ==
  /\ state = "kConnected"
  /\ state' = "kDisconnecting"
  /\ closer' = Loop
  /\ shutdownInLoop
  /\ UNCHANGED <<inMap, events, output, functors, pending, netVars, failed, sender, wire,
                 downs, raced>>

LoopForceClose ==
  /\ state \in Live
  /\ Len(functors) < MaxCalls
  /\ state' = "kDisconnecting"
  /\ queueInLoop("forceClose")
  /\ UNCHANGED <<inMap, events, output, finSent, pending, netVars, failed, sender, wire, histVars>>

(* forceCloseWithDelay(): its timer calls forceClose() later. *)
LoopForceCloseWithDelay ==
  /\ state \in Live
  /\ state' = "kDisconnecting"
  /\ UNCHANGED <<inMap, events, output, finSent, functors, pending, netVars, failed, sender,
                 wire, histVars>>

-----------------------------------------------------------------------------
(***************************************************************************)
(* Calls from another thread: the state is tested, then stored, and then   *)
(* the functor is queued.                                                  *)
(***************************************************************************)
OtherSend(o, m) ==
  /\ pending[o] = Idle
  /\ state = "kConnected"
  /\ Accepts(o, m)
  /\ pending' = [pending EXCEPT ![o] = functor("send", m)]
  /\ UNCHANGED <<state, inMap, events, output, finSent, functors, netVars, failed, wire, histVars>>

OtherTests(o, op, from) ==
  /\ pending[o] = Idle
  /\ state \in from
  /\ pending' = [pending EXCEPT ![o] = functor(op, 0)]
  /\ UNCHANGED <<state, inMap, events, output, finSent, functors, netVars, failed, sender,
                 wire, histVars>>

OtherShutdown(o) == OtherTests(o, "shuttingDown", {"kConnected"})
OtherForceClose(o) == OtherTests(o, "closing", Live)

(* setState(kDisconnecting), whatever the state is by now. *)
OtherStores(o) ==
  /\ pending[o].op \in {"shuttingDown", "closing"}
  /\ LET soft == pending[o].op = "shuttingDown"
     IN /\ pending' = [pending EXCEPT ![o] = functor(IF soft THEN "shutdown" ELSE "forceClose", 0)]
        /\ closer' = IF soft /\ state = "kConnected" THEN o ELSE closer
  /\ state' = "kDisconnecting"
  /\ raced' = (raced \/ state = "kDisconnected")
  /\ UNCHANGED <<inMap, events, output, finSent, functors, netVars, failed, sender, wire, downs>>

(* queueInLoop() *)
OtherQueues(o) ==
  /\ pending[o].op \in {"send", "shutdown", "forceClose"}
  /\ Len(functors) < MaxCalls
  /\ functors' = Append(functors, pending[o])
  /\ pending' = [pending EXCEPT ![o] = Idle]
  /\ UNCHANGED <<state, inMap, events, output, finSent, netVars, failed, sender, wire, histVars>>

-----------------------------------------------------------------------------
(* The peer. *)

PeerReads ==
  /\ unread > 0
  /\ peer # "reset"
  /\ unread' = 0
  /\ UNCHANGED <<state, inMap, events, output, finSent, functors, pending, peer, failed,
                 sender, wire, histVars>>

PeerCloses ==
  /\ state # "none"
  /\ \/ peer = "open" /\ peer' = "fin"
     \/ peer # "reset" /\ peer' = "reset"
  /\ UNCHANGED <<state, inMap, events, output, finSent, functors, pending, unread, failed,
                 sender, wire, histVars>>

-----------------------------------------------------------------------------
FunctorStep ==
  \/ ConnectEstablished \/ ConnectDestroyed
  \/ SendFunctor \/ ShutdownFunctor \/ ForceCloseFunctor

EventStep == HandleRead \/ HandleWrite

LoopCall ==
  \/ \E m \in Messages : LoopSend(m)
  \/ LoopShutdown \/ LoopForceClose \/ LoopForceCloseWithDelay

OtherStep(o) ==
  \/ \E m \in Messages : OtherSend(o, m)
  \/ OtherShutdown(o) \/ OtherForceClose(o) \/ OtherStores(o) \/ OtherQueues(o)

(* An assert that fails aborts the process. *)
Next ==
  /\ failed = "none"
  /\ \/ NewConnection \/ ServerDestroyed
     \/ FunctorStep \/ EventStep \/ LoopCall
     \/ \E o \in Others : OtherStep(o)
     \/ PeerReads \/ PeerCloses

Safety == Init /\ [][Next]_vars

(* The loop runs its functors and handles its events; the peer reads; a    *)
(* thread goes on with its call.                                           *)
Fairness ==
  /\ WF_vars(failed = "none" /\ FunctorStep)
  /\ WF_vars(failed = "none" /\ HandleRead)
  /\ WF_vars(failed = "none" /\ HandleWrite)
  /\ WF_vars(failed = "none" /\ PeerReads)
  /\ \A o \in Others : WF_vars(failed = "none" /\ (OtherStores(o) \/ OtherQueues(o)))

Spec == Safety /\ Fairness

-----------------------------------------------------------------------------
(***************************************************************************)
(* No byte is stranded: while a connection is live, the poller watches for *)
(* room exactly as long as the output buffer holds bytes, and it watches   *)
(* the peer.  A closed connection is watched for nothing.                  *)
(***************************************************************************)
OutputIsWatched ==
  ~raced => /\ state \in Live => "read" \in events /\ ("write" \in events <=> output # <<>>)
            /\ state \notin Live => events = {}

(* Bytes of one thread: the order in which it sent them. *)
Before(b, c) == b.msg < c.msg \/ (b.msg = c.msg /\ b.at < c.at)

By(t) == {m \in DOMAIN sender : sender[m] = t}

BytesBy(t) == [msg : By(t), at : 1 .. MsgLen]

(***************************************************************************)
(* Whatever the interleaving, what reaches the kernel of one thread's      *)
(* bytes is in the order of its calls of send(), none twice; and none is   *)
(* skipped, unless a store of state_ revived a closed connection.          *)
(***************************************************************************)
InOrder ==
  \A j \in DOMAIN wire : \A b \in BytesBy(sender[wire[j].msg]) :
    LET there == \E i \in 1 .. j - 1 : wire[i] = b
    IN /\ there => Before(b, wire[j])
       /\ ~raced /\ Before(b, wire[j]) => there

AllOut(t) == \A b \in BytesBy(t) : \E i \in DOMAIN wire : wire[i] = b

(* A soft close in progress whose FIN is out, with a peer that still listens. *)
SoftClosed == finSent /\ state = "kDisconnecting" /\ peer # "reset" /\ ~raced

(***************************************************************************)
(* The FIN never overtakes the bytes of the loop thread: once a soft close *)
(* has sent it, everything that thread has sent is in the kernel.          *)
(***************************************************************************)
FinAfterLoopData == SoftClosed => AllOut(Loop)

(***************************************************************************)
(* "If there is data not yet written it must not be closed; close when it  *)
(* is written" (net_tcp_connection.cpp lines 443 to 446), for the data of  *)
(* the thread that asked for the shutdown.                                 *)
(***************************************************************************)
FinAfterData == SoftClosed /\ closer \in Threads => AllOut(closer)

(***************************************************************************)
(* The user hears of the end of a connection at most once, and of the      *)
(* asserts on the way only the one in Channel::remove() can fail, when the *)
(* server is destroyed under a half-closed connection.                     *)
(***************************************************************************)
ClosedOnce == ~raced => downs <= 1 /\ failed \in {"none", "remove"}

(* While the peer reads and nobody closes, what was sent gets out. *)
OutputDrains == output # <<>> ~> (output = <<>> \/ state = "kDisconnected" \/ Broken \/ failed # "none")

(***************************************************************************)
(* "When closeCallback returns, the TcpServer's connections_ has removed   *)
(* the TcpConnection" (net_tcp_connection.cpp lines 483 to 488).           *)
(***************************************************************************)
ClosedIsRemoved == (state = "kDisconnected") ~> ~inMap

=============================================================================
