---------------------------- MODULE AsyncLogging ----------------------------
(***************************************************************************)
(* network/net_base/async_logging.{h,cpp}: any number of threads append    *)
(* lines to a current buffer; a logging thread takes the buffers away,     *)
(* writes them to a file and hands two of them back for reuse.             *)
(*                                                                         *)
(* Granularity.  append() is one critical section of mutex_, hence a step. *)
(* The logging thread's section is one step, or two when it finds nothing  *)
(* and waits: waitForSeconds() ends by a notification or by time, so it    *)
(* may end whenever it likes, and notifications are left out.              *)
(*                                                                         *)
(* Data.  A line is its number.  All lines are one unit long: a line is    *)
(* at most kSmallBuffer bytes and always fits an empty buffer.             *)
(***************************************************************************)
EXTENDS Integers, Sequences

CONSTANTS
  Room,             (* units in a buffer (kLargeBuffer)                    *)
  MaxBatch,         (* buffers written before the rest is dropped (25)     *)
  MaxLines          (* bound: lines appended                               *)

ASSUME LoggingAssumption ==
  /\ Room \in Nat /\ Room > 1
  /\ MaxBatch \in Nat /\ MaxBatch > 1
  /\ MaxLines \in Nat

VARIABLES
  ownerPc,          (* the thread that calls start() and stop()            *)
  running,          (* running_                                            *)
  pc,               (* the logging thread                                  *)
  current,          (* currentBuffer_                                      *)
  hasNext,          (* nextBuffer_ is not null                             *)
  buffers,          (* buffers_, the full ones                             *)
  spare1,           (* newBuffer1 is not null                              *)
  spare2,           (* newBuffer2 is not null                              *)
  toWrite,          (* buffersToWrite                                      *)
  written,          (* how many of them the loop has appended to the file  *)
  file,             (* the lines in the log file                           *)
  appended,         (* history: the last line appended                     *)
  dropped           (* history: the lines given up                         *)

frontVars == <<current, hasNext, buffers, appended>>
backVars == <<spare1, spare2, toWrite, written, file, dropped>>
vars == <<ownerPc, running, pc, frontVars, backVars>>

Lines == 1 .. MaxLines
Notice == 0         (* "Dropped log messages at ..." *)
Pcs == {"none", "begin", "test", "collect", "wait", "write", "recycle", "ended", "aborted"}

BufferTypes ==
  /\ ownerPc \in {"new", "starting", "started", "stopping", "stopped"}
  /\ running \in BOOLEAN
  /\ pc \in Pcs
  /\ current \in Seq(Lines)
  /\ hasNext \in BOOLEAN
  /\ buffers \in Seq(Seq(Lines))
  /\ spare1 \in BOOLEAN
  /\ spare2 \in BOOLEAN
  /\ toWrite \in Seq(Seq(Lines))
  /\ written \in Nat
  /\ appended \in 0 .. MaxLines
  /\ Len(current) < Room

(* Types; a buffer never holds as much as it has room for. *)
TypeOK ==
  /\ BufferTypes
  /\ file \in Seq(Lines \union {Notice})
  /\ dropped \in SUBSET Lines

Init ==
  /\ ownerPc = "new"
  /\ running = FALSE
  /\ pc = "none"
  /\ current = <<>>
  /\ hasNext = TRUE
  /\ buffers = <<>>
  /\ spare1 = TRUE
  /\ spare2 = TRUE
  /\ toWrite = <<>>
  /\ written = 0
  /\ file = <<>>
  /\ appended = 0
  /\ dropped = {}

-----------------------------------------------------------------------------
(* The threads that log. *)

(* Mutant: avail() >= len. *)
AppendAtLast ==
  /\ appended < MaxLines
  /\ appended' = appended + 1
  /\ IF Room - Len(current) >= 1
     THEN /\ current' = Append(current, appended')
          /\ UNCHANGED <<buffers, hasNext>>
     ELSE /\ buffers' = Append(buffers, current)
          /\ current' = <<appended'>>
          /\ hasNext' = FALSE
  /\ UNCHANGED <<ownerPc, running, pc, backVars>>

(* append(): a full buffer goes to buffers_; the next one takes its place, *)
(* or a new one when there is no next one.                                 *)
AppendLine ==
  /\ appended < MaxLines
  /\ appended' = appended + 1
  /\ IF Room - Len(current) > 1
     THEN /\ current' = Append(current, appended')
          /\ UNCHANGED <<buffers, hasNext>>
     ELSE /\ buffers' = Append(buffers, current)
          /\ current' = <<appended'>>
          /\ hasNext' = FALSE
  /\ UNCHANGED <<ownerPc, running, pc, backVars>>

-----------------------------------------------------------------------------
(* The thread that owns the log. *)

(* start() up to latch_.wait(). *)
StartLogging ==
  /\ ownerPc = "new"
  /\ running' = TRUE
  /\ pc' = "begin"
  /\ ownerPc' = "starting"
  /\ UNCHANGED <<frontVars, backVars>>

StartReturns ==
  /\ ownerPc = "starting"
  /\ pc # "begin"
  /\ ownerPc' = "started"
  /\ UNCHANGED <<running, pc, frontVars, backVars>>

(* stop(), also from the destructor, up to thread_.join(). *)
StopLogging ==
  /\ ownerPc = "started"
  /\ running' = FALSE
  /\ ownerPc' = "stopping"
  /\ UNCHANGED <<pc, frontVars, backVars>>

StopReturns ==
  /\ ownerPc = "stopping"
  /\ pc = "ended"
  /\ ownerPc' = "stopped"
  /\ UNCHANGED <<running, pc, frontVars, backVars>>

OwnerWaits == StartReturns \/ StopReturns

-----------------------------------------------------------------------------
(* threadFunc(), the logging thread. *)

(* assert(running_ == true), latch_.countDown(), two empty buffers. *)
BeginThread ==
  /\ pc = "begin"
  /\ pc' = IF running THEN "test" ELSE "aborted"
  /\ UNCHANGED <<ownerPc, running, frontVars, backVars>>

(* Mutant: running_ is not looked at. *)
TestForever ==
  /\ pc = "test"
  /\ pc' = IF spare1 /\ spare2 /\ toWrite = <<>> THEN "collect" ELSE "aborted"
  /\ UNCHANGED <<ownerPc, running, frontVars, backVars>>

(* while (running_), and the three asserts at the top of the loop. *)
TestRunning ==
  /\ pc = "test"
  /\ pc' = IF ~running THEN "ended"
           ELSE IF spare1 /\ spare2 /\ toWrite = <<>> THEN "collect" ELSE "aborted"
  /\ UNCHANGED <<ownerPc, running, frontVars, backVars>>

(* Take the full buffers and the current one, leave two empty ones. *)
TakeBuffers ==
  /\ toWrite' = Append(buffers, current)
  /\ buffers' = <<>>
  /\ current' = <<>>
  /\ spare1' = FALSE
  /\ hasNext' = TRUE
  /\ spare2' = (spare2 /\ hasNext)
  /\ pc' = "write"
  /\ UNCHANGED <<ownerPc, running, written, file, appended, dropped>>

(* buffers_.empty(): wait for flushInterval_, or less. *)
CollectNothing ==
  /\ pc = "collect"
  /\ buffers = <<>>
  /\ pc' = "wait"
  /\ UNCHANGED <<ownerPc, running, frontVars, backVars>>

(* Mutant: the current buffer is left out of the batch. *)
CollectFullOnly ==
  /\ pc = "collect"
  /\ buffers # <<>>
  /\ toWrite' = buffers
  /\ buffers' = <<>>
  /\ current' = <<>>
  /\ spare1' = FALSE
  /\ hasNext' = TRUE
  /\ spare2' = (spare2 /\ hasNext)
  /\ pc' = "write"
  /\ UNCHANGED <<ownerPc, running, written, file, appended, dropped>>

Collect ==
  /\ pc = "collect"
  /\ buffers # <<>>
  /\ TakeBuffers

(* Mutant: a wait that timed out collects nothing. *)
CollectAfterNotify ==
  /\ pc = "wait"
  /\ buffers # <<>>
  /\ TakeBuffers

CollectAfterWait ==
  /\ pc = "wait"
  /\ TakeBuffers

(* More than MaxBatch buffers: say so, and keep the first two only. *)
DropBuffers ==
  /\ pc = "write"
  /\ Len(toWrite) > MaxBatch
  /\ file' = Append(file, Notice)
  /\ toWrite' = SubSeq(toWrite, 1, 2)
  /\ dropped' = dropped \union
                UNION {{toWrite[i][j] : j \in DOMAIN toWrite[i]} : i \in 3 .. Len(toWrite)}
  /\ UNCHANGED <<ownerPc, running, pc, frontVars, spare1, spare2, written>>

(* One round of the loop over buffersToWrite. *)
WriteBuffer ==
  /\ pc = "write"
  /\ Len(toWrite) <= MaxBatch
  /\ written' = written + 1
  /\ file' = file \o toWrite[written']
  /\ pc' = IF written' = Len(toWrite) THEN "recycle" ELSE "write"
  /\ UNCHANGED <<ownerPc, running, frontVars, spare1, spare2, toWrite, dropped>>

(* How many spare buffers are missing, and how many there are to reuse. *)
Missing == (IF spare1 THEN 0 ELSE 1) + (IF spare2 THEN 0 ELSE 1)

(* Mutant: a single buffer is enough for both. *)
RecycleOne ==
  /\ pc = "recycle"
  /\ IF Missing <= 1
     THEN /\ pc' = "test"
          /\ spare1' = TRUE
          /\ spare2' = TRUE
          /\ toWrite' = <<>>
          /\ written' = 0
     ELSE /\ pc' = "aborted"
          /\ UNCHANGED <<spare1, spare2, toWrite, written>>
  /\ UNCHANGED <<ownerPc, running, frontVars, file, dropped>>

(* buffersToWrite.resize(2) at most, and each missing spare buffer is made *)
(* of one of those; assert(!buffersToWrite.empty()) before each.           *)
Recycle ==
  /\ pc = "recycle"
  /\ IF Missing <= Len(toWrite)
     THEN /\ pc' = "test"
          /\ spare1' = TRUE
          /\ spare2' = TRUE
          /\ toWrite' = <<>>
          /\ written' = 0
     ELSE /\ pc' = "aborted"
          /\ UNCHANGED <<spare1, spare2, toWrite, written>>
  /\ UNCHANGED <<ownerPc, running, frontVars, file, dropped>>

LoggerStep ==
  \/ BeginThread \/ TestRunning \/ CollectNothing \/ Collect \/ CollectAfterWait
  \/ DropBuffers \/ WriteBuffer \/ Recycle

Next == AppendLine \/ StartLogging \/ StopLogging \/ OwnerWaits \/ LoggerStep

Safety == Init /\ [][Next]_vars

(* Both threads are scheduled, and a wait with a timeout ends. *)
Fairness == WF_vars(LoggerStep) /\ WF_vars(OwnerWaits)

Spec == Safety /\ Fairness

-----------------------------------------------------------------------------
(***************************************************************************)
(* The two asserts before a buffer is reused never fail, nor do those at   *)
(* the top of the loop: when append() has used up nextBuffer_, it has left *)
(* a full buffer to reuse in its place, whatever is dropped in between.    *)
(***************************************************************************)
NoAssertFails == pc # "aborted"

(* The file, what is to be written, what waits, and the current buffer. *)
Unwritten == IF pc = "write" THEN SubSeq(toWrite, written + 1, Len(toWrite)) ELSE <<>>

Chunks == <<file>> \o Unwritten \o buffers \o <<current>>

(* The lines in a chunk; a notice is not a line. *)
LinesOf(s) == {s[i] : i \in DOMAIN s} \ {Notice}

InOrder(s) ==
  \A i, j \in DOMAIN s : i < j /\ s[i] # Notice /\ s[j] # Notice => s[i] < s[j]

(***************************************************************************)
(* Every line is in one place, in the order of the calls of append(): what *)
(* is written, what is to be written and what waits in the buffers make    *)
(* up all the lines but the dropped ones.                                  *)
(***************************************************************************)
NothingLost ==
  /\ \A c \in DOMAIN Chunks : InOrder(Chunks[c])
  /\ \A c, d \in DOMAIN Chunks :
       c < d => \A l \in LinesOf(Chunks[c]), k \in LinesOf(Chunks[d]) : l < k
  /\ UNION {LinesOf(Chunks[c]) : c \in DOMAIN Chunks} = (1 .. appended) \ dropped

(***************************************************************************)
(* The log implements the abstract one, whose lines wait in any of the     *)
(* buffers, the batch being written included: the file only grows, lines   *)
(* enter it in order and once, whichever are given up leave a notice, and  *)
(* while the log runs every line appended is written or given up at last.  *)
(***************************************************************************)
Waiting == UNION {LinesOf(Chunks[c]) : c \in 2 .. Len(Chunks)}

Abstract == INSTANCE LineLog WITH open <- running, last <- appended, waiting <- Waiting

ImplementsLog == Abstract!Spec

(* stop() returns, whatever the logging thread was at. *)
StopEnds == (ownerPc = "stopping") ~> (ownerPc = "stopped")

-----------------------------------------------------------------------------
(***************************************************************************)
(* What makes NoAssertFails inductive: nextBuffer_ is null only while a    *)
(* full buffer is queued, newBuffer1 is away exactly while a batch is      *)
(* written, a batch for which newBuffer2 was needed has two buffers, and   *)
(* the loop has not yet begun when buffers are dropped.                    *)
(***************************************************************************)
Accounted ==
  /\ pc # "aborted"
  /\ ~hasNext => buffers # <<>>
  /\ pc = "begin" => running /\ ownerPc = "starting"
  /\ ownerPc = "new" => pc = "none"
  /\ ownerPc = "starting" => running /\ pc # "none"
  /\ pc \in {"write", "recycle"} <=> ~spare1
  /\ pc \in {"write", "recycle"} <=> toWrite # <<>>
  /\ ~spare2 => ~spare1 /\ Len(toWrite) >= 2
  /\ pc = "write" => written < Len(toWrite) /\ (Len(toWrite) > MaxBatch => written = 0)
  /\ pc \notin {"write", "recycle"} => written = 0

=============================================================================
