------------------------- MODULE AsyncLoggingProofs -------------------------
(***************************************************************************)
(* For every size of the buffers, every limit of the batches (at least     *)
(* two) and any number of lines, the asserts of the log never fail, no     *)
(* buffer is filled to the brim, every line that is not dropped is in one  *)
(* place and in its turn, and the log implements LineLog (its safety part, *)
(* liveness is left to TLC).                                               *)
(***************************************************************************)
EXTENDS AsyncLogging, SequenceTheorems, TLAPS

(* An empty buffer, and no buffers at all. *)
LEMMA EmptyTypes == <<>> \in Seq(Lines) /\ <<>> \in Seq(Seq(Lines)) /\ Len(<<>>) = 0
  OBVIOUS

(* append() keeps every buffer short of its room. *)
LEMMA AppendTypes ==
  ASSUME BufferTypes, AppendLine
  PROVE  BufferTypes'
<1>1. appended' \in Lines /\ appended' \in 0 .. MaxLines
  BY LoggingAssumption DEF BufferTypes, AppendLine, Lines
<1>2. current \in Seq(Lines) /\ buffers \in Seq(Seq(Lines)) /\ Len(current) \in Nat
  BY DEF BufferTypes
<1>3. CASE Room - Len(current) > 1
  <2>1. current' = Append(current, appended')
    BY <1>3 DEF AppendLine
  <2>2. current' \in Seq(Lines) /\ Len(current') = Len(current) + 1
    BY <1>1, <1>2, <2>1, AppendProperties
  <2>3. QED
    BY <1>1, <1>2, <1>3, <2>1, <2>2, LoggingAssumption DEF BufferTypes, AppendLine, backVars
<1>4. CASE ~(Room - Len(current) > 1)
  <2>1. current' \in Seq(Lines) /\ Len(current') = 1
    <3>1. current' = <<appended'>>
      BY <1>4 DEF AppendLine
    <3>2. QED
      BY <1>1, <3>1
  <2>2. buffers' \in Seq(Seq(Lines))
    <3>1. buffers' = Append(buffers, current)
      BY <1>4 DEF AppendLine
    <3>2. QED
      BY <1>2, <3>1, AppendProperties
  <2>3. QED
    BY <1>1, <1>4, <2>1, <2>2, LoggingAssumption DEF BufferTypes, AppendLine, backVars
<1>5. QED
  BY <1>3, <1>4

(* Neither do the owner's calls change the buffers. *)
LEMMA OwnerTypes ==
  ASSUME BufferTypes, StartLogging \/ StopLogging \/ OwnerWaits
  PROVE  BufferTypes'
BY DEF BufferTypes, StartLogging, StopLogging, OwnerWaits, StartReturns, StopReturns,
       frontVars, backVars, Pcs

(* The logging thread takes sequences of buffers and leaves empty ones. *)
LEMMA LoggerTypes ==
  ASSUME BufferTypes, LoggerStep
  PROVE  BufferTypes'
<1>1. CASE BeginThread
  BY <1>1 DEF BeginThread, BufferTypes, frontVars, backVars, Pcs
<1>2. CASE TestRunning
  BY <1>2 DEF TestRunning, BufferTypes, frontVars, backVars, Pcs
<1>3. CASE CollectNothing
  BY <1>3 DEF CollectNothing, BufferTypes, frontVars, backVars, Pcs
<1>4. CASE TakeBuffers
  <2>1. Append(buffers, current) \in Seq(Seq(Lines))
    BY AppendProperties DEF BufferTypes
  <2>2. toWrite' \in Seq(Seq(Lines)) /\ buffers' \in Seq(Seq(Lines))
    BY <1>4, <2>1, EmptyTypes DEF TakeBuffers
  <2>3. current' \in Seq(Lines) /\ Len(current') < Room
    BY <1>4, EmptyTypes, LoggingAssumption DEF TakeBuffers
  <2>4. spare1' \in BOOLEAN /\ spare2' \in BOOLEAN /\ hasNext' \in BOOLEAN /\ pc' \in Pcs
    BY <1>4 DEF TakeBuffers, BufferTypes, Pcs
  <2>5. QED
    BY <1>4, <2>2, <2>3, <2>4 DEF TakeBuffers, BufferTypes
<1>5. CASE DropBuffers
  <2>1. SubSeq(toWrite, 1, 2) \in Seq(Seq(Lines))
    BY <1>5, LoggingAssumption DEF DropBuffers, BufferTypes
  <2>2. QED
    BY <1>5, <2>1 DEF DropBuffers, BufferTypes, frontVars
<1>6. CASE WriteBuffer
  <2>1. written' \in Nat /\ pc' \in Pcs
    BY <1>6 DEF WriteBuffer, BufferTypes, Pcs
  <2>2. UNCHANGED <<ownerPc, running, frontVars, spare1, spare2, toWrite>>
    BY <1>6 DEF WriteBuffer
  <2>3. /\ ownerPc' = ownerPc /\ running' = running /\ current' = current /\ hasNext' = hasNext
        /\ buffers' = buffers /\ spare1' = spare1 /\ spare2' = spare2 /\ toWrite' = toWrite
        /\ appended' = appended
    BY <2>2 DEF frontVars
  <2>4. QED
    BY <2>1, <2>3 DEF BufferTypes
<1>7. CASE Recycle
  <2>1. \/ toWrite' = <<>> /\ written' = 0
        \/ toWrite' = toWrite /\ written' = written
    BY <1>7 DEF Recycle
  <2>2. pc' \in Pcs /\ spare1' \in BOOLEAN /\ spare2' \in BOOLEAN
    BY <1>7 DEF Recycle, BufferTypes, Pcs
  <2>3. /\ ownerPc' = ownerPc /\ running' = running /\ current' = current /\ hasNext' = hasNext
        /\ buffers' = buffers /\ appended' = appended
    BY <1>7 DEF Recycle, frontVars
  <2>4. toWrite' \in Seq(Seq(Lines)) /\ written' \in Nat
    <3>1. toWrite \in Seq(Seq(Lines)) /\ written \in Nat /\ 0 \in Nat
      BY DEF BufferTypes
    <3>2. QED
      BY <2>1, <3>1, EmptyTypes, Zenon
  <2>5. QED
    BY <2>2, <2>3, <2>4 DEF BufferTypes
<1>8. QED
  BY <1>1, <1>2, <1>3, <1>4, <1>5, <1>6, <1>7 DEF LoggerStep, Collect, CollectAfterWait

(* The types of everything but the file hold in every reachable state. *)
THEOREM BuffersTyped == Safety => []BufferTypes
<1>1. Init => BufferTypes
  <2> SUFFICES ASSUME Init PROVE BufferTypes
    OBVIOUS
  <2>1. current \in Seq(Lines) /\ buffers \in Seq(Seq(Lines)) /\ toWrite \in Seq(Seq(Lines))
    BY EmptyTypes DEF Init
  <2>2. Len(current) < Room /\ appended \in 0 .. MaxLines
    BY EmptyTypes, LoggingAssumption DEF Init
  <2>3. QED
    BY <2>1, <2>2 DEF Init, BufferTypes, Pcs
<1>2. BufferTypes /\ [Next]_vars => BufferTypes'
  <2> SUFFICES ASSUME BufferTypes, [Next]_vars PROVE BufferTypes'
    OBVIOUS
  <2>1. CASE UNCHANGED vars
    BY <2>1 DEF vars, frontVars, backVars, BufferTypes
  <2>2. QED
    BY <2>1, AppendTypes, OwnerTypes, LoggerTypes DEF Next
<1>3. QED
  BY <1>1, <1>2, PTL DEF Safety

-----------------------------------------------------------------------------
(* append() leaves a full buffer where it takes nextBuffer_ away. *)
LEMMA AppendAccounted ==
  ASSUME BufferTypes, Accounted, AppendLine
  PROVE  Accounted'
<1>1. Append(buffers, current) # <<>>
  BY AppendProperties DEF BufferTypes
<1>2. QED
  BY <1>1 DEF Accounted, AppendLine, backVars

LEMMA OwnerAccounted ==
  ASSUME Accounted, StartLogging \/ StopLogging \/ OwnerWaits
  PROVE  Accounted'
BY DEF Accounted, StartLogging, StopLogging, OwnerWaits, StartReturns, StopReturns,
       frontVars, backVars

(* What is taken suffices to replace the buffers left behind. *)
LEMMA LoggerAccounted ==
  ASSUME BufferTypes, Accounted, LoggerStep
  PROVE  Accounted'
<1> USE DEF Accounted, frontVars, backVars
<1>1. CASE BeginThread
  BY <1>1 DEF BeginThread
<1>2. CASE TestRunning
  BY <1>2 DEF TestRunning
<1>3. CASE CollectNothing
  BY <1>3 DEF CollectNothing
<1>4. ASSUME TakeBuffers, pc \in {"collect", "wait"} PROVE Accounted'
  <2>1. toWrite' # <<>> /\ Len(toWrite') = Len(buffers) + 1
    <3>1. buffers \in Seq(Seq(Lines)) /\ current \in Seq(Lines) /\ toWrite' = Append(buffers, current)
      BY <1>4 DEF TakeBuffers, BufferTypes
    <3>2. QED
      BY <3>1, AppendProperties
  <2>2. ~hasNext => Len(buffers) >= 1
    BY DEF BufferTypes
  <2>3. spare2
    BY <1>4
  <2>4. ~spare2' => Len(toWrite') >= 2
    BY <1>4, <2>1, <2>2, <2>3 DEF TakeBuffers, BufferTypes
  <2>5. QED
    BY <1>4, <2>1, <2>4 DEF TakeBuffers
<1>5. CASE DropBuffers
  <2>1. toWrite' # <<>> /\ Len(toWrite') = 2
    BY <1>5, LoggingAssumption DEF DropBuffers, BufferTypes
  <2>2. QED
    BY <1>5, <2>1 DEF DropBuffers
<1>6. CASE WriteBuffer
  <2>1. /\ pc = "write" /\ pc' = IF written' = Len(toWrite) THEN "recycle" ELSE "write"
        /\ written' = written + 1 /\ Len(toWrite) <= MaxBatch
        /\ UNCHANGED <<ownerPc, running, hasNext, buffers, spare1, spare2, toWrite>>
    BY <1>6 DEF WriteBuffer
  <2>2. pc' = "write" => written' < Len(toWrite) /\ ~(Len(toWrite) > MaxBatch)
    BY <2>1, LoggingAssumption DEF BufferTypes
  <2>3. QED
    BY <2>1, <2>2
<1>7. CASE Recycle
  <2>1. Len(toWrite) >= 1
    BY <1>7 DEF Recycle, BufferTypes
  <2>2. Missing <= Len(toWrite)
    BY <1>7, <2>1 DEF Recycle, Missing, BufferTypes
  <2>3. QED
    BY <1>7, <2>2 DEF Recycle
<1>8. QED
  BY <1>1, <1>2, <1>3, <1>4, <1>5, <1>6, <1>7 DEF LoggerStep, Collect, CollectAfterWait

(* The bookkeeping of the buffers holds in every reachable state. *)
THEOREM BuffersAccounted == Safety => []Accounted
<1>1. Init => Accounted
  BY DEF Init, Accounted
<1>2. BufferTypes /\ Accounted /\ [Next]_vars => Accounted'
  <2> SUFFICES ASSUME BufferTypes, Accounted, [Next]_vars PROVE Accounted'
    OBVIOUS
  <2>1. CASE UNCHANGED vars
    BY <2>1 DEF vars, frontVars, backVars, Accounted
  <2>2. QED
    BY <2>1, AppendAccounted, OwnerAccounted, LoggerAccounted DEF Next
<1>3. QED
  BY <1>1, <1>2, BuffersTyped, PTL DEF Safety

(* The asserts of threadFunc() never fail, however the lines arrive. *)
THEOREM AssertsHold == Safety => []NoAssertFails
<1>1. Accounted => NoAssertFails
  BY DEF Accounted, NoAssertFails
<1>2. QED
  BY <1>1, BuffersAccounted, PTL

-----------------------------------------------------------------------------
(***************************************************************************)
(* A row of chunks that holds the lines of S, in their order.              *)
(***************************************************************************)
Text == Lines \union {Notice}
Rows == Seq(Seq(Text))

Sound(q, S) ==
  /\ \A c \in DOMAIN q : InOrder(q[c])
  /\ \A c, d \in DOMAIN q : c < d => \A l \in LinesOf(q[c]), k \in LinesOf(q[d]) : l < k
  /\ \A l : l \in S <=> \E c \in DOMAIN q : l \in LinesOf(q[c])

(* Lines and notices are numbers. *)
LEMMA TextType == Text \subseteq Nat /\ Notice \in Text /\ Notice = 0 /\ Notice \notin Lines
BY LoggingAssumption DEF Text, Lines, Notice

(* A chunk's lines are the texts in it that are not notices. *)
LEMMA LineOf ==
  ASSUME NEW s \in Seq(Text)
  PROVE  /\ Len(s) \in Nat /\ DOMAIN s = 1 .. Len(s) /\ \A i \in DOMAIN s : s[i] \in Nat
         /\ \A l : l \in LinesOf(s) <=> l # Notice /\ \E i \in DOMAIN s : s[i] = l
         /\ LinesOf(s) \subseteq Lines
<1>1. Len(s) \in Nat /\ DOMAIN s = 1 .. Len(s) /\ \A i \in DOMAIN s : s[i] \in Text
  OBVIOUS
<1>2. \A l : l \in LinesOf(s) <=> l # Notice /\ \E i \in DOMAIN s : s[i] = l
  BY DEF LinesOf
<1>3. QED
  BY <1>1, <1>2, TextType DEF Text

(* One text more in a chunk. *)
LEMMA Longer ==
  ASSUME NEW s \in Seq(Text), NEW x \in Text
  PROVE  /\ Append(s, x) \in Seq(Text)
         /\ \A l : l \in LinesOf(Append(s, x)) <=> l \in LinesOf(s) \/ (l = x /\ x # Notice)
         /\ InOrder(s) /\ (x = Notice \/ \A l \in LinesOf(s) : l < x) => InOrder(Append(s, x))
<1> DEFINE t == Append(s, x)
           N == Len(s) + 1
<1>1. /\ t \in Seq(Text) /\ N \in Nat /\ DOMAIN t = DOMAIN s \union {N} /\ t[N] = x
      /\ \A i \in DOMAIN s : t[i] = s[i] /\ i < N /\ i \in Nat
  BY AppendProperties
<1>2. \A l : l \in LinesOf(t) <=> l \in LinesOf(s) \/ (l = x /\ x # Notice)
  <2> HIDE DEF t, N
  <2>1. QED
    BY <1>1, LineOf
<1>3. ASSUME InOrder(s), x = Notice \/ \A l \in LinesOf(s) : l < x
      PROVE  InOrder(t)
  <2> HIDE DEF t, N
  <2> SUFFICES ASSUME NEW i \in DOMAIN t, NEW j \in DOMAIN t, i < j, t[i] # Notice, t[j] # Notice
               PROVE  t[i] < t[j]
    BY DEF InOrder
  <2>1. i \in DOMAIN s
    BY <1>1
  <2>2. CASE j \in DOMAIN s
    BY <1>1, <1>3, <2>1, <2>2 DEF InOrder
  <2>3. CASE j = N
    <3>1. t[i] \in LinesOf(s) /\ t[j] = x
      BY <1>1, <2>1, <2>3, LineOf
    <3>2. QED
      BY <1>3, <3>1
  <2>4. QED
    BY <1>1, <2>2, <2>3
<1>4. QED
  BY <1>1, <1>2, <1>3

(* One chunk behind the other. *)
LEMMA Joined ==
  ASSUME NEW s \in Seq(Text), NEW t \in Seq(Text)
  PROVE  /\ s \o t \in Seq(Text)
         /\ \A l : l \in LinesOf(s \o t) <=> l \in LinesOf(s) \/ l \in LinesOf(t)
         /\ InOrder(s) /\ InOrder(t) /\ (\A l \in LinesOf(s), k \in LinesOf(t) : l < k)
            => InOrder(s \o t)
<1> DEFINE u == s \o t
           N == Len(s)
<1>1. /\ u \in Seq(Text) /\ Len(u) = N + Len(t)
      /\ \A i \in 1 .. N + Len(t) : u[i] = IF i <= N THEN s[i] ELSE t[i - N]
  BY ConcatProperties
<1>2. /\ N \in Nat /\ Len(t) \in Nat /\ DOMAIN s = 1 .. N /\ DOMAIN t = 1 .. Len(t)
      /\ DOMAIN u = 1 .. N + Len(t)
  BY <1>1, LineOf
<1> HIDE DEF u, N
<1>3. \A i \in DOMAIN s : i \in DOMAIN u /\ u[i] = s[i]
  BY <1>1, <1>2
<1>4. \A i \in DOMAIN t : i + N \in DOMAIN u /\ u[i + N] = t[i]
  BY <1>1, <1>2
<1>5. \A i \in DOMAIN u : IF i <= N THEN i \in DOMAIN s /\ u[i] = s[i]
                                   ELSE i - N \in DOMAIN t /\ u[i] = t[i - N]
  BY <1>1, <1>2
<1>6. \A l : l \in LinesOf(u) <=> l \in LinesOf(s) \/ l \in LinesOf(t)
  <2>1. ASSUME NEW l, l \in LinesOf(u)
        PROVE  l \in LinesOf(s) \/ l \in LinesOf(t)
    <3>1. PICK i \in DOMAIN u : u[i] = l /\ l # Notice
      BY <1>1, <2>1, LineOf
    <3>2. (i \in DOMAIN s /\ s[i] = l) \/ (i - N \in DOMAIN t /\ t[i - N] = l)
      BY <1>5, <3>1
    <3>3. QED
      BY <3>1, <3>2, LineOf
  <2>2. ASSUME NEW l, l \in LinesOf(s) \/ l \in LinesOf(t)
        PROVE  l \in LinesOf(u)
    <3>1. l # Notice /\ \E i \in DOMAIN u : u[i] = l
      BY <1>3, <1>4, <2>2, LineOf
    <3>2. QED
      BY <1>1, <3>1, LineOf
  <2>3. QED
    BY <2>1, <2>2
<1>7. ASSUME InOrder(s), InOrder(t), \A l \in LinesOf(s), k \in LinesOf(t) : l < k
      PROVE  InOrder(u)
  <2> SUFFICES ASSUME NEW i \in DOMAIN u, NEW j \in DOMAIN u, i < j, u[i] # Notice, u[j] # Notice
               PROVE  u[i] < u[j]
    BY DEF InOrder
  <2>1. i \in Nat /\ j \in Nat
    BY <1>2
  <2>2. CASE j <= N
    BY <1>2, <1>5, <1>7, <2>1, <2>2 DEF InOrder
  <2>3. CASE i > N
    <3>1. i - N < j - N
      BY <1>2, <2>1
    <3>2. /\ i - N \in DOMAIN t /\ u[i] = t[i - N]
          /\ j - N \in DOMAIN t /\ u[j] = t[j - N]
      BY <1>2, <1>5, <2>1, <2>3
    <3>3. QED
      BY <1>7, <3>1, <3>2 DEF InOrder
  <2>4. CASE i <= N /\ j > N
    <3>1. u[i] \in LinesOf(s) /\ u[j] \in LinesOf(t)
      BY <1>2, <1>5, <2>1, <2>4, LineOf
    <3>2. QED
      BY <1>7, <3>1
  <2>5. QED
    BY <1>2, <2>1, <2>2, <2>3, <2>4
<1>8. QED
  BY <1>1, <1>6, <1>7 DEF u

LEMMA RowType ==
  ASSUME NEW q \in Rows
  PROVE  /\ Len(q) \in Nat /\ DOMAIN q = 1 .. Len(q)
         /\ \A c \in DOMAIN q : q[c] \in Seq(Text)
BY DEF Rows

(* One chunk more, with later lines. *)
LEMMA ChunkAdded ==
  ASSUME NEW q \in Rows, NEW S, Sound(q, S), NEW r \in Rows, NEW s \in Seq(Text),
         Len(r) = Len(q) + 1, \A c \in DOMAIN q : r[c] = q[c], r[Len(q) + 1] = s,
         InOrder(s), \A l \in S, k \in LinesOf(s) : l < k
  PROVE  Sound(r, S \union LinesOf(s))
<1> DEFINE N == Len(q) + 1
<1>1. N \in Nat /\ DOMAIN r = DOMAIN q \union {N} /\ \A c \in DOMAIN q : c < N
  BY RowType
<1>2. r[N] = s
  OBVIOUS
<1> HIDE DEF N
<1>3. \A c \in DOMAIN r : InOrder(r[c])
  BY <1>1, <1>2 DEF Sound
<1>4. ASSUME NEW c \in DOMAIN r, NEW d \in DOMAIN r, c < d,
             NEW l \in LinesOf(r[c]), NEW k \in LinesOf(r[d])
      PROVE  l < k
  <2>1. c \in DOMAIN q
    BY <1>1, <1>4, RowType
  <2>2. CASE d = N
    BY <1>2, <1>4, <2>1, <2>2 DEF Sound
  <2>3. CASE d # N
    BY <1>1, <1>4, <2>1, <2>3 DEF Sound
  <2>4. QED
    BY <2>2, <2>3
<1>5. \A l : l \in S \union LinesOf(s) <=> \E c \in DOMAIN r : l \in LinesOf(r[c])
  BY <1>1, <1>2 DEF Sound
<1>6. QED
  BY <1>3, <1>4, <1>5 DEF Sound

(* One line more in the last chunk. *)
LEMMA LineAdded ==
  ASSUME NEW q \in Rows, NEW S, Sound(q, S), NEW r \in Rows, NEW n \in DOMAIN q, n = Len(q),
         Len(r) = n, \A c \in 1 .. n - 1 : r[c] = q[c],
         NEW x \in Lines, r[n] = Append(q[n], x), \A l \in S : l < x
  PROVE  Sound(r, S \union {x})
<1>1. /\ n \in Nat \ {0} /\ DOMAIN r = DOMAIN q /\ DOMAIN q = 1 .. n
      /\ \A c \in DOMAIN q : c # n => r[c] = q[c]
      /\ \A c, d \in DOMAIN q : c < d => c # n
  <2>1. n \in Nat \ {0} /\ DOMAIN r = DOMAIN q /\ DOMAIN q = 1 .. n
    BY RowType
  <2>2. QED
    BY <2>1
<1>2. q[n] \in Seq(Text) /\ x # Notice /\ x \in Text
  BY RowType, TextType DEF Text
<1>3. \A l \in LinesOf(q[n]) : l < x
  BY DEF Sound
<1>4. \A l : l \in LinesOf(r[n]) <=> l \in LinesOf(q[n]) \/ l = x
  BY <1>2, Longer
<1>5. InOrder(q[n])
  BY DEF Sound
<1>6. InOrder(r[n])
  BY <1>2, <1>3, <1>5, Longer
<1>7. \A c \in DOMAIN r : InOrder(r[c])
  BY <1>1, <1>6 DEF Sound
<1>8. ASSUME NEW c \in DOMAIN r, NEW d \in DOMAIN r, c < d,
             NEW l \in LinesOf(r[c]), NEW k \in LinesOf(r[d])
      PROVE  l < k
  <2>1. r[c] = q[c] /\ l \in LinesOf(q[c]) /\ l \in S
    BY <1>1, <1>8 DEF Sound
  <2>2. CASE k = x
    BY <2>1, <2>2
  <2>3. CASE k # x
    <3>1. k \in LinesOf(q[d])
      BY <1>1, <1>4, <1>8, <2>3
    <3>2. QED
      BY <1>1, <1>8, <2>1, <3>1 DEF Sound
  <2>4. QED
    BY <2>2, <2>3
<1>9. \A l : l \in S \union {x} <=> \E c \in DOMAIN r : l \in LinesOf(r[c])
  BY <1>1, <1>4 DEF Sound
<1>10. QED
  BY <1>7, <1>8, <1>9 DEF Sound

(* The second chunk joins the first. *)
LEMMA ChunkWritten ==
  ASSUME NEW q \in Rows, NEW S, Sound(q, S), NEW r \in Rows, Len(q) >= 2,
         Len(r) = Len(q) - 1, r[1] = q[1] \o q[2], \A c \in 2 .. Len(r) : r[c] = q[c + 1]
  PROVE  Sound(r, S)
<1>1. /\ Len(q) \in Nat /\ 1 \in DOMAIN q /\ 2 \in DOMAIN q /\ 1 \in DOMAIN r
      /\ DOMAIN q = 1 .. Len(q) /\ DOMAIN r = 1 .. Len(q) - 1 /\ Len(r) = Len(q) - 1
      /\ q[1] \in Seq(Text) /\ q[2] \in Seq(Text)
  <2>1. /\ Len(q) \in Nat /\ DOMAIN q = 1 .. Len(q) /\ DOMAIN r = 1 .. Len(r)
        /\ \A c \in DOMAIN q : q[c] \in Seq(Text)
    BY RowType
  <2>2. 1 \in DOMAIN q /\ 2 \in DOMAIN q
    BY <2>1
  <2>3. 1 \in DOMAIN r
    BY <2>1
  <2>4. QED
    BY <2>1, <2>2, <2>3
<1>2. \A l \in LinesOf(q[1]), k \in LinesOf(q[2]) : l < k
  <2>1. \A c, d \in DOMAIN q : c < d => \A l \in LinesOf(q[c]), k \in LinesOf(q[d]) : l < k
    BY DEF Sound
  <2>2. 1 < 2
    OBVIOUS
  <2>3. QED
    BY <1>1, <2>1, <2>2
<1>3. \A l : l \in LinesOf(r[1]) <=> l \in LinesOf(q[1]) \/ l \in LinesOf(q[2])
  BY <1>1, Joined
<1>4. InOrder(q[1]) /\ InOrder(q[2])
  BY <1>1 DEF Sound
<1>5. InOrder(r[1])
  BY <1>1, <1>2, <1>4, Joined
<1>6. \A c \in DOMAIN r : c = 1 \/ (c \in 2 .. Len(r) /\ c + 1 \in DOMAIN q /\ r[c] = q[c + 1])
  BY <1>1
<1>7. \A c \in DOMAIN r : InOrder(r[c])
  BY <1>5, <1>6 DEF Sound
<1>8. ASSUME NEW c \in DOMAIN r, NEW d \in DOMAIN r, c < d,
             NEW l \in LinesOf(r[c]), NEW k \in LinesOf(r[d])
      PROVE  l < k
  <2>1. d + 1 \in DOMAIN q /\ r[d] = q[d + 1] /\ d \in Nat /\ c \in Nat /\ d >= 2
    BY <1>1, <1>6, <1>8
  <2>2. k \in LinesOf(q[d + 1])
    BY <1>8, <2>1
  <2>3. CASE c = 1
    <3>1. l \in LinesOf(q[1]) \/ l \in LinesOf(q[2])
      BY <1>3, <1>8, <2>3
    <3>2. 1 < d + 1 /\ 2 < d + 1
      BY <2>1
    <3>3. QED
      BY <1>1, <2>1, <2>2, <3>1, <3>2 DEF Sound
  <2>4. CASE c # 1
    <3>1. c + 1 \in DOMAIN q /\ r[c] = q[c + 1] /\ c + 1 < d + 1
      BY <1>6, <1>8, <2>1, <2>4
    <3>2. QED
      BY <1>8, <2>1, <2>2, <3>1 DEF Sound
  <2>5. QED
    BY <2>3, <2>4
<1>9. \A l : l \in S <=> \E c \in DOMAIN r : l \in LinesOf(r[c])
  <2>1. ASSUME NEW l \in S
        PROVE  \E c \in DOMAIN r : l \in LinesOf(r[c])
    <3>1. PICK c \in DOMAIN q : l \in LinesOf(q[c])
      BY DEF Sound
    <3>2. CASE c \in {1, 2}
      BY <1>1, <1>3, <3>1, <3>2
    <3>3. CASE c \notin {1, 2}
      <4>1. c - 1 \in DOMAIN r /\ r[c - 1] = q[c]
        BY <1>1, <3>3
      <4>2. QED
        BY <3>1, <4>1
    <3>4. QED
      BY <3>2, <3>3
  <2>2. ASSUME NEW c \in DOMAIN r, NEW l \in LinesOf(r[c])
        PROVE  l \in S
    BY <1>1, <1>3, <1>6 DEF Sound
  <2>3. QED
    BY <2>1, <2>2
<1>10. QED
  BY <1>7, <1>8, <1>9 DEF Sound

(* All chunks from the fourth on, n of them, are dropped; the first one    *)
(* gets a notice.                                                          *)
LEMMA ChunksDropped ==
  ASSUME NEW q \in Rows, NEW S, Sound(q, S), NEW r \in Rows, NEW n \in Nat,
         Len(q) >= 3 + n, Len(r) = Len(q) - n, r[1] = Append(q[1], Notice),
         \A c \in 2 .. 3 : r[c] = q[c], \A c \in 4 .. Len(r) : r[c] = q[c + n],
         NEW D, \A l : l \in D <=> \E c \in 4 .. 3 + n : l \in LinesOf(q[c])
  PROVE  Sound(r, S \ D)
<1>1. /\ Len(q) \in Nat /\ DOMAIN q = 1 .. Len(q) /\ DOMAIN r = 1 .. Len(q) - n
      /\ 1 \in DOMAIN q /\ 1 \in DOMAIN r /\ q[1] \in Seq(Text) /\ r[1] \in Seq(Text)
      /\ Len(r) = Len(q) - n
  BY RowType
<1>2. InOrder(q[1])
  BY <1>1 DEF Sound
<1>3. \A l : l \in LinesOf(r[1]) <=> l \in LinesOf(q[1])
  BY <1>1, TextType, Longer
<1>4. InOrder(r[1])
  BY <1>1, <1>2, TextType, Longer
<1> DEFINE At(c) == IF c <= 3 THEN c ELSE c + n
<1>5. \A c \in DOMAIN r : /\ At(c) \in DOMAIN q /\ At(c) \notin 4 .. 3 + n
                          /\ c = 1 \/ r[c] = q[At(c)]
                          /\ c = 1 => At(c) = 1
  <2> TAKE c \in DOMAIN r
  <2>1. c \in 1 .. Len(q) - n /\ c \in Nat
    BY <1>1
  <2>2. CASE c <= 3
    <3>1. At(c) = c /\ c \in DOMAIN q /\ c \notin 4 .. 3 + n
      BY <1>1, <2>1, <2>2
    <3>2. c = 1 \/ c \in 2 .. 3
      BY <2>1, <2>2
    <3>3. QED
      BY <3>1, <3>2
  <2>3. CASE c > 3
    <3>1. At(c) = c + n /\ c + n \in DOMAIN q /\ c + n \notin 4 .. 3 + n /\ c # 1
      BY <1>1, <2>1, <2>3
    <3>2. c \in 4 .. Len(r)
      BY <1>1, <2>1, <2>3
    <3>3. QED
      BY <3>1, <3>2
  <2>4. QED
    BY <2>1, <2>2, <2>3
<1>6. \A c \in DOMAIN r : \A l : l \in LinesOf(r[c]) <=> l \in LinesOf(q[At(c)])
  BY <1>3, <1>5
<1>7. \A c, d \in DOMAIN r : c < d => At(c) < At(d)
  BY <1>1
<1>8. \A e \in DOMAIN q : e \notin 4 .. 3 + n => \E c \in DOMAIN r : At(c) = e
  <2> TAKE e \in DOMAIN q
  <2>1. CASE e <= 3
    <3>1. e \in DOMAIN r /\ At(e) = e
      BY <1>1, <2>1
    <3>2. QED
      BY <3>1
  <2>2. CASE e > 3 + n
    <3>1. e - n \in DOMAIN r /\ At(e - n) = e
      BY <1>1, <2>2
    <3>2. QED
      BY <3>1
  <2>3. QED
    BY <1>1, <2>1, <2>2
<1>9. \A e, d \in DOMAIN q : e # d => e < d \/ d < e
  BY <1>1
<1> HIDE DEF At
<1>10. \A c \in DOMAIN r : InOrder(r[c])
  BY <1>4, <1>5 DEF Sound
<1>11. \A c, d \in DOMAIN r : c < d => \A l \in LinesOf(r[c]), k \in LinesOf(r[d]) : l < k
  BY <1>5, <1>6, <1>7 DEF Sound
<1>12. \A l : l \in S \ D <=> \E c \in DOMAIN r : l \in LinesOf(r[c])
  <2>1. ASSUME NEW l \in S \ D
        PROVE  \E c \in DOMAIN r : l \in LinesOf(r[c])
    <3>1. PICK e \in DOMAIN q : l \in LinesOf(q[e])
      BY DEF Sound
    <3>2. e \notin 4 .. 3 + n
      BY <3>1
    <3>3. QED
      BY <1>6, <1>8, <3>1, <3>2
  <2>2. ASSUME NEW c \in DOMAIN r, NEW l \in LinesOf(r[c])
        PROVE  l \in S \ D
    <3>1. l \in LinesOf(q[At(c)]) /\ At(c) \in DOMAIN q /\ At(c) \notin 4 .. 3 + n
      BY <1>5, <1>6, <2>2
    <3>2. l \in S
      BY <3>1 DEF Sound
    <3>3. l \notin D
      <4> SUFFICES ASSUME NEW d \in 4 .. 3 + n, l \in LinesOf(q[d]) PROVE FALSE
        OBVIOUS
      <4>1. d \in DOMAIN q /\ d # At(c)
        BY <1>1, <3>1
      <4>2. l < l
        BY <1>9, <3>1, <4>1 DEF Sound
      <4>3. l \in Nat
        BY <1>1, <3>1, RowType, LineOf, TextType DEF Text
      <4>4. QED
        BY <4>2, <4>3
    <3>4. QED
      BY <3>2, <3>3
  <2>3. QED
    BY <2>1, <2>2
<1>13. QED
  BY <1>10, <1>11, <1>12 DEF Sound

-----------------------------------------------------------------------------
(* z is y behind x. *)
IsJoin(x, y, z, S) ==
  /\ z \in Seq(S) /\ Len(x) \in Nat /\ Len(y) \in Nat
  /\ Len(z) = Len(x) + Len(y)
  /\ \A c \in 1 .. Len(x) : z[c] = x[c]
  /\ \A c \in 1 .. Len(y) : z[Len(x) + c] = y[c]

(* What \o does, whatever the sequences hold. *)
LEMMA Follows ==
  ASSUME NEW S, NEW x \in Seq(S), NEW y \in Seq(S)
  PROVE  IsJoin(x, y, x \o y, S)
<1>1. /\ x \o y \in Seq(S) /\ Len(x) \in Nat /\ Len(y) \in Nat
      /\ Len(x \o y) = Len(x) + Len(y)
  OBVIOUS
<1>2. \A c \in 1 .. Len(x) : (x \o y)[c] = x[c]
  BY ConcatProperties
<1>3. \A c \in 1 .. Len(y) : (x \o y)[Len(x) + c] = y[c]
  <2> TAKE c \in 1 .. Len(y)
  <2>1. Len(x) + c \in 1 .. Len(x) + Len(y) /\ ~(Len(x) + c <= Len(x)) /\ Len(x) + c - Len(x) = c
    BY <1>1
  <2>2. (x \o y)[Len(x) + c] = y[Len(x) + c - Len(x)]
    BY <2>1
  <2>3. QED
    BY <2>1, <2>2
<1>4. QED
  BY <1>1, <1>2, <1>3 DEF IsJoin

(* q is f, the chunks u, the chunks b, and s. *)
LaidOut(f, u, b, s, q, S) ==
  /\ q \in Seq(S) /\ Len(u) \in Nat /\ Len(b) \in Nat
  /\ Len(q) = 2 + Len(u) + Len(b)
  /\ q[1] = f
  /\ \A c \in 1 .. Len(u) : q[1 + c] = u[c]
  /\ \A c \in 1 .. Len(b) : q[1 + Len(u) + c] = b[c]
  /\ q[2 + Len(u) + Len(b)] = s

LEMMA Laid ==
  ASSUME NEW S, NEW f \in S, NEW u \in Seq(S), NEW b \in Seq(S), NEW s \in S
  PROVE  LaidOut(f, u, b, s, <<f>> \o u \o b \o <<s>>, S)
<1> DEFINE h == <<f>>
           t == <<s>>
           v == h \o u
           w == v \o b
           q == w \o t
<1>1. h \in Seq(S) /\ t \in Seq(S) /\ Len(h) = 1 /\ Len(t) = 1 /\ h[1] = f /\ t[1] = s
  OBVIOUS
<1> HIDE DEF h, t
<1>2. IsJoin(h, u, v, S)
  BY <1>1, Follows
<1> HIDE DEF v
<1>3. IsJoin(v, b, w, S)
  <2>1. v \in Seq(S)
    BY <1>2 DEF IsJoin
  <2>2. QED
    BY <2>1, Follows
<1> HIDE DEF w
<1>4. IsJoin(w, t, q, S)
  <2>1. w \in Seq(S)
    BY <1>3 DEF IsJoin
  <2>2. QED
    BY <1>1, <2>1, Follows
<1> HIDE DEF q
<1>5. LaidOut(f, u, b, s, q, S)
  <2>1. q \in Seq(S) /\ Len(u) \in Nat /\ Len(b) \in Nat /\ Len(v) = 1 + Len(u) /\ Len(w) = 1 + Len(u) + Len(b)
        /\ Len(q) = 2 + Len(u) + Len(b)
    BY <1>1, <1>2, <1>3, <1>4 DEF IsJoin
  <2>2. q[1] = f
    BY <1>1, <1>2, <1>3, <1>4, <2>1 DEF IsJoin
  <2>3. \A c \in 1 .. Len(u) : q[1 + c] = u[c]
    BY <1>1, <1>2, <1>3, <1>4, <2>1 DEF IsJoin
  <2>4. \A c \in 1 .. Len(b) : q[1 + Len(u) + c] = b[c]
    BY <1>1, <1>2, <1>3, <1>4, <2>1 DEF IsJoin
  <2>5. q[2 + Len(u) + Len(b)] = s
    BY <1>1, <1>2, <1>3, <1>4, <2>1 DEF IsJoin
  <2>6. QED
    BY <2>1, <2>2, <2>3, <2>4, <2>5 DEF LaidOut
<1>6. QED
  BY <1>5 DEF q, w, v, h, t

(* Buffers of lines are chunks of text. *)
LEMMA LinesAreText == Seq(Lines) \subseteq Seq(Text) /\ Seq(Seq(Lines)) \subseteq Rows
<1>1. \A s \in Seq(Lines) : s \in Seq(Text)
  BY DEF Text
<1>2. \A q \in Seq(Seq(Lines)) : q \in Seq(Seq(Text))
  BY <1>1
<1>3. QED
  BY <1>1, <1>2 DEF Rows

(* What the file holds. *)
FileTypes == file \in Seq(Text)

(* The chunks that the loop over buffersToWrite has not reached. *)
Ahead == IF pc = "write" THEN Len(toWrite) - written ELSE 0

(* The chunks at hand, one by one. *)
Shape ==
  /\ Chunks \in Rows /\ Ahead \in Nat /\ Len(buffers) \in Nat
  /\ Len(Chunks) = 2 + Ahead + Len(buffers)
  /\ Chunks[1] = file
  /\ \A c \in 1 .. Ahead : Chunks[1 + c] = toWrite[written + c]
  /\ \A c \in 1 .. Len(buffers) : Chunks[1 + Ahead + c] = buffers[c]
  /\ Chunks[2 + Ahead + Len(buffers)] = current

LEMMA AtHand ==
  ASSUME BufferTypes, FileTypes, Accounted
  PROVE  Shape
<1>1. /\ file \in Seq(Text) /\ buffers \in Seq(Seq(Text)) /\ current \in Seq(Text)
      /\ toWrite \in Seq(Seq(Lines)) /\ written \in Nat /\ Len(toWrite) \in Nat
  BY LinesAreText DEF BufferTypes, FileTypes, Rows
<1>2. CASE pc = "write"
  <2> DEFINE u == SubSeq(toWrite, written + 1, Len(toWrite))
  <2>1. written < Len(toWrite)
    BY <1>2 DEF Accounted
  <2>2. \A i \in written + 1 .. Len(toWrite) : toWrite[i] \in Seq(Lines)
    BY <1>1
  <2>3. /\ u \in Seq(Seq(Lines)) /\ Len(u) = Len(toWrite) - written
        /\ \A c \in 1 .. Len(toWrite) - written : u[c] = toWrite[written + c]
    <3>1. /\ u \in Seq(Seq(Lines))
          /\ Len(u) = IF written + 1 <= Len(toWrite) THEN Len(toWrite) - (written + 1) + 1 ELSE 0
          /\ \A c \in 1 .. Len(toWrite) - (written + 1) + 1 : u[c] = toWrite[written + 1 + c - 1]
      BY <1>1, <2>2, SubSeqProperties
    <3> HIDE DEF u
    <3>2. /\ written + 1 <= Len(toWrite) /\ Len(toWrite) - (written + 1) + 1 = Len(toWrite) - written
          /\ \A c \in 1 .. Len(toWrite) - written : written + 1 + c - 1 = written + c
      BY <1>1, <2>1
    <3>3. Len(u) = Len(toWrite) - written
      BY <3>1, <3>2
    <3>4. \A c \in 1 .. Len(toWrite) - written : u[c] = toWrite[written + c]
      <4> TAKE c \in 1 .. Len(toWrite) - written
      <4>1. c \in 1 .. Len(toWrite) - (written + 1) + 1
        BY <3>2
      <4>2. u[c] = toWrite[written + 1 + c - 1] /\ written + 1 + c - 1 = written + c
        BY <3>1, <3>2, <4>1
      <4>3. QED
        BY <4>2
    <3>5. QED
      BY <3>1, <3>3, <3>4
  <2>4. u \in Seq(Seq(Text))
    BY <2>3, LinesAreText DEF Rows
  <2>5. Chunks = <<file>> \o u \o buffers \o <<current>>
    BY <1>2 DEF Chunks, Unwritten
  <2> HIDE DEF u
  <2>6. LaidOut(file, u, buffers, current, Chunks, Seq(Text))
    BY <1>1, <2>4, <2>5, Laid
  <2>7. Ahead = Len(u) /\ Ahead = Len(toWrite) - written
    BY <1>2, <2>3 DEF Ahead
  <2>8. QED
    BY <2>3, <2>6, <2>7 DEF LaidOut, Shape, Rows
<1>3. CASE pc # "write"
  <2>1. <<>> \in Seq(Seq(Text)) /\ Len(<<>>) = 0
    OBVIOUS
  <2>2. Chunks = <<file>> \o <<>> \o buffers \o <<current>>
    BY <1>3 DEF Chunks, Unwritten
  <2>3. LaidOut(file, <<>>, buffers, current, Chunks, Seq(Text))
    BY <1>1, <2>1, <2>2, Laid
  <2>4. Ahead = 0
    BY <1>3 DEF Ahead
  <2>5. QED
    BY <2>1, <2>3, <2>4 DEF LaidOut, Shape, Rows
<1>4. QED
  BY <1>2, <1>3

(* The logging thread only ever writes buffers it took to the file. *)
LEMMA FileGrows ==
  ASSUME BufferTypes, Accounted, FileTypes, [Next]_vars
  PROVE  FileTypes'
<1>1. CASE DropBuffers
  <2>1. file' = Append(file, Notice) /\ Notice \in Text /\ file \in Seq(Text)
    BY <1>1, TextType DEF DropBuffers, FileTypes
  <2>2. QED
    BY <2>1, Longer DEF FileTypes
<1>2. CASE WriteBuffer
  <2>1. written + 1 \in 1 .. Len(toWrite)
    BY <1>2 DEF WriteBuffer, Accounted, BufferTypes
  <2>2. toWrite[written + 1] \in Seq(Text)
    BY <2>1, LinesAreText DEF BufferTypes
  <2>3. file' = file \o toWrite[written + 1]
    BY <1>2 DEF WriteBuffer
  <2>4. QED
    BY <2>2, <2>3, ConcatProperties DEF FileTypes
<1>3. CASE ~DropBuffers /\ ~WriteBuffer
  <2>1. file' = file
    BY <1>3 DEF Next, vars, LoggerStep, AppendLine, StartLogging, StopLogging, OwnerWaits,
                StartReturns, StopReturns, BeginThread, TestRunning, CollectNothing, Collect,
                CollectAfterWait, TakeBuffers, Recycle, frontVars, backVars
  <2>2. QED
    BY <2>1 DEF FileTypes
<1>4. QED
  BY <1>1, <1>2, <1>3

-----------------------------------------------------------------------------
(* A place in the row is the file's, one ahead, a full buffer's or the     *)
(* current buffer's.                                                       *)
LEMMA Places ==
  ASSUME NEW a \in Nat, NEW b \in Nat, NEW c \in 1 .. 2 + a + b
  PROVE  \/ c = 1
         \/ c - 1 \in 1 .. a /\ c = 1 + (c - 1)
         \/ c - 1 - a \in 1 .. b /\ c = 1 + a + (c - 1 - a)
         \/ c = 2 + a + b
  OBVIOUS

(* The invariant: the row at hand holds what is appended and not dropped. *)
Kept ==
  /\ Sound(Chunks, (1 .. appended) \ dropped)
  /\ dropped \subseteq 1 .. appended

(* append() with room: the last chunk gets the line. *)
LEMMA AppendKeeps ==
  ASSUME BufferTypes, Shape, Shape', Kept, AppendLine
  PROVE  Kept'
<1> DEFINE S == (1 .. appended) \ dropped
           x == appended + 1
<1>1. /\ appended \in Nat /\ appended' = x /\ x \in Lines /\ dropped' = dropped
      /\ \A l \in S : l < x
      /\ (1 .. x) \ dropped = S \union {x}
  <2>1. appended \in 0 .. MaxLines /\ appended < MaxLines /\ appended' = x /\ dropped' = dropped
    BY DEF AppendLine, BufferTypes, backVars
  <2>2. appended \in Nat /\ x \in Lines /\ \A l \in S : l < x
    BY <2>1, LoggingAssumption DEF Lines
  <2>3. \A l : l \in 1 .. x <=> l \in 1 .. appended \/ l = x
    BY <2>2
  <2>4. x \notin dropped
    BY <2>2 DEF Kept
  <2>5. QED
    BY <2>1, <2>2, <2>3, <2>4
<1>2. dropped' \subseteq 1 .. appended'
  BY <1>1 DEF Kept
<1>3. /\ Chunks \in Rows /\ Chunks' \in Rows /\ Sound(Chunks, S)
      /\ Ahead \in Nat /\ Len(buffers) \in Nat
  BY DEF Shape, Kept
<1>4. Ahead' = Ahead /\ file' = file /\ toWrite' = toWrite /\ written' = written
  BY DEF AppendLine, Ahead, backVars
<1> DEFINE q == Chunks
           n == Len(q)
<1>5. CASE Room - Len(current) > 1
  <2>1. buffers' = buffers /\ current' = Append(current, x)
    BY <1>1, <1>5 DEF AppendLine
  <2>2. Len(Chunks') = n /\ n = 2 + Ahead + Len(buffers)
    BY <1>4, <2>1 DEF Shape
  <2>3. n \in DOMAIN q
    BY <1>3, <2>2, RowType
  <2>4. \A c \in 1 .. n - 1 : Chunks'[c] = q[c]
    <3> TAKE c \in 1 .. n - 1
    <3>1. c \in 1 .. 2 + Ahead + Len(buffers) /\ c # 2 + Ahead + Len(buffers)
      BY <1>3, <2>2
    <3>2. \/ c = 1
          \/ c - 1 \in 1 .. Ahead /\ c = 1 + (c - 1)
          \/ c - 1 - Ahead \in 1 .. Len(buffers) /\ c = 1 + Ahead + (c - 1 - Ahead)
      BY <1>3, <3>1, Places
    <3>3. CASE c = 1
      BY <1>4, <3>3 DEF Shape
    <3>4. CASE c - 1 \in 1 .. Ahead /\ c = 1 + (c - 1)
      BY <1>4, <3>4 DEF Shape
    <3>5. CASE c - 1 - Ahead \in 1 .. Len(buffers) /\ c = 1 + Ahead + (c - 1 - Ahead)
      BY <1>4, <2>1, <3>5 DEF Shape
    <3>6. QED
      BY <3>2, <3>3, <3>4, <3>5
  <2>5. Chunks'[n] = Append(q[n], x)
    BY <1>4, <2>1, <2>2 DEF Shape
  <2> HIDE DEF x, S
  <2>6. Sound(Chunks', S \union {x})
    BY <1>1, <1>3, <2>2, <2>3, <2>4, <2>5, LineAdded
  <2>7. QED
    BY <1>1, <1>2, <2>6 DEF Kept, S
<1>6. CASE ~(Room - Len(current) > 1)
  <2>1. buffers' = Append(buffers, current) /\ current' = <<x>>
    BY <1>1, <1>6 DEF AppendLine
  <2>2. /\ Len(buffers') = Len(buffers) + 1 /\ buffers'[Len(buffers) + 1] = current
        /\ \A c \in 1 .. Len(buffers) : buffers'[c] = buffers[c]
    BY <2>1, AppendProperties DEF BufferTypes
  <2>3. Len(Chunks') = n + 1 /\ n = 2 + Ahead + Len(buffers) /\ n \in Nat
    BY <1>3, <1>4, <2>2 DEF Shape
  <2>4. \A c \in DOMAIN q : Chunks'[c] = q[c]
    <3> TAKE c \in DOMAIN q
    <3>1. c \in 1 .. 2 + Ahead + Len(buffers)
      BY <1>3, <2>3, RowType
    <3>2. CASE c = 2 + Ahead + Len(buffers)
      <4>1. q[c] = current
        BY <3>2 DEF Shape
      <4>2. c = 1 + Ahead + (Len(buffers) + 1) /\ Len(buffers) + 1 \in 1 .. Len(buffers')
        BY <1>3, <2>2, <3>2
      <4>3. Chunks'[c] = buffers'[Len(buffers) + 1]
        BY <1>4, <4>2 DEF Shape
      <4>4. QED
        BY <2>2, <4>1, <4>3
    <3>3. CASE c # 2 + Ahead + Len(buffers)
      <4>1. c - 1 - Ahead \in 1 .. Len(buffers) => c - 1 - Ahead \in 1 .. Len(buffers')
        BY <1>3, <2>2
      <4>2. QED
        BY <1>3, <1>4, <2>2, <3>1, <3>3, <4>1, Places DEF Shape
    <3>4. QED
      BY <3>2, <3>3
  <2>5. Chunks'[n + 1] = <<x>>
    <3>1. n + 1 = 2 + Ahead' + Len(buffers')
      BY <1>3, <1>4, <2>2, <2>3
    <3>2. QED
      BY <2>1, <3>1 DEF Shape
  <2>6. /\ <<x>> \in Seq(Text) /\ InOrder(<<x>>)
        /\ \A l : l \in LinesOf(<<x>>) <=> l = x
    <3>1. /\ x \in Lines /\ x \in Text /\ x # Notice
      BY <1>1, TextType DEF Text
    <3> HIDE DEF x
    <3>2. /\ <<x>> \in Seq(Text) /\ DOMAIN <<x>> = {1} /\ <<x>>[1] = x
      BY <3>1
    <3>3. InOrder(<<x>>)
      BY <3>2 DEF InOrder
    <3>4. QED
      BY <3>1, <3>2, <3>3 DEF LinesOf
  <2> HIDE DEF x, S
  <2>7. \A l \in S, k \in LinesOf(<<x>>) : l < k
    BY <1>1, <2>6
  <2>8. Sound(Chunks', S \union LinesOf(<<x>>))
    BY <1>3, <2>3, <2>4, <2>5, <2>6, <2>7, ChunkAdded
  <2>9. S \union LinesOf(<<x>>) = (1 .. appended') \ dropped'
    BY <1>1, <2>6
  <2>10. QED
    BY <1>2, <2>8, <2>9 DEF Kept
<1>7. QED
  BY <1>5, <1>6

(* Taking the buffers adds an empty one behind the row. *)
LEMMA TakeKeeps ==
  ASSUME BufferTypes, Accounted, Shape, Shape', Kept, TakeBuffers, pc \in {"collect", "wait"}
  PROVE  Kept'
<1> DEFINE S == (1 .. appended) \ dropped
           q == Chunks
           n == Len(q)
           B == Len(buffers)
<1>1. /\ appended' = appended /\ dropped' = dropped /\ file' = file
      /\ buffers' = <<>> /\ current' = <<>> /\ toWrite' = Append(buffers, current)
      /\ pc' = "write" /\ written' = 0
  BY DEF TakeBuffers, Accounted
<1>2. /\ Chunks \in Rows /\ Chunks' \in Rows /\ Sound(Chunks, S) /\ B \in Nat /\ Ahead = 0
      /\ dropped' \subseteq 1 .. appended'
  BY <1>1 DEF Shape, Kept, Ahead
<1>3. /\ Len(toWrite') = B + 1 /\ toWrite'[B + 1] = current
      /\ \A c \in 1 .. B : toWrite'[c] = buffers[c]
  BY <1>1, AppendProperties DEF BufferTypes
<1>4. Ahead' = B + 1 /\ Len(buffers') = 0
  BY <1>1, <1>2, <1>3 DEF Ahead
<1>5. n = 2 + B /\ Len(Chunks') = n + 1 /\ n \in Nat
  BY <1>2, <1>4 DEF Shape
<1>6. \A c \in 1 .. B + 1 : Chunks'[1 + c] = toWrite'[c]
  BY <1>1, <1>4 DEF Shape
<1>7. \A c \in DOMAIN q : Chunks'[c] = q[c]
  <2> TAKE c \in DOMAIN q
  <2>1. c \in 1 .. 2 + 0 + B
    BY <1>2, <1>5, RowType
  <2>2. CASE c = 1
    BY <1>1, <2>2 DEF Shape
  <2>3. CASE c = 2 + B
    <3>1. q[c] = current
      BY <1>2, <2>3 DEF Shape
    <3>2. c = 1 + (B + 1) /\ B + 1 \in 1 .. B + 1
      BY <1>2, <2>3
    <3>3. QED
      BY <1>3, <1>6, <3>1, <3>2
  <2>4. CASE c # 1 /\ c # 2 + B
    <3>1. c - 1 \in 1 .. B /\ c - 1 \in 1 .. B + 1 /\ c = 1 + (c - 1) /\ c = 1 + 0 + (c - 1)
      BY <1>2, <2>1, <2>4
    <3>2. q[c] = buffers[c - 1]
      BY <1>2, <3>1 DEF Shape
    <3>3. QED
      BY <1>3, <1>6, <3>1, <3>2
  <2>5. QED
    BY <2>2, <2>3, <2>4
<1>8. Chunks'[n + 1] = <<>>
  <2>1. n + 1 = 2 + Ahead' + Len(buffers')
    BY <1>2, <1>4, <1>5
  <2>2. QED
    BY <1>1, <2>1 DEF Shape
<1>9. <<>> \in Seq(Text) /\ InOrder(<<>>) /\ LinesOf(<<>>) = {}
  BY DEF InOrder, LinesOf
<1> HIDE DEF S
<1>10. Sound(Chunks', S \union LinesOf(<<>>))
  BY <1>2, <1>5, <1>7, <1>8, <1>9, ChunkAdded
<1>11. S \union LinesOf(<<>>) = (1 .. appended') \ dropped'
  BY <1>1, <1>9 DEF S
<1>12. QED
  BY <1>2, <1>10, <1>11 DEF Kept

(* The lines given up are those of the chunks from the fourth on. *)
LEMMA DropKeeps ==
  ASSUME BufferTypes, Accounted, FileTypes, Shape, Shape', Kept, DropBuffers
  PROVE  Kept'
<1> DEFINE S == (1 .. appended) \ dropped
           G(i) == {toWrite[i][j] : j \in DOMAIN toWrite[i]}
           D == UNION {G(i) : i \in 3 .. Len(toWrite)}
           n == Len(toWrite) - 2
           B == Len(buffers)
<1>1. /\ appended' = appended /\ dropped' = dropped \union D /\ file' = Append(file, Notice)
      /\ buffers' = buffers /\ current' = current /\ toWrite' = SubSeq(toWrite, 1, 2)
      /\ pc = "write" /\ pc' = "write" /\ written = 0 /\ written' = 0
  BY DEF DropBuffers, Accounted, frontVars
<1>2. /\ Chunks \in Rows /\ Chunks' \in Rows /\ Sound(Chunks, S) /\ B \in Nat
      /\ dropped \subseteq 1 .. appended
  BY DEF Shape, Kept
<1>3. n \in Nat /\ Len(toWrite) \in Nat /\ toWrite \in Seq(Seq(Lines)) /\ Ahead = 2 + n
  BY <1>1, LoggingAssumption DEF DropBuffers, BufferTypes, Ahead
<1>4. Len(toWrite') = 2 /\ toWrite'[1] = toWrite[1] /\ toWrite'[2] = toWrite[2]
  BY <1>1, <1>3
<1>5. Ahead' = 2
  BY <1>1, <1>4 DEF Ahead
<1> HIDE DEF n
<1>6. Len(Chunks) = 4 + n + B /\ Len(Chunks') = 4 + B
  BY <1>1, <1>2, <1>3, <1>5 DEF Shape
<1>7. Len(Chunks) >= 3 + n /\ Len(Chunks') = Len(Chunks) - n
  BY <1>2, <1>3, <1>6
<1>8. Chunks'[1] = Append(Chunks[1], Notice)
  BY <1>1 DEF Shape
<1>9. \A c \in 2 .. 3 : Chunks'[c] = Chunks[c]
  <2>1. 1 \in 1 .. 2 /\ 2 \in 1 .. 2 /\ 1 \in 1 .. 2 + n /\ 2 \in 1 .. 2 + n
    BY <1>3
  <2>2. Chunks'[1 + 1] = toWrite'[0 + 1] /\ Chunks'[1 + 2] = toWrite'[0 + 2]
    BY <1>1, <1>5, <2>1 DEF Shape
  <2>3. Chunks[1 + 1] = toWrite[0 + 1] /\ Chunks[1 + 2] = toWrite[0 + 2]
    BY <1>1, <1>3, <2>1 DEF Shape
  <2>4. Chunks'[2] = Chunks[2] /\ Chunks'[3] = Chunks[3]
    BY <1>4, <2>2, <2>3
  <2>5. QED
    BY <2>4
<1>10. \A c \in 4 .. Len(Chunks') : Chunks'[c] = Chunks[c + n]
  <2> TAKE c \in 4 .. Len(Chunks')
  <2>1. c \in 4 .. 4 + B
    BY <1>6
  <2>2. CASE c = 4 + B
    <3>1. c = 2 + Ahead' + Len(buffers') /\ c + n = 2 + Ahead + Len(buffers)
      BY <1>1, <1>2, <1>3, <1>5, <2>2
    <3>2. QED
      BY <1>1, <3>1 DEF Shape
  <2>3. CASE c # 4 + B
    <3>1. /\ c - 3 \in 1 .. B /\ c = 1 + Ahead' + (c - 3) /\ c + n = 1 + Ahead + (c - 3)
      BY <1>2, <1>3, <1>5, <2>1, <2>3
    <3>2. Chunks'[c] = buffers[c - 3] /\ Chunks[c + n] = buffers[c - 3]
      BY <1>1, <3>1 DEF Shape
    <3>3. QED
      BY <3>2
  <2>4. QED
    BY <2>2, <2>3
<1>11. \A l : l \in D <=> \E c \in 4 .. 3 + n : l \in LinesOf(Chunks[c])
  <2>1. \A i \in 3 .. Len(toWrite) : /\ i + 1 \in 4 .. 3 + n
                                     /\ Chunks[i + 1] = toWrite[i]
    <3> TAKE i \in 3 .. Len(toWrite)
    <3>1. i + 1 \in 4 .. 3 + n /\ i \in 1 .. Ahead /\ i + 1 = 1 + i /\ 0 + i = i
      BY <1>3 DEF n
    <3>2. Chunks[1 + i] = toWrite[0 + i]
      BY <1>1, <3>1 DEF Shape
    <3>3. QED
      BY <3>1, <3>2
  <2>2. \A c \in 4 .. 3 + n : c - 1 \in 3 .. Len(toWrite) /\ Chunks[c] = toWrite[c - 1]
    <3> TAKE c \in 4 .. 3 + n
    <3>1. c - 1 \in 3 .. Len(toWrite) /\ c - 1 + 1 = c
      BY <1>3 DEF n
    <3>2. QED
      BY <2>1, <3>1
  <2>3. \A i \in 3 .. Len(toWrite) : G(i) = LinesOf(toWrite[i])
    <3> TAKE i \in 3 .. Len(toWrite)
    <3>1. toWrite[i] \in Seq(Lines)
      BY <1>3
    <3>2. \A j \in DOMAIN toWrite[i] : toWrite[i][j] # Notice
      BY <3>1, TextType
    <3>3. QED
      BY <3>2 DEF LinesOf
  <2>4. \A l : l \in D <=> \E i \in 3 .. Len(toWrite) : l \in LinesOf(toWrite[i])
    <3> HIDE DEF G
    <3>1. \A l : l \in D <=> \E i \in 3 .. Len(toWrite) : l \in G(i)
      OBVIOUS
    <3>2. QED
      BY <2>3, <3>1
  <2> HIDE DEF D
  <2>5. QED
    BY <2>1, <2>2, <2>4
<1> HIDE DEF D, S
<1>12. Sound(Chunks', S \ D)
  BY <1>2, <1>3, <1>7, <1>8, <1>9, <1>10, <1>11, ChunksDropped
<1>13. S \ D = (1 .. appended') \ dropped'
  BY <1>1 DEF S
<1>14. dropped' \subseteq 1 .. appended'
  <2>1. \A c \in 4 .. 3 + n : c \in DOMAIN Chunks
    BY <1>2, <1>3, <1>6, RowType
  <2>2. D \subseteq S
    BY <1>2, <1>11, <2>1 DEF Sound
  <2>3. QED
    BY <1>1, <1>2, <2>2 DEF S
<1>15. QED
  BY <1>12, <1>13, <1>14 DEF Kept

(* One round of the loop moves the chunk after the file into the file. *)
LEMMA WriteKeeps ==
  ASSUME BufferTypes, Accounted, Shape, Shape', Kept, WriteBuffer
  PROVE  Kept'
<1> DEFINE S == (1 .. appended) \ dropped
           B == Len(buffers)
<1>1. /\ appended' = appended /\ dropped' = dropped /\ buffers' = buffers /\ current' = current
      /\ toWrite' = toWrite /\ written' = written + 1 /\ file' = file \o toWrite[written + 1]
      /\ pc = "write" /\ pc' = IF written' = Len(toWrite) THEN "recycle" ELSE "write"
      /\ written < Len(toWrite) /\ written \in Nat /\ Len(toWrite) \in Nat
  BY DEF WriteBuffer, Accounted, BufferTypes, frontVars
<1>2. /\ Chunks \in Rows /\ Chunks' \in Rows /\ Sound(Chunks, S) /\ B \in Nat
      /\ dropped' \subseteq 1 .. appended'
  BY <1>1 DEF Shape, Kept
<1>3. /\ Ahead = Len(toWrite) - written /\ Ahead \in Nat /\ Ahead >= 1 /\ 1 \in 1 .. Ahead
      /\ Ahead' = Ahead - 1
  BY <1>1 DEF Ahead
<1>4. Len(Chunks) = 2 + Ahead + B /\ Len(Chunks') = Len(Chunks) - 1 /\ Len(Chunks) >= 2
  BY <1>1, <1>2, <1>3 DEF Shape
<1>5. Chunks'[1] = Chunks[1] \o Chunks[2]
  <2>1. Chunks[1 + 1] = toWrite[written + 1] /\ 1 + 1 = 2
    BY <1>3 DEF Shape
  <2>2. QED
    BY <1>1, <2>1 DEF Shape
<1>6. \A c \in 2 .. Len(Chunks') : Chunks'[c] = Chunks[c + 1]
  <2> TAKE c \in 2 .. Len(Chunks')
  <2>1. c \in 2 .. 1 + Ahead + B
    BY <1>2, <1>3, <1>4
  <2>2. CASE c <= Ahead
    <3>1. /\ c - 1 \in 1 .. Ahead' /\ c = 1 + (c - 1)
          /\ c \in 1 .. Ahead /\ c + 1 = 1 + c
          /\ written + 1 + (c - 1) = written + c
      BY <1>1, <1>3, <2>1, <2>2
    <3>2. Chunks'[1 + (c - 1)] = toWrite[written + 1 + (c - 1)]
      BY <1>1, <3>1 DEF Shape
    <3>3. Chunks[1 + c] = toWrite[written + c]
      BY <3>1 DEF Shape
    <3>4. QED
      BY <3>1, <3>2, <3>3
  <2>3. CASE c = 1 + Ahead + B
    <3>1. c = 2 + Ahead' + Len(buffers') /\ c + 1 = 2 + Ahead + Len(buffers)
      BY <1>1, <1>2, <1>3, <2>3
    <3>2. QED
      BY <1>1, <3>1 DEF Shape
  <2>4. CASE c > Ahead /\ c # 1 + Ahead + B
    <3>1. /\ c - Ahead \in 1 .. B
          /\ c = 1 + Ahead' + (c - Ahead) /\ c + 1 = 1 + Ahead + (c - Ahead)
      <4>1. c \in Int /\ Ahead \in Int /\ Ahead' = Ahead - 1 /\ B \in Nat
        BY <1>2, <1>3, <2>1
      <4>2. c - Ahead \in 1 .. B
        BY <2>1, <2>4, <4>1
      <4>3. QED
        BY <4>1, <4>2
    <3>2. Chunks'[c] = buffers[c - Ahead] /\ Chunks[c + 1] = buffers[c - Ahead]
      BY <1>1, <3>1 DEF Shape
    <3>3. QED
      BY <3>2
  <2>5. QED
    BY <1>3, <2>1, <2>2, <2>3, <2>4
<1> HIDE DEF S
<1>7. Sound(Chunks', S)
  BY <1>2, <1>4, <1>5, <1>6, ChunkWritten
<1>8. QED
  BY <1>1, <1>2, <1>7 DEF Kept, S

(* Every other step leaves the row as it is. *)
LEMMA OthersKeep ==
  ASSUME Accounted, Kept,
         \/ StartLogging \/ StopLogging \/ OwnerWaits \/ BeginThread \/ TestRunning
         \/ CollectNothing \/ Recycle \/ UNCHANGED vars
  PROVE  Kept'
<1>1. UNCHANGED <<file, buffers, current, appended, dropped>>
  BY DEF StartLogging, StopLogging, OwnerWaits, StartReturns, StopReturns, BeginThread,
         TestRunning, CollectNothing, Recycle, vars, frontVars, backVars
<1>2. Unwritten' = Unwritten
  BY DEF Unwritten, Accounted, StartLogging, StopLogging, OwnerWaits, StartReturns, StopReturns,
         BeginThread, TestRunning, CollectNothing, Recycle, vars, frontVars, backVars
<1>3. Chunks' = Chunks
  BY <1>1, <1>2 DEF Chunks
<1>4. QED
  BY <1>1, <1>3 DEF Kept, Sound, LinesOf, InOrder

(* The steps together. *)
LEMMA StepKeeps ==
  ASSUME BufferTypes, Accounted, FileTypes, Shape, Shape', Kept, [Next]_vars
  PROVE  Kept'
BY AppendKeeps, TakeKeeps, DropKeeps, WriteKeeps, OthersKeep
   DEF Next, LoggerStep, Collect, CollectAfterWait

(* At first nothing is appended, and the row holds nothing. *)
LEMMA InitKeeps ==
  ASSUME Init, Shape
  PROVE  Kept
<1>1. /\ file = <<>> /\ current = <<>> /\ buffers = <<>> /\ Ahead = 0 /\ appended = 0 /\ dropped = {}
  BY DEF Init, Ahead
<1>2. Chunks \in Rows /\ Len(Chunks) = 2 /\ Chunks[1] = <<>> /\ Chunks[2] = <<>>
  BY <1>1 DEF Shape
<1>3. \A c \in DOMAIN Chunks : Chunks[c] = <<>>
  <2>1. DOMAIN Chunks = 1 .. 2
    BY <1>2, RowType
  <2>2. QED
    BY <1>2, <2>1
<1>4. InOrder(<<>>) /\ LinesOf(<<>>) = {}
  BY DEF InOrder, LinesOf
<1>5. (1 .. appended) \ dropped = {} /\ dropped \subseteq 1 .. appended
  BY <1>1
<1>6. QED
  BY <1>3, <1>4, <1>5 DEF Kept, Sound

(* What is in the row is what is appended and not dropped. *)
LEMMA KeptIsWhole == Kept => NothingLost
<1> SUFFICES ASSUME Kept PROVE NothingLost
  OBVIOUS
<1>1. UNION {LinesOf(Chunks[c]) : c \in DOMAIN Chunks} = (1 .. appended) \ dropped
  BY DEF Kept, Sound
<1>2. QED
  BY <1>1 DEF Kept, Sound, NothingLost

(* The file holds lines and notices. *)
THEOREM FileTyped == Safety => []FileTypes
<1>1. Init => FileTypes
  BY DEF Init, FileTypes
<1>2. QED
  BY <1>1, FileGrows, BuffersTyped, BuffersAccounted, PTL DEF Safety

(* The row at hand holds the lines of the calls of append(), in order. *)
THEOREM LinesKept == Safety => []Kept
<1>1. BufferTypes /\ FileTypes /\ Accounted => Shape
  BY AtHand
<1>2. Init /\ Shape => Kept
  BY InitKeeps
<1>3. BufferTypes /\ Accounted /\ FileTypes /\ Shape /\ Shape' /\ Kept /\ [Next]_vars => Kept'
  BY StepKeeps
<1>4. QED
  BY <1>1, <1>2, <1>3, BuffersTyped, BuffersAccounted, FileTyped, PTL DEF Safety

(* Every line is in one place and in its turn, but the dropped ones. *)
THEOREM LinesInPlace == Safety => []NothingLost
BY LinesKept, KeptIsWhole, PTL

(* The types of the whole state. *)
THEOREM TypeCorrect == Safety => []TypeOK
<1>1. BufferTypes /\ FileTypes /\ Kept => TypeOK
  <2> SUFFICES ASSUME BufferTypes, FileTypes, Kept PROVE TypeOK
    OBVIOUS
  <2>1. file \in Seq(Lines \union {Notice})
    BY DEF FileTypes, Text
  <2>2. 1 .. appended \subseteq Lines
    BY LoggingAssumption DEF BufferTypes, Lines
  <2>3. QED
    BY <2>1, <2>2 DEF TypeOK, Kept
<1>2. QED
  BY <1>1, BuffersTyped, FileTyped, LinesKept, PTL

-----------------------------------------------------------------------------
(***************************************************************************)
(* The refinement.  A line waits when it is appended, not dropped and not  *)
(* in the file; with that, each step is one of LineLog or a stutter.       *)
(***************************************************************************)
Parted ==
  /\ Waiting = ((1 .. appended) \ dropped) \ LinesOf(file)
  /\ LinesOf(file) \subseteq (1 .. appended) \ dropped

LEMMA WhoWaits ==
  ASSUME Shape, Kept
  PROVE  Parted
<1>1. /\ Len(Chunks) \in Nat /\ Len(Chunks) >= 2 /\ DOMAIN Chunks = 1 .. Len(Chunks)
      /\ Chunks[1] = file /\ Chunks \in Rows
  BY RowType DEF Shape
<1>2. \A l : l \in Waiting <=> \E c \in 2 .. Len(Chunks) : l \in LinesOf(Chunks[c])
  BY DEF Waiting
<1>3. \A c \in DOMAIN Chunks : c = 1 \/ (c \in 2 .. Len(Chunks) /\ 1 < c)
  BY <1>1
<1>4. \A c \in 2 .. Len(Chunks) : c \in DOMAIN Chunks /\ 1 < c
  BY <1>1
<1>5. 1 \in DOMAIN Chunks
  BY <1>1
<1>6. \A l \in LinesOf(file) : l \in Nat
  <2>1. file \in Seq(Text)
    BY <1>1, <1>5, RowType
  <2>2. LinesOf(file) \subseteq Lines
    BY <2>1, LineOf
  <2>3. QED
    BY <2>2 DEF Lines
<1>7. \A l \in Nat : ~(l < l)
  OBVIOUS
<1>8. \A l : ~(l \in Waiting /\ l \in LinesOf(file))
  <2> SUFFICES ASSUME NEW l, l \in Waiting, l \in LinesOf(file) PROVE FALSE
    OBVIOUS
  <2>1. PICK c \in 2 .. Len(Chunks) : l \in LinesOf(Chunks[c])
    BY <1>2
  <2>2. l < l
    BY <1>1, <1>4, <1>5, <2>1 DEF Kept, Sound
  <2>3. QED
    BY <1>6, <1>7, <2>2
<1>9. \A l : l \in (1 .. appended) \ dropped <=> l \in LinesOf(file) \/ l \in Waiting
  BY <1>1, <1>2, <1>3, <1>4, <1>5 DEF Kept, Sound
<1>10. QED
  BY <1>8, <1>9 DEF Parted

(* append() lets its line wait. *)
LEMMA AppendLogs ==
  ASSUME BufferTypes, Kept, Parted, Parted', AppendLine
  PROVE  Abstract!Log
<1>1. /\ appended' = appended + 1 /\ appended \in Nat
      /\ file' = file /\ dropped' = dropped /\ running' = running
  BY LoggingAssumption DEF AppendLine, BufferTypes, backVars
<1>2. \A l : l \in 1 .. appended' <=> l \in 1 .. appended \/ l = appended'
  BY <1>1
<1>3. appended' \notin 1 .. appended
  BY <1>1
<1>4. Waiting' = Waiting \union {appended'}
  BY <1>1, <1>2, <1>3 DEF Parted, Kept
<1>5. QED
  BY <1>1, <1>4 DEF Abstract!Log

(* A round of the loop writes the lines of one buffer, the oldest there.   *)
LEMMA LoopWrites ==
  ASSUME BufferTypes, Accounted, FileTypes, Shape, Kept, Parted, Parted', WriteBuffer
  PROVE  Abstract!Write
<1> DEFINE s == toWrite[written + 1]
           F == Len(file)
           N == F + 1 .. Len(file')
<1>1. /\ appended' = appended /\ dropped' = dropped /\ running' = running /\ file' = file \o s
      /\ pc = "write" /\ written < Len(toWrite) /\ written \in Nat /\ Len(toWrite) \in Nat
  BY DEF WriteBuffer, Accounted, BufferTypes, frontVars
<1>2. Chunks[2] = s /\ 2 \in 2 .. Len(Chunks) /\ Len(Chunks) \in Nat
  <2>1. Ahead \in Nat /\ 1 \in 1 .. Ahead
    BY <1>1 DEF Ahead
  <2>2. Chunks[1 + 1] = s /\ 1 + 1 = 2
    BY <2>1 DEF Shape
  <2>3. QED
    BY <2>1, <2>2 DEF Shape
<1>3. s \in Seq(Lines) /\ s \in Seq(Text) /\ file \in Seq(Text)
  <2>1. written + 1 \in 1 .. Len(toWrite)
    BY <1>1
  <2>2. s \in Seq(Lines)
    BY <2>1 DEF BufferTypes
  <2>3. QED
    BY <2>2, LinesAreText DEF FileTypes
<1> HIDE DEF s
<1>4. IsJoin(file, s, file', Text)
  BY <1>1, <1>3, Follows
<1>5. \A i \in N : i - F \in 1 .. Len(s) /\ file'[i] = s[i - F]
  <2> TAKE i \in N
  <2>1. i - F \in 1 .. Len(s) /\ i = F + (i - F)
    BY <1>4 DEF IsJoin
  <2>2. file'[F + (i - F)] = s[i - F]
    BY <1>4, <2>1 DEF IsJoin
  <2>3. QED
    BY <2>1, <2>2
<1>6. \A c \in 1 .. Len(s) : F + c \in N /\ file'[F + c] = s[c] /\ s[c] \in LinesOf(s)
  <2> TAKE c \in 1 .. Len(s)
  <2>1. F + c \in N /\ file'[F + c] = s[c]
    BY <1>4 DEF IsJoin
  <2>2. c \in DOMAIN s /\ s[c] \in Lines
    BY <1>3
  <2>3. QED
    BY <2>1, <2>2, TextType DEF LinesOf
<1>7. \A l \in LinesOf(s) : \E c \in 1 .. Len(s) : l = s[c]
  BY <1>3 DEF LinesOf
<1>8. \A l \in LinesOf(s) : l \in Waiting
  BY <1>2 DEF Waiting
<1>9. F \in Nat /\ Len(file') >= F /\ \A i \in DOMAIN file : file'[i] = file[i]
  BY <1>3, <1>4 DEF IsJoin
<1>10. \A i \in N : file'[i] \in LinesOf(s)
  BY <1>5, <1>6
<1>11. \A i, j \in N : i < j => file'[i] < file'[j]
  <2> SUFFICES ASSUME NEW i \in N, NEW j \in N, i < j PROVE file'[i] < file'[j]
    OBVIOUS
  <2>1. i - F < j - F
    BY <1>9
  <2>2. /\ i - F \in DOMAIN s /\ j - F \in DOMAIN s
        /\ s[i - F] # Notice /\ s[j - F] # Notice
    <3>1. DOMAIN s = 1 .. Len(s) /\ \A c \in DOMAIN s : s[c] # Notice
      BY <1>3, TextType
    <3>2. QED
      BY <1>5, <3>1
  <2>3. InOrder(s)
    <3>1. 2 \in DOMAIN Chunks
      BY <1>2, RowType DEF Shape
    <3>2. QED
      BY <1>2, <3>1 DEF Kept, Sound
  <2>4. QED
    BY <1>5, <2>1, <2>2, <2>3 DEF InOrder
<1>12. \A l : l \in LinesOf(file') <=> l \in LinesOf(file) \/ l \in LinesOf(s)
  BY <1>1, <1>3, Joined
<1>13. Waiting' = Waiting \ LinesOf(s)
  BY <1>1, <1>8, <1>12 DEF Parted
<1>14. {file'[i] : i \in N} = LinesOf(s)
  <2>1. \A l : l \in LinesOf(s) => \E i \in N : l = file'[i]
    BY <1>6, <1>7
  <2> HIDE DEF N
  <2>2. QED
    BY <1>10, <2>1
<1>15. \A i \in N, l \in Waiting' : file'[i] < l
  <2> SUFFICES ASSUME NEW k \in LinesOf(s), NEW l \in Waiting, l \notin LinesOf(s) PROVE k < l
    BY <1>10, <1>13
  <2>1. PICK c \in 2 .. Len(Chunks) : l \in LinesOf(Chunks[c])
    BY DEF Waiting
  <2>2. c # 2
    BY <1>2, <2>1
  <2>3. 2 < c /\ 2 \in DOMAIN Chunks /\ c \in DOMAIN Chunks
    BY <1>2, <2>1, <2>2, RowType DEF Shape
  <2>4. QED
    BY <1>2, <2>1, <2>3 DEF Kept, Sound
<1>16. QED
  <2> HIDE DEF F
  <2>1. \A i \in N : file'[i] \in Waiting
    BY <1>8, <1>10
  <2>2. N = Len(file) + 1 .. Len(file')
    BY DEF F
  <2>3. Waiting' = Waiting \ {file'[i] : i \in N}
    BY <1>13, <1>14
  <2> HIDE DEF N
  <2>4. QED
    BY <1>1, <1>9, <1>11, <1>15, <2>1, <2>2, <2>3 DEF Abstract!Write, F

(* Dropping buffers gives their lines up. *)
LEMMA DropGivesUp ==
  ASSUME FileTypes, Parted, Parted', DropBuffers
  PROVE  Abstract!GiveUp
<1> DEFINE D == UNION {{toWrite[i][j] : j \in DOMAIN toWrite[i]} : i \in 3 .. Len(toWrite)}
<1>1. /\ appended' = appended /\ dropped' = dropped \union D /\ running' = running
      /\ file' = Append(file, Notice)
  BY DEF DropBuffers, frontVars
<1> HIDE DEF D
<1>2. \A l : l \in LinesOf(file') <=> l \in LinesOf(file)
  <2>1. file \in Seq(Text) /\ Notice \in Text
    BY TextType DEF FileTypes
  <2>2. QED
    BY <1>1, <2>1, Longer
<1>3. Waiting' = Waiting \ (D \intersect Waiting)
  BY <1>1, <1>2 DEF Parted
<1>4. D \intersect Waiting \in SUBSET Waiting
  OBVIOUS
<1>5. QED
  BY <1>1, <1>3, <1>4 DEF Abstract!GiveUp

(* All other steps leave the abstract log alone, or open or close it. *)
LEMMA OthersStutter ==
  ASSUME BufferTypes, Accounted, Parted, Parted',
         \/ StartLogging \/ StopLogging \/ OwnerWaits \/ BeginThread \/ TestRunning
         \/ CollectNothing \/ TakeBuffers \/ Recycle \/ UNCHANGED vars
  PROVE  Abstract!OpenOrClose \/ UNCHANGED Abstract!vars
<1>1. UNCHANGED <<appended, dropped, file>>
  BY DEF StartLogging, StopLogging, OwnerWaits, StartReturns, StopReturns, BeginThread,
         TestRunning, CollectNothing, TakeBuffers, Recycle, vars, frontVars, backVars
<1>2. Waiting' = Waiting
  <2>1. LinesOf(file') = LinesOf(file)
    BY <1>1
  <2>2. QED
    BY <1>1, <2>1 DEF Parted
<1>3. running' = running \/ running' = ~running
  BY DEF BufferTypes, StartLogging, StopLogging, OwnerWaits, StartReturns, StopReturns, BeginThread,
         TestRunning, CollectNothing, TakeBuffers, Recycle, vars
<1>4. QED
  BY <1>1, <1>2, <1>3 DEF Abstract!OpenOrClose, Abstract!vars

LEMMA StepRefines ==
  ASSUME BufferTypes, Accounted, FileTypes, Shape, Kept, Parted, Parted', [Next]_vars
  PROVE  [Abstract!Next]_(Abstract!vars)
BY AppendLogs, LoopWrites, DropGivesUp, OthersStutter
   DEF Next, LoggerStep, Collect, CollectAfterWait, Abstract!Next

(* The log implements the safety part of LineLog: the file only grows, a   *)
(* line enters it once, after all older ones that are not given up, and    *)
(* whatever is given up leaves a notice.                                   *)
THEOREM Refinement == Safety => Abstract!Safety
<1>1. BufferTypes /\ FileTypes /\ Accounted => Shape
  BY AtHand
<1>2. Shape /\ Kept => Parted
  BY WhoWaits
<1>3. Init /\ Parted => Abstract!Init
  BY DEF Init, Parted, Abstract!Init
<1>4. /\ BufferTypes /\ Accounted /\ FileTypes /\ Shape /\ Kept /\ Parted /\ Parted'
      /\ [Next]_vars
      => [Abstract!Next]_(Abstract!vars)
  BY StepRefines
<1>5. QED
  BY <1>1, <1>2, <1>3, <1>4, BuffersTyped, BuffersAccounted, FileTyped, LinesKept, PTL
     DEF Safety, Abstract!Safety

=============================================================================
