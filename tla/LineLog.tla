------------------------------ MODULE LineLog ------------------------------
(***************************************************************************)
(* What AsyncLogging promises to the threads that log, with no buffers, no *)
(* spares and no batches: lines wait until they are written to a file that *)
(* only grows, the oldest first, or are given up, which leaves a notice.   *)
(* While the log is open no line waits for ever.                           *)
(***************************************************************************)
EXTENDS Integers, Sequences

CONSTANTS
  Lines,            (* the lines there may be, by their numbers            *)
  Notice            (* "Dropped log messages at ..."                       *)

VARIABLES
  open,             (* between start() and stop()                          *)
  last,             (* how many lines were logged                          *)
  waiting,          (* those neither in the file nor given up              *)
  file

vars == <<open, last, waiting, file>>

Init ==
  /\ open = FALSE
  /\ last = 0
  /\ waiting = {}
  /\ file = <<>>

OpenOrClose ==
  /\ open' = ~open
  /\ UNCHANGED <<last, waiting, file>>

(* A thread may log before the log is opened and after it is closed. *)
Log ==
  /\ last' = last + 1
  /\ waiting' = waiting \union {last'}
  /\ UNCHANGED <<open, file>>

(* Some lines go to the file, in order, and none that is older waits on. *)
Write ==
  LET New == Len(file) + 1 .. Len(file')
  IN /\ Len(file') >= Len(file)
     /\ \A i \in DOMAIN file : file'[i] = file[i]
     /\ \A i \in New : file'[i] \in waiting
     /\ \A i, j \in New : i < j => file'[i] < file'[j]
     /\ waiting' = waiting \ {file'[i] : i \in New}
     /\ \A i \in New, l \in waiting' : file'[i] < l
     /\ UNCHANGED <<open, last>>

GiveUp ==
  /\ \E gone \in SUBSET waiting : waiting' = waiting \ gone
  /\ file' = Append(file, Notice)
  /\ UNCHANGED <<open, last>>

Next == OpenOrClose \/ Log \/ Write \/ GiveUp

Safety == Init /\ [][Next]_vars

Spec == Safety /\ \A l \in Lines : (open /\ l \in waiting) ~> (~open \/ l \notin waiting)

=============================================================================
