----------------------------- MODULE TaskQueue -----------------------------
(***************************************************************************)
(* What EventLoop promises to the threads that hand it work, with no       *)
(* locks, no eventfd and no batches: one queue, emptied from the front,    *)
(* and tasks the loop thread runs on the spot.  Nothing is run twice,      *)
(* nothing overtakes in the queue, and while the loop is open whatever is  *)
(* queued is eventually run.                                               *)
(***************************************************************************)
EXTENDS Sequences

CONSTANT Tasks      (* the closures callers may hand to the loop *)

VARIABLES
  queue,            (* tasks accepted and not yet run, oldest first      *)
  ran,              (* tasks in the order they finished                  *)
  born,             (* every task ever handed over                       *)
  open              (* FALSE once the loop has returned                  *)

vars == <<queue, ran, born, open>>

TypeOK ==
  /\ queue \in Seq(Tasks)
  /\ ran \in Seq(Tasks)
  /\ born \in SUBSET Tasks
  /\ open \in BOOLEAN

Init ==
  /\ queue = <<>>
  /\ ran = <<>>
  /\ born = {}
  /\ open = TRUE

(* A task is accepted, whether or not the loop still runs. *)
Submit(t) ==
  /\ t \notin born
  /\ born' = born \union {t}
  /\ queue' = Append(queue, t)
  /\ UNCHANGED <<ran, open>>

(* The loop thread itself runs a task without queueing it. *)
RunNow(t) ==
  /\ open
  /\ t \notin born
  /\ born' = born \union {t}
  /\ ran' = Append(ran, t)
  /\ UNCHANGED <<queue, open>>

(* The oldest queued task is run. *)
RunNext ==
  /\ open
  /\ queue # <<>>
  /\ ran' = Append(ran, Head(queue))
  /\ queue' = Tail(queue)
  /\ UNCHANGED <<born, open>>

(* The loop returns; what is still queued stays queued. *)
Close ==
  /\ open
  /\ open' = FALSE
  /\ UNCHANGED <<queue, ran, born>>

Next ==
  \/ \E t \in Tasks : Submit(t) \/ RunNow(t)
  \/ RunNext
  \/ Close

Safety == Init /\ [][Next]_vars

Spec == Safety /\ WF_vars(RunNext)

-----------------------------------------------------------------------------
Occurs(t, s) == \E i \in DOMAIN s : s[i] = t
Distinct(s) == \A i, j \in DOMAIN s : s[i] = s[j] => i = j

(* Whatever is handed over waits or has run, not both, and only once.      *)
Accounted(q, r, b) ==
  /\ \A t \in Tasks : t \in b <=> Occurs(t, q) \/ Occurs(t, r)
  /\ \A t \in b : ~(Occurs(t, q) /\ Occurs(t, r))
  /\ Distinct(q)
  /\ Distinct(r)

NothingLost == Accounted(queue, ran, born)

=============================================================================
