--------------------------- MODULE MCEventLoop ---------------------------
(* EventLoop with two calling threads and three tasks. *)
EXTENDS EventLoop, TLC

CONSTANTS c1, c2, t1, t2, t3

MCCallers == {c1, c2}
MCTasks == {t1, t2, t3}

===========================================================================
