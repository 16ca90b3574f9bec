-------------------------- MODULE MCFramePipeline --------------------------
(* FramePipeline with two I/O threads, as main.cpp starts the server. *)
EXTENDS FramePipeline, TLC

CONSTANTS io1, io2

MCIoThreads == {io1, io2}
MCSizes == {1, 2, 3}

=============================================================================
