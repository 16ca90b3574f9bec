--------------------------- MODULE MCAsyncLogging ---------------------------
(* AsyncLogging with buffers of two lines and batches of three buffers. *)
EXTENDS AsyncLogging, TLC

=============================================================================
