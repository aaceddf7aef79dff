----------------------------- MODULE MCMonitor ------------------------------
(* A small instance of Monitor. *)
EXTENDS Monitor

BytesAll == {"h", "g", "s", "0", "2", "cr", "^]", "bs"}
=============================================================================
