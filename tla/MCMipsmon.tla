----------------------------- MODULE MCMipsmon ------------------------------
(* A small instance of Mipsmon: a window of two rows and two columns. *)
EXTENDS Mipsmon

\* much output with scrolling; every kind of output byte; editing and history
SessionsAll ==
  {[keys |-> {"pgup", "pgdn", "^L"}, bytes |-> {"x", "lf"}, chunk |-> 2, nbytes |-> 9],
   [keys |-> {"pgup", "^\\"}, bytes |-> {"x", "lf", "tab", "bs", "cr", "ctl"}, chunk |-> 1, nbytes |-> 4],
   [keys |-> {"a", "q", "enter", "bs", "^U", "up", "down", "^R", "^C", "^]", "pgup"},
    bytes |-> {}, chunk |-> 0, nbytes |-> 0]}
=============================================================================
