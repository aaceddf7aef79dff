------------------------------ MODULE MCTraces ------------------------------
(* Small instances of Traces. *)
EXTENDS Traces

BundlesAll == {<<>>, <<"kern">>, <<"stop">>, <<"kern", "user">>,
               <<"stop", "kern">>, <<"kern", "stop">>}

Rt(lo, hi, cap, ring, useronly, trig) ==
  [lo |-> lo, hi |-> hi, cap |-> cap, ring |-> ring, useronly |-> useronly, trig |-> trig]

RtAll == {Rt(0, 0, 0, 2, FALSE, FALSE), Rt(0, 0, 0, 3, FALSE, TRUE), Rt(1, 3, 2, 0, TRUE, FALSE)}
=============================================================================
