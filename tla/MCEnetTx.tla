------------------------------ MODULE MCEnetTx ------------------------------
(***************************************************************************)
(* Model-checking instances of EnetTx.                                     *)
(***************************************************************************)
EXTENDS EnetTx

B(off, len) == [off |-> off, len |-> len]

\* a two-buffer packet crossing lines at odd offsets, and a one-buffer one
ShapesMixed == {<<B(1, 3), B(1, 1)>>, <<B(0, 2)>>}

\* a packet that leaves its slot partly empty, and two oversize ones: the excess
\* is the last partial beat, or a whole beat and an empty buffer after it
ShapesAll == {<<B(1, 2), B(1, 1)>>, <<B(0, 5)>>, <<B(1, 6), B(0, 0)>>}
=============================================================================
