---------------------------- MODULE MCMemArbiter ----------------------------
(***************************************************************************)
(* A lane with three masters on five slots: one master weighted, as DMA    *)
(* is on lane 1 of henry_soc, and two with one slot each.                  *)
(***************************************************************************)
EXTENDS MemArbiter

WideMasters == {0, 1, 2}
WideMap == [s \in 0 .. 4 |-> CASE s = 1 -> 1 [] s = 4 -> 2 [] OTHER -> 0]
=============================================================================
