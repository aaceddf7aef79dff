----------------------------- MODULE MCDmaSnoop -----------------------------
(***************************************************************************)
(* DmaSnoop with two cacheable lines, accessed singly or as one wide       *)
(* access, and a staging line.                                             *)
(***************************************************************************)
EXTENDS DmaSnoop

CONSTANTS a, b, s

MCLines == {a, b, s}
MCStaging == {s}
MCAccesses == {<<a>>, <<a, b>>, <<s>>}
MCMasks == {{1}}   \* byte 2 of the line keeps what it held
=============================================================================
