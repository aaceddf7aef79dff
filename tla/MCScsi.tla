------------------------------- MODULE MCScsi -------------------------------
(* Small instances of Scsi: beats of two bytes, chains of one to three buffers. *)
EXTENDS Scsi

B(off, cnt) == [off |-> off, cnt |-> cnt]
C(kind, total) == [kind |-> kind, total |-> total]

CommandsAll   == {C("read", 5), C("write", 6), C("nodata", 0), C("timeout", 0)}
CommandsAbsent == {C("timeout", 0)}

ChainsAll == {<<B(1, 1), B(0, 2), B(1, 1)>>, <<B(0, 2), B(0, 2)>>}
ChainsOne == {<<B(0, 2)>>}
=============================================================================
