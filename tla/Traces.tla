------------------------------- MODULE Traces -------------------------------
(***************************************************************************)
(* The retire-stage traces of the testbench.  Every cycle the retire stage *)
(* hands over at most two instructions, the stores the L1D committed and   *)
(* an interrupt mark.  They feed                                           *)
(*   - ct: the chunked columnar trace (ctrace.hh), which a normal end      *)
(*     closes with a trailer and a kill cuts at an arbitrary byte, and     *)
(*     whose reader is ctrace_dump.cc;                                     *)
(*   - rt: the retire-trace archive (window, user-only, trigger, ring of   *)
(*     the last N records, stop pc).                                       *)
(* A file is a sequence of items, each of which fread obtains whole or not *)
(* at all: a cut inside an item reads like a cut before it.  The columns   *)
(* that are always written together are one column: "rec" for pc, dst,     *)
(* val, flags, "edat" for cause, epc, badvaddr, "st" for the three store   *)
(* columns.  "eidx" is apart because the reader counts it on its own.      *)
(***************************************************************************)
EXTENDS Integers, Sequences, FiniteSets, FiniteSetsExt, SequencesExt

CONSTANTS
  ChunkRecs,   \* CTRACE_CHUNK
  Bundles,     \* what one cycle may retire: sequences of at most two classes
  RtConfigs,   \* the retire-trace settings that are tried
  MaxRecs,     \* bound: records retired in a run
  MaxSparse    \* bound: stores and interrupt marks in a run

ASSUME TracesAssumption ==
  /\ ChunkRecs \in Nat \ {0} /\ MaxRecs \in Nat /\ MaxSparse \in Nat
  /\ \A b \in Bundles : b \in Seq({"user", "kern", "stop"}) /\ Len(b) <= 2
  /\ RtConfigs \subseteq [lo : Nat, hi : Nat, cap : Nat, ring : Nat, useronly : BOOLEAN, trig : BOOLEAN]

VARIABLES
  hist,    \* what the retire stage did: its records; for a store or an interrupt
           \* mark, how many records had been retired before its cycle ended
  ct,      \* the writer: its columns, its file and sidecar, its two counters
  rt,      \* the retire trace
  phase,   \* "run", "closed" or "killed"
  rd       \* the reader: items and records read, what it reports, its exit code

vars == <<hist, ct, rt, phase, rd>>

Item(k, n, nc, id, data) == [k |-> k, n |-> n, nc |-> nc, id |-> id, data |-> data]

Magic == Item("magic", 0, 0, "none", <<>>)
-----------------------------------------------------------------------------
(***************************************************************************)
(* ctrace_writer                                                           *)
(***************************************************************************)
ct_open == [rec |-> <<>>, eidx |-> <<>>, edat |-> <<>>, st |-> <<>>,
            file |-> <<Magic>>, raw |-> <<>>, chunks |-> 0, recs |-> 0]

\* a column that is empty is left out
put_col(w, c) == IF w[c] = <<>> THEN <<>> ELSE <<c>>

put_cols(w) == put_col(w, "rec") \o put_col(w, "eidx") \o put_col(w, "edat") \o put_col(w, "st")

flush_chunk(w) ==
  LET cols == put_cols(w)
      hdr  == Item("hdr", Len(w.rec), Len(cols), "none", <<>>)
      heads  == [i \in 1..Len(cols) |-> Item("col", 0, 0, cols[i], <<>>)]
      bodies == [i \in 1..Len(cols) |-> Item("body", 0, 0, cols[i], w[cols[i]])]
  IN  [w EXCEPT !.file = @ \o <<hdr>> \o heads \o bodies,
                !.chunks = @ + 1, !.recs = @ + Len(w.rec),
                !.rec = <<>>, !.eidx = <<>>, !.edat = <<>>, !.st = <<>>]

\* a chunk longer by one record, which still reads back
add_late(w, r) ==
  LET v == [w EXCEPT !.rec = Append(@, r), !.raw = Append(@, r)]
  IN  IF Len(v.rec) > ChunkRecs THEN flush_chunk(v) ELSE v

add(w, r) ==
  LET v == [w EXCEPT !.rec = Append(@, r), !.raw = Append(@, r)]
  IN  IF Len(v.rec) >= ChunkRecs THEN flush_chunk(v) ELSE v

add_store(w, s) == [w EXCEPT !.st = Append(@, s)]

\* the index of the record before
add_exception_prev(w, e) ==
  [w EXCEPT !.eidx = Append(@, IF w.rec = <<>> THEN 0 ELSE Len(w.rec) - 1), !.edat = Append(@, e)]

\* the index is that of the next record, in this chunk or at the start of the next one
add_exception(w, e) == [w EXCEPT !.eidx = Append(@, Len(w.rec)), !.edat = Append(@, e)]

ct_close(w) ==
  LET v == IF w.rec # <<>> THEN flush_chunk(w) ELSE w
  IN  [v EXCEPT !.file = Append(@, Item("trailer", v.chunks, 0, "none", <<v.recs>>))]

-----------------------------------------------------------------------------
(***************************************************************************)
(* The retire trace.  c holds the settings; hi, cap and ring are 0 when    *)
(* they are off.                                                           *)
(***************************************************************************)
rt_open(c) == [c |-> c, recs |-> <<>>, armed |-> FALSE, retired |-> 0, stopped |-> FALSE,
               archive |-> <<>>]

rt_emit(t, r) ==
  IF t.c.useronly /\ r.cls = "kern" THEN t
  ELSE LET s == Append(t.recs, r)
       IN  [t EXCEPT !.recs = IF t.c.ring # 0 /\ Len(s) > t.c.ring THEN Tail(s) ELSE s]

\* stopping before the cycle's own records are taken
rt_cycle_early(t, rs) ==
  LET u   == [t EXCEPT !.retired = IF rs # <<>> THEN @ + 1 ELSE @]
      v   == [u EXCEPT !.armed = @ \/ (t.c.trig /\ \E i \in 1..Len(rs) : rs[i].cls # "kern")]
      win == /\ v.retired >= v.c.lo
             /\ v.c.hi = 0 \/ v.retired < v.c.hi
             /\ v.c.cap = 0 \/ Len(v.recs) < v.c.cap
      hit == \E i \in 1..Len(rs) : rs[i].cls = "stop"
  IN  IF t.stopped THEN u
      ELSE IF hit THEN [v EXCEPT !.stopped = TRUE, !.archive = v.recs]
      ELSE IF win /\ (~v.c.trig \/ v.armed) THEN FoldLeft(rt_emit, v, rs) ELSE v

\* one cycle of the main loop's retire-trace block; retired counts slot 0 only
rt_cycle(t, rs) ==
  LET u    == [t EXCEPT !.retired = IF rs # <<>> THEN @ + 1 ELSE @]
      v    == [u EXCEPT !.armed = @ \/ (t.c.trig /\ \E i \in 1..Len(rs) : rs[i].cls # "kern")]
      win  == /\ v.retired >= v.c.lo
              /\ v.c.hi = 0 \/ v.retired < v.c.hi
              /\ v.c.cap = 0 \/ Len(v.recs) < v.c.cap
      fed  == IF win /\ (~v.c.trig \/ v.armed) THEN FoldLeft(rt_emit, v, rs) ELSE v
      hit  == \E i \in 1..Len(rs) : rs[i].cls = "stop"
  IN  IF t.stopped THEN u
      ELSE IF hit THEN [fed EXCEPT !.stopped = TRUE, !.archive = fed.recs] ELSE fed

\* the archive of the normal end, over the one of a stop
rt_close(t) == IF t.recs = <<>> THEN t ELSE [t EXCEPT !.archive = t.recs]

-----------------------------------------------------------------------------
(***************************************************************************)
(* ctrace_dump.  recs and excs stand for what the reader prints or counts; *)
(* excs keeps the absolute position that each index designates.            *)
(***************************************************************************)
rd_open == [pos |-> 0, chunks |-> 0, recs |-> <<>>, excs |-> <<>>, stores |-> <<>>,
            mism |-> 0, rc |-> -1, trailer |-> FALSE]

\* records past the end of the sidecar count as different
Mismatches_eof(from, rs) ==
  Cardinality({i \in 1..Len(rs) : from + i > Len(ct.raw) \/ ct.raw[from + i] # rs[i]})

\* records of a chunk that differ from the sidecar, where the sidecar still has them
Mismatches(from, rs) ==
  Cardinality({i \in 1..Len(rs) : from + i <= Len(ct.raw) /\ ct.raw[from + i] # rs[i]})

\* the bodies of the chunk whose header is item p that the file still holds
Bodies(f, p) ==
  SubSeq(f, p + f[p].nc + 1, IF p + 2 * f[p].nc <= Len(f) THEN p + 2 * f[p].nc ELSE Len(f))

\* what the last body of a column assigns
DataOf(bodies, id) ==
  LET at == {i \in 1..Len(bodies) : bodies[i].id = id}
  IN  IF at = {} THEN <<>> ELSE bodies[Max(at)].data

Reading == phase # "run" /\ rd.rc = -1
Here    == ct.file[rd.pos + 1]
Exit(r) == IF r.mism > 0 THEN 3 ELSE 0

rd_magic ==
  /\ Reading /\ rd.pos = 0
  /\ rd' = IF ct.file = <<>> THEN [rd EXCEPT !.rc = 1] ELSE [rd EXCEPT !.pos = 1]
  /\ UNCHANGED <<hist, ct, rt, phase>>

\* the file ends where a chunk or the trailer would start
rd_end ==
  /\ Reading /\ rd.pos = Len(ct.file) /\ rd.pos > 0
  /\ rd' = [rd EXCEPT !.rc = Exit(rd)]
  /\ UNCHANGED <<hist, ct, rt, phase>>

\* the high word of the trailer's n_chunks reads as n_cols = 0
rd_trailer ==
  /\ Reading /\ rd.pos \in 1..(Len(ct.file) - 1) /\ Here.nc = 0
  /\ LET ok == Here.n = rd.chunks /\ Here.data = <<Len(rd.recs)>>
     IN  rd' = [rd EXCEPT !.trailer = TRUE, !.rc = IF ok THEN Exit(rd) ELSE 2]
  /\ UNCHANGED <<hist, ct, rt, phase>>

rd_short_header ==
  /\ Reading /\ rd.pos \in 1..(Len(ct.file) - 1) /\ Here.nc > 0
  /\ rd.pos + 1 + Here.nc > Len(ct.file)
  /\ rd' = [rd EXCEPT !.rc = 1]
  /\ UNCHANGED <<hist, ct, rt, phase>>

\* a chunk whose columns are read until one is missing; the exceptions of the columns
\* read so far are counted even when the chunk is then discarded
rd_chunk ==
  /\ Reading /\ rd.pos \in 1..(Len(ct.file) - 1) /\ Here.nc > 0
  /\ rd.pos + 1 + Here.nc <= Len(ct.file)
  /\ LET bod == Bodies(ct.file, rd.pos + 1)
         rs  == DataOf(bod, "rec")
         idx == DataOf(bod, "eidx")
         s   == [rd EXCEPT !.excs = @ \o [i \in 1..Len(idx) |-> Len(rd.recs) + idx[i]]]
     IN  \/ /\ Len(bod) < Here.nc
            /\ rd' = [s EXCEPT !.rc = Exit(rd)]
         \/ /\ Len(bod) = Here.nc /\ Len(rs) # Here.n
            /\ rd' = [s EXCEPT !.rc = 1]
         \/ /\ Len(bod) = Here.nc /\ Len(rs) = Here.n
            /\ rd' = [s EXCEPT !.pos = @ + 1 + 2 * Here.nc, !.chunks = @ + 1, !.recs = @ \o rs,
                               !.stores = @ \o DataOf(bod, "st"),
                               !.mism = @ + Mismatches(Len(rd.recs), rs)]
  /\ UNCHANGED <<hist, ct, rt, phase>>

-----------------------------------------------------------------------------
Init ==
  /\ hist = [recs |-> <<>>, st |-> <<>>, exc |-> <<>>]
  /\ ct = ct_open
  /\ rt \in {rt_open(c) : c \in RtConfigs}
  /\ phase = "run" /\ rd = rd_open

\* one cycle: the DPI store log during the evaluation, then slot 0, slot 1 and the
\* interrupt mark
Cycle(b, st, irq) ==
  LET n  == Len(hist.recs)
      rs == [i \in 1..Len(b) |-> [id |-> n + i, cls |-> b[i], slot |-> i - 1]]
      w1 == IF st THEN add_store(ct, n) ELSE ct
      w2 == FoldLeft(add, w1, rs)
      w3 == IF irq THEN add_exception(w2, n + Len(b)) ELSE w2
  IN  /\ phase = "run"
      /\ n + Len(b) <= MaxRecs
      /\ b # <<>> \/ st \/ irq
      /\ Len(hist.st) + Len(hist.exc) + (IF st THEN 1 ELSE 0) + (IF irq THEN 1 ELSE 0) <= MaxSparse
      /\ hist' = [recs |-> hist.recs \o rs,
                  st  |-> IF st THEN Append(hist.st, n) ELSE hist.st,
                  exc |-> IF irq THEN Append(hist.exc, n + Len(b)) ELSE hist.exc]
      /\ ct' = w3
      /\ rt' = rt_cycle(rt, rs)
      /\ UNCHANGED <<phase, rd>>

Close ==
  /\ phase = "run" /\ phase' = "closed"
  /\ ct' = ct_close(ct) /\ rt' = rt_close(rt)
  /\ UNCHANGED <<hist, rd>>

\* the run is killed, while it goes on or while close() writes: ct.file is the beginning of
\* what close() would have made of it, and each file keeps a prefix of that
Kill(k, j) ==
  /\ phase = "run" /\ phase' = "killed"
  /\ ct' = [ct_close(ct) EXCEPT !.file = SubSeq(@, 1, k), !.raw = SubSeq(@, 1, j)]
  /\ UNCHANGED <<hist, rt, rd>>

Finished == rd.rc # -1 /\ UNCHANGED vars

Next ==
  \/ \E b \in Bundles, st, irq \in BOOLEAN : Cycle(b, st, irq)
  \/ Close
  \/ \E k \in 0..Len(ct_close(ct).file), j \in 0..Len(ct.raw) : Kill(k, j)
  \/ rd_magic \/ rd_end \/ rd_trailer \/ rd_short_header \/ rd_chunk
  \/ Finished

Spec == Init /\ [][Next]_vars
-----------------------------------------------------------------------------
(***************************************************************************)
(* Properties                                                              *)
(***************************************************************************)
\* The writer between two calls: a full chunk is never left in the columns, every
\* pending index designates a record of the pending chunk or the one after it, and
\* the two counters and the columns account for every record that was retired.
TypeOK ==
  /\ phase \in {"run", "closed", "killed"} /\ rd.rc \in -1..3
  /\ Len(ct.rec) < ChunkRecs
  /\ \A i \in 1..Len(ct.eidx) : ct.eidx[i] \in 0..Len(ct.rec)
  /\ Len(ct.eidx) = Len(ct.edat)
  /\ ct.recs + Len(ct.rec) = Len(hist.recs)

Read(p) == phase = p /\ rd.rc # -1

\* What the reader has of a sparse stream, exactly: the entries logged before the last of
\* the records it has read, and all of them when the last chunk it has read is a short one,
\* which only close() writes.  What was logged after the last full chunk is in no file
\* unless a record is pending when the run ends (ctrace.hh:96).
SparseExact(read, log) ==
  /\ IsPrefix(read, log)
  /\ \A i \in 1..Len(log) :
       i <= Len(read) <=> log[i] < Len(rd.recs) \/ Len(rd.recs) < ChunkRecs * rd.chunks

\* A trace that was closed reads back: every record in order, both slots of a dual retire
\* apart, the trailer agreeing and the sidecar byte-exact.  Of the stores and interrupts
\* it has those that SparseExact says, in order, an index designating the first record
\* retired after the interrupt even on a chunk boundary: ctrace.hh:48 says that the store
\* columns "log every committed store", and the ones after a last chunk that was full are
\* lost.
RoundTrip ==
  Read("closed") => /\ rd.rc = 0 /\ rd.trailer
                    /\ rd.recs = hist.recs /\ rd.mism = 0
                    /\ SparseExact(rd.stores, hist.st) /\ SparseExact(rd.excs, hist.exc)

Whole(f) == {p \in 1..Len(f) : f[p].k = "hdr" /\ p + 2 * f[p].nc <= Len(f)}
InHeader(f) == \E p \in 1..Len(f) : f[p].k = "hdr" /\ p + f[p].nc > Len(f)

\* What the reader has of a killed run when it stops: the records and the stores of the
\* chunks that are whole, no fewer and no more, and none that differs from the sidecar.
Salvaged ==
  LET full == ChunkRecs * rd.chunks
  IN  /\ rd.chunks = Cardinality(Whole(ct.file)) /\ rd.mism = 0
      /\ rd.recs = SubSeq(hist.recs, 1, IF full < Len(hist.recs) THEN full ELSE Len(hist.recs))
      /\ SparseExact(rd.stores, hist.st)

\* A run killed at any byte, also while close() writes: the reader has the whole chunks and
\* it reports a trailer only when no record is missing.  It accepts the file except where
\* the cut is inside the column headers of a chunk (or before the magic): there it gives
\* up with "short header" and reports nothing of the chunks that it has read, although
\* ctrace.hh:14 says that "a killed run still leaves every completed chunk readable".
KilledPrefix ==
  Read("killed") => /\ rd.rc = IF ct.file = <<>> \/ InHeader(ct.file) THEN 1 ELSE 0
                    /\ rd.trailer => rd.recs = hist.recs
                    /\ Salvaged

\* RETIRETRACE_STOP with a ring: the archive written when the stop pc retires, and again
\* when the run goes on to its end, ends with that record and at most the other slot of its
\* cycle, and before it the retires that led up to it without a gap, as many as the ring
\* can hold since the trigger.
CrashLeadUp ==
  LET c == rt.c
      r == rt.archive
      stops == {i \in 1..Len(hist.recs) : hist.recs[i].cls = "stop"}
  IN  rt.stopped /\ c.hi = 0 /\ c.cap = 0 /\ c.lo <= 1 /\ ~c.useronly /\ c.ring >= 2 =>
        /\ \E i \in {Len(r) - 1, Len(r)} \cap 1..Len(r) :
              r[i].cls = "stop" /\ r[i].id = Min(stops)
        /\ \A i \in 1..(Len(r) - 1) : r[i + 1].id = r[i].id + 1
        /\ Len(r) < c.ring /\ ~c.trig => r[1].id = 1
=============================================================================
