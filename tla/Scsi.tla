-------------------------------- MODULE Scsi --------------------------------
(***************************************************************************)
(* A SCSI command, end to end: the guest's driver, the WD33C93/HPC3 shim   *)
(* (scsi_shim), the SCSI channel of dma_engine and the host servicer of    *)
(* henry_tb (the ARM on the board).                                        *)
(*                                                                         *)
(* The RTL moves on one clock: Clock is one cycle of the shim and of the   *)
(* channel.  DRAM performs the channel's access (Mem) some cycles before   *)
(* its response, so the servicer and the guest can see a store before the  *)
(* channel does.  A beat has Lanes bytes instead of 16.  Byte i of the     *)
(* data of command k is <<k, i>>.                                          *)
(***************************************************************************)
EXTENDS Integers, Sequences

CONSTANTS
  Lanes,     \* bytes of a beat (16)
  Sector,    \* bytes of a disk block (512)
  NCq,       \* entries of the completion ring (64)
  NBeats,    \* beats of the WRITE staging buffer (4 MB / 16)
  NdescMax,  \* descriptor count that ends a runaway chain (255)
  Commands,  \* commands the guest may issue: [kind, total]
  Chains,    \* chains it may program: sequences of [off, cnt] buffers
  MaxSel     \* bound: Select-And-Transfers the guest issues

Kinds == {"read", "write", "nodata", "timeout"}

ASSUME ScsiConstants ==
  /\ Lanes \in Nat \ {0} /\ Sector \in Nat \ {0} /\ NCq \in Nat \ {0}
  /\ NBeats \in Nat /\ NdescMax \in Nat /\ MaxSel \in Nat
  /\ \A c \in Commands : c.kind \in Kinds /\ c.total \in Nat
  /\ \A ch \in Chains : ch \in Seq([off : 0 .. Lanes - 1, cnt : Nat]) /\ Len(ch) > 0

VARIABLES
  g,       \* the guest's driver
  cmds,    \* history: the commands issued
  chain,   \* guest memory: the descriptors at NBDP, each with its buffer
  sh,      \* scsi_shim
  s,       \* dma_engine: SCSI channel registers
  acc,     \* the access the channel presents has been performed by DRAM
  ld,      \* what that access loaded
  rdbuf,   \* staging: READ data
  wrbuf,   \* staging: WRITE data
  cq,      \* staging: completion ring
  cqprod,  \* staging: scsi_cq_prod
  db,      \* ARM doorbells: rd_beats, rd_seq, cq_cons
  rsp,     \* ARM registers: status and echoed sequence
  a,       \* the servicer
  disk     \* the blocks the current WRITE command has written

host == <<db, rsp, a, disk>>
staging == <<rdbuf, wrbuf, cq, cqprod>>
vars == <<g, cmds, chain, sh, s, acc, ld, staging, host>>

Junk == <<0, 0>>                     \* a byte nobody wrote
Pad  == <<0, 1>>                     \* the zero padding of a last beat
Min2(x, y) == IF x < y THEN x ELSE y
Data(k, from, to) == [i \in 1 .. to - from |-> <<k, from + i>>]

SumTo(f, n) ==
  LET upto[i \in 0 .. n] == IF i = 0 THEN 0 ELSE upto[i - 1] + f[i]
  IN  upto[n]
Capacity(ch) == SumTo([i \in 1 .. Len(ch) |-> ch[i].cnt], Len(ch))
Bytes(ch) ==                         \* the bytes of a chain's buffers, in order
  LET upto[i \in 0 .. Len(ch)] == IF i = 0 THEN <<>> ELSE upto[i - 1] \o ch[i].buf
  IN  upto[Len(ch)]

SStates == {"S_IDLE", "S_DESC", "S_R_NEED", "S_R_FETCH", "S_R_STORE", "S_W_LOAD",
            "S_W_DRAIN", "S_NEXT", "S_DONE", "S_CQ", "S_IDX"}
Phases == {"PH_IDLE", "PH_DELAY", "PH_GO", "PH_BUSY"}

(***************************************************************************)
(* Reset                                                                   *)
(***************************************************************************)
ShimReset ==
  [ph |-> "PH_IDLE", cdb |-> 0, bsy |-> FALSE, intrq |-> FALSE, status |-> "reset",
   phase |-> "none", active |-> FALSE, dir |-> FALSE, req_seq |-> 0, done_seq |-> 0,
   req_cdb |-> 0]

ChanReset ==
  [state |-> "S_IDLE", go |-> FALSE, go_dir |-> FALSE, go_seq |-> 0, active |-> FALSE,
   dir |-> FALSE, nbdp |-> 0, off |-> 0, bp |-> 0, cnt |-> 0, dp |-> 0, eox |-> FALSE,
   ndesc |-> 0, xfer |-> 0, seq |-> 0, gen_ok |-> FALSE, avail |-> 0, fetch |-> 0,
   wptr |-> 0, trunc |-> FALSE, flush |-> FALSE, cancel |-> FALSE, stall_post |-> FALSE,
   flags |-> "none", cq_prod |-> 0, done |-> FALSE, hold |-> <<>>, beat |-> <<>>]

NoLoad == [desc |-> [off |-> 0, cnt |-> 0, eox |-> TRUE, dp |-> 0], bytes |-> <<>>]

Init ==
  /\ g = [pc |-> "idle", past |-> <<>>] /\ cmds = <<>> /\ chain = <<>>
  /\ sh = ShimReset /\ s = ChanReset /\ acc = FALSE /\ ld = NoLoad
  /\ rdbuf = <<>> /\ wrbuf = <<>> /\ cqprod = 0
  /\ cq = [i \in 0 .. NCq - 1 |-> [seq |-> 0, flags |-> "none", bytes |-> 0]]
  /\ db = [rd_beats |-> 0, rd_seq |-> 0, cq_cons |-> 0]
  /\ rsp = [seq |-> 0, status |-> "none"]
  /\ a = [pc |-> "idle", last |-> 0, seq |-> 0, cmd |-> 0, active |-> FALSE,
          pos |-> 0, total |-> 0, to_dev |-> FALSE, status |-> "none"]
  /\ disk = <<>>

(***************************************************************************)
(* The channel's access at DRAM                                            *)
(***************************************************************************)
LineTake(off, cnt) == Min2(Lanes - (off % Lanes), cnt)
Take == LineTake(s.off + s.bp, s.cnt)
NeedBeat == Take > Len(s.hold)
FetchOk == s.gen_ok /\ s.fetch # s.avail

SReqNoRoom ==
  \/ s.state \in {"S_DESC", "S_R_FETCH", "S_R_STORE", "S_W_LOAD", "S_IDX", "S_CQ"}
  \/ s.state = "S_W_DRAIN" /\ s.wptr # NBeats

\* s_req_valid: the states that present an access, with the cases that do not
SReq ==
  \/ s.state \in {"S_DESC", "S_R_FETCH", "S_R_STORE", "S_W_LOAD", "S_IDX"}
  \/ s.state = "S_W_DRAIN" /\ s.wptr # NBeats
  \/ s.state = "S_CQ" /\ s.cq_prod - db.cq_cons < NCq

\* the bytes a READ store puts in bp's line, and what remains of the beats
Window == IF NeedBeat THEN s.hold \o s.beat ELSE s.hold
Stored == SubSeq(Window, 1, Take)
Rest   == SubSeq(Window, Take + 1, Len(Window))

Mem ==
  /\ SReq /\ ~acc /\ acc' = TRUE
  /\ \/ /\ s.state = "S_DESC"
        /\ LET d == chain[s.nbdp]
           IN  ld' = [ld EXCEPT !.desc = [off |-> d.off, cnt |-> d.cnt,
                                          eox |-> s.nbdp = Len(chain),
                                          dp |-> (s.nbdp + 1) % (Len(chain) + 1)]]
        /\ UNCHANGED <<chain, staging>>
     \/ /\ s.state = "S_R_FETCH"
        /\ ld' = [ld EXCEPT !.bytes = SubSeq(rdbuf, s.fetch * Lanes + 1, (s.fetch + 1) * Lanes)]
        /\ UNCHANGED <<chain, staging>>
     \/ /\ s.state = "S_R_STORE"
        /\ chain' = [chain EXCEPT ![s.nbdp].buf =
             [i \in 1 .. Len(@) |->
                IF i - s.bp \in 1 .. Take THEN Stored[i - s.bp] ELSE @[i]]]
        /\ UNCHANGED <<ld, staging>>
     \/ /\ s.state = "S_W_LOAD"
        /\ ld' = [ld EXCEPT !.bytes = SubSeq(chain[s.nbdp].buf, s.bp + 1, s.bp + Take)]
        /\ UNCHANGED <<chain, staging>>
     \/ /\ s.state = "S_W_DRAIN"
        /\ wrbuf' = SubSeq(wrbuf, 1, s.wptr * Lanes) \o s.beat
        /\ UNCHANGED <<ld, chain, rdbuf, cq, cqprod>>
     \/ /\ s.state = "S_CQ"
        /\ cq' = [cq EXCEPT ![s.cq_prod % NCq] =
                    [seq |-> s.seq, flags |-> s.flags, bytes |-> s.xfer]]
        /\ UNCHANGED <<ld, chain, rdbuf, wrbuf, cqprod>>
     \/ /\ s.state = "S_IDX" /\ cqprod' = s.cq_prod + 1
        /\ UNCHANGED <<ld, chain, rdbuf, wrbuf, cq>>
  /\ UNCHANGED <<g, cmds, sh, s, host>>

(***************************************************************************)
(* What the shim tells the channel in a cycle, and the channel the shim    *)
(***************************************************************************)
\* waiting for a staged beat that cannot be fetched, with nothing outstanding
RdStalled == s.state = "S_R_NEED" /\ NeedBeat /\ s.beat = <<>> /\ ~FetchOk

Go == sh.ph = "PH_GO" /\ sh.active

\* dma_abort: the servicer has answered and the channel still waits for a beat
Abort ==
  /\ sh.ph = "PH_BUSY" /\ ~s.done
  /\ rsp.seq = sh.req_seq /\ RdStalled

Cancel == Abort \/ s.cancel

(***************************************************************************)
(* One clock: the SCSI channel                                             *)
(***************************************************************************)
\* The defaults: a cancel and a go latch, done is a pulse, and the count of
\* staged beats is taken when the doorbell of this chain's command is there.
Hold ==
  LET match == s.active /\ ~s.gen_ok /\ db.rd_seq = s.seq
  IN  [s EXCEPT !.cancel = @ \/ (Abort /\ s.active), !.done = FALSE,
                !.gen_ok = @ \/ match, !.avail = IF match THEN db.rd_beats ELSE @,
                !.go = @ \/ Go, !.go_dir = IF Go THEN sh.dir ELSE @,
                !.go_seq = IF Go THEN sh.req_seq ELSE @]

SIdle ==
  /\ s.state = "S_IDLE"
  /\ s' = IF s.go
          THEN [Hold EXCEPT !.go = Go, !.active = TRUE, !.dir = s.go_dir, !.nbdp = 1,
                            !.seq = s.go_seq, !.gen_ok = (db.rd_seq = s.go_seq),
                            !.avail = db.rd_beats, !.fetch = 0, !.wptr = 0, !.trunc = FALSE,
                            !.flush = FALSE, !.cancel = FALSE, !.stall_post = FALSE,
                            !.ndesc = 0, !.xfer = 0, !.hold = <<>>, !.beat = <<>>,
                            !.state = "S_DESC"]
          ELSE Hold

\* s_rd_next: where a READ goes for its next line
RdNext(off, cnt, hold, beat) ==
  IF Cancel THEN "S_R_NEED"
  ELSE IF LineTake(off, cnt) <= Len(hold) \/ beat # <<>> THEN "S_R_STORE"
  ELSE IF FetchOk THEN "S_R_FETCH" ELSE "S_R_NEED"

SDescDropHold ==
  /\ s.state = "S_DESC"
  /\ LET d == ld.desc
     IN  s' = [Hold EXCEPT !.off = d.off, !.bp = 0, !.cnt = d.cnt, !.eox = d.eox, !.dp = d.dp,
                           !.hold = IF s.dir THEN @ ELSE <<>>,
                           !.state = IF d.cnt = 0 THEN "S_NEXT"
                                     ELSE IF s.dir THEN "S_W_LOAD"
                                     ELSE RdNext(d.off, d.cnt, <<>>, s.beat)]

SDesc ==
  /\ s.state = "S_DESC"
  /\ LET d == ld.desc
     IN  s' = [Hold EXCEPT !.off = d.off, !.bp = 0, !.cnt = d.cnt, !.eox = d.eox, !.dp = d.dp,
                           !.state = IF d.cnt = 0 THEN "S_NEXT"
                                     ELSE IF s.dir THEN "S_W_LOAD"
                                     ELSE RdNext(d.off, d.cnt, s.hold, s.beat)]

SReadNeed ==
  /\ s.state = "S_R_NEED"
  /\ s' = CASE Cancel /\ s.stall_post -> [Hold EXCEPT !.active = FALSE, !.state = "S_IDLE"]
            [] Cancel /\ ~s.stall_post -> [Hold EXCEPT !.flags = "aborted", !.state = "S_CQ"]
            [] ~Cancel /\ (~NeedBeat \/ s.beat # <<>>) -> [Hold EXCEPT !.state = "S_R_STORE"]
            [] ~Cancel /\ NeedBeat /\ s.beat = <<>> /\ FetchOk -> [Hold EXCEPT !.state = "S_R_FETCH"]
            [] ~Cancel /\ RdStalled /\ s.gen_ok /\ ~s.stall_post ->
                 [Hold EXCEPT !.flags = "starved", !.stall_post = TRUE, !.state = "S_CQ"]
            [] OTHER -> Hold

SReadFetch ==
  /\ s.state = "S_R_FETCH"
  /\ s' = [Hold EXCEPT !.beat = ld.bytes, !.fetch = @ + 1, !.state = "S_R_STORE"]

SReadStore ==
  /\ s.state = "S_R_STORE"
  /\ LET cnt  == s.cnt - Take
         beat == IF NeedBeat THEN <<>> ELSE s.beat
     IN  s' = [Hold EXCEPT !.hold = Rest, !.beat = beat, !.bp = @ + Take, !.cnt = cnt,
                           !.xfer = @ + Take,
                           !.state = IF cnt = 0 THEN "S_NEXT"
                                     ELSE RdNext(s.off + s.bp + Take, cnt, Rest, beat)]

AfterDrain == IF s.flush THEN "S_DONE" ELSE IF s.cnt = 0 THEN "S_NEXT" ELSE "S_W_LOAD"

SWriteLoadDropRest ==
  /\ s.state = "S_W_LOAD"
  /\ LET all  == s.hold \o ld.bytes
         full == Len(all) >= Lanes
     IN  s' = [Hold EXCEPT !.beat = IF full THEN SubSeq(all, 1, Lanes) ELSE @,
                           !.hold = IF full THEN <<>> ELSE all,
                           !.bp = @ + Take, !.cnt = @ - Take, !.xfer = @ + Take,
                           !.state = IF full THEN "S_W_DRAIN"
                                     ELSE IF s.cnt = Take THEN "S_NEXT" ELSE "S_W_LOAD"]

SWriteLoad ==
  /\ s.state = "S_W_LOAD"
  /\ LET all  == s.hold \o ld.bytes
         full == Len(all) >= Lanes
     IN  s' = [Hold EXCEPT !.beat = IF full THEN SubSeq(all, 1, Lanes) ELSE @,
                           !.hold = IF full THEN SubSeq(all, Lanes + 1, Len(all)) ELSE all,
                           !.bp = @ + Take, !.cnt = @ - Take, !.xfer = @ + Take,
                           !.state = IF full THEN "S_W_DRAIN"
                                     ELSE IF s.cnt = Take THEN "S_NEXT" ELSE "S_W_LOAD"]

SWriteDrain ==
  /\ s.state = "S_W_DRAIN"
  /\ s' = IF s.wptr = NBeats         \* past the buffer: count, drop
          THEN [Hold EXCEPT !.beat = <<>>, !.trunc = TRUE, !.state = AfterDrain]
          ELSE [Hold EXCEPT !.beat = <<>>, !.wptr = @ + 1, !.state = AfterDrain]

PadBeat(b) == b \o [i \in 1 .. Lanes - Len(b) |-> Pad]

SNext ==
  /\ s.state = "S_NEXT"
  /\ LET end == s.eox \/ s.dp = 0 \/ s.ndesc = NdescMax
         tail == s.dir /\ s.hold # <<>>
     IN  s' = CASE Cancel -> [Hold EXCEPT !.flags = "aborted", !.state = "S_CQ"]
                [] ~Cancel /\ end /\ tail ->
                     [Hold EXCEPT !.beat = PadBeat(s.hold), !.hold = <<>>, !.flush = TRUE,
                                  !.state = "S_W_DRAIN"]
                [] ~Cancel /\ end /\ ~tail -> [Hold EXCEPT !.state = "S_DONE"]
                [] ~Cancel /\ ~end ->
                     [Hold EXCEPT !.nbdp = s.dp, !.ndesc = @ + 1, !.state = "S_DESC"]

SDone ==
  /\ s.state = "S_DONE"
  /\ s' = [Hold EXCEPT !.done = TRUE, !.flags = "done", !.state = "S_CQ"]

SCq == s.state = "S_CQ" /\ s' = IF SReq THEN [Hold EXCEPT !.state = "S_IDX"] ELSE Hold

SIdxNoStall ==
  /\ s.state = "S_IDX"
  /\ s' = [Hold EXCEPT !.cq_prod = @ + 1, !.active = FALSE, !.state = "S_IDLE"]

SIdx ==
  /\ s.state = "S_IDX"
  /\ s' = IF s.flags = "starved"     \* stall until the shim cancels
          THEN [Hold EXCEPT !.cq_prod = @ + 1, !.state = "S_R_NEED"]
          ELSE [Hold EXCEPT !.cq_prod = @ + 1, !.active = FALSE, !.state = "S_IDLE"]

\* r: the response of the access in flight arrives in this cycle
SChan(r) ==
  IF SReq /\ ~r
  THEN s' = Hold /\ UNCHANGED <<acc, ld>>
  ELSE /\ acc' = FALSE /\ ld' = NoLoad
       /\ \/ SIdle \/ SDesc \/ SReadNeed \/ SReadFetch \/ SReadStore \/ SWriteLoad
          \/ SWriteDrain \/ SNext \/ SDone \/ SCq \/ SIdx

(***************************************************************************)
(* One clock: the shim.  m is the guest's access of this cycle.            *)
(***************************************************************************)
CompleteAnyPhase == sh.req_seq # sh.done_seq /\ rsp.seq = sh.req_seq

Complete == sh.req_seq # sh.done_seq /\ rsp.seq = sh.req_seq /\ sh.ph = "PH_IDLE"

Written(m) ==
  CASE m.op = "seltx" -> [sh EXCEPT !.req_seq = @ + 1, !.req_cdb = sh.cdb, !.bsy = TRUE]
    [] m.op = "reset" -> [sh EXCEPT !.status = "reset", !.intrq = TRUE, !.bsy = FALSE]
    [] m.op = "status" -> [sh EXCEPT !.intrq = FALSE]
    [] m.op = "cdb" -> [sh EXCEPT !.cdb = m.val]
    [] m.op = "ctrl" -> [sh EXCEPT !.active = m.active, !.dir = m.dir]
    [] OTHER -> sh

\* the servicer's status is in and the data phase is over; wins ties on INTRQ
Completed(r) ==
  IF ~Complete THEN r
  ELSE [r EXCEPT !.status = rsp.status, !.bsy = FALSE, !.intrq = TRUE,
                 !.done_seq = sh.req_seq, !.active = FALSE, !.dir = sh.dir,
                 !.phase = CASE rsp.status = "pause" -> "exhausted"
                             [] rsp.status = "timeout" -> @
                             [] OTHER -> "complete"]

\* the WD33C93 phase machine; tick: the select/command delay ends
Phase(m, tick) ==
  CASE sh.ph = "PH_IDLE"  -> IF m.op = "seltx" THEN "PH_DELAY" ELSE "PH_IDLE"
    [] sh.ph = "PH_DELAY" -> IF tick THEN "PH_GO" ELSE "PH_DELAY"
    [] sh.ph = "PH_GO"    -> IF sh.active THEN "PH_BUSY" ELSE "PH_IDLE"
    [] sh.ph = "PH_BUSY"  -> IF s.done \/ Abort THEN "PH_IDLE" ELSE "PH_BUSY"

ShimStep(m, tick) == sh' = [Completed(Written(m)) EXCEPT !.ph = Phase(m, tick)]

Clock(m, r, tick) ==
  /\ r => acc
  /\ SChan(r) /\ ShimStep(m, tick)
  /\ UNCHANGED <<staging, host>>

NoMmio == [op |-> "none"]
Idle(r, tick) == Clock(NoMmio, r, tick) /\ UNCHANGED <<g, cmds, chain>>

(***************************************************************************)
(* The guest's driver (external: IRIX wd93, Linux sgiwd93).                *)
(***************************************************************************)
Cmd == cmds[Len(cmds)]

\* may a chain ch carry the rest of the command?
Fits(ch) ==
  LET rest == Cmd.total - Len(g.past)
  IN  /\ Cmd.kind = "write" => Capacity(ch) % Sector = 0 \/ Capacity(ch) >= rest
      /\ Cmd.kind = "read" /\ Capacity(ch) > rest =>
            \A i \in 1 .. Len(ch) : ch[i].off = 0 /\ ch[i].cnt % Lanes = 0

\* write the command's registers
GuestCommand(c, r) ==
  /\ g.pc = "idle" /\ sh.req_seq < MaxSel
  /\ cmds' = Append(cmds, c) /\ g' = [g EXCEPT !.pc = "dma", !.past = <<>>]
  /\ Clock([op |-> "cdb", val |-> Len(cmds) + 1], r, FALSE) /\ UNCHANGED chain

\* build the chain and start the HPC3 channel
GuestDma(ch, dir, active, r) ==
  /\ g.pc = "dma" /\ Fits(ch)
  /\ Cmd.kind = "read" => ~dir
  /\ Cmd.kind = "write" => dir
  /\ Cmd.kind \in {"read", "write"} => active
  /\ chain' = LET at(i) == Len(g.past) + SumTo([j \in 1 .. Len(ch) |-> ch[j].cnt], i - 1)
              IN  [i \in 1 .. Len(ch) |->
                     [off |-> ch[i].off, cnt |-> ch[i].cnt,
                      buf |-> IF dir THEN Data(Len(cmds), at(i), at(i) + ch[i].cnt)
                              ELSE [j \in 1 .. ch[i].cnt |-> Junk]]]
  /\ g' = [g EXCEPT !.pc = "cmd"]
  /\ Clock([op |-> "ctrl", active |-> active, dir |-> dir], r, FALSE) /\ UNCHANGED cmds

\* Select-And-Transfer
GuestSelect(r) ==
  /\ g.pc = "cmd" /\ sh.req_seq < MaxSel
  /\ g' = [g EXCEPT !.pc = "wait"]
  /\ Clock([op |-> "seltx"], r, FALSE) /\ UNCHANGED <<cmds, chain>>

\* the interrupt: read SCSI Status, which clears INTRQ
GuestIsr(r) ==
  /\ g.pc \in {"wait", "reset"} /\ sh.intrq
  /\ LET more == sh.status = "pause"
     IN  g' = [g EXCEPT !.pc = IF more THEN "paused" ELSE "idle",
                        !.past = IF more THEN @ \o Bytes(chain) ELSE <<>>]
  /\ chain' = <<>>
  /\ Clock([op |-> "status"], r, FALSE) /\ UNCHANGED cmds

\* a paused command goes on with its next chunk
GuestResume ==
  /\ g.pc = "paused" /\ g' = [g EXCEPT !.pc = "dma"]
  /\ UNCHANGED <<cmds, chain, sh, s, acc, ld, staging, host>>

\* WD33C93 RESET, between commands
GuestReset(r) ==
  /\ g.pc = "idle" /\ g' = [g EXCEPT !.pc = "reset"]
  /\ Clock([op |-> "reset"], r, FALSE) /\ UNCHANGED <<cmds, chain>>

(***************************************************************************)
(* The servicer of henry_tb (the ARM's on the board).  Its register and    *)
(* staging writes are steps of their own.                                  *)
(***************************************************************************)
rtl == <<g, cmds, chain, sh, s, acc, ld>>

\* a new doorbell: decode the command, or resume the one in progress
SvcDoorbell ==
  /\ a.pc \in {"idle", "wait"} /\ sh.req_seq # a.last
  /\ LET c == cmds[sh.req_cdb]
         resume == a.active /\ a.pos < a.total
         data == c.kind \in {"read", "write"} /\ c.total > 0
         base == IF resume
                 THEN [a EXCEPT !.status = "ok"]
                 ELSE [a EXCEPT !.cmd = sh.req_cdb, !.pos = 0, !.total = IF data THEN c.total ELSE 0,
                                !.active = data, !.to_dev = c.kind = "write",
                                !.status = IF c.kind = "timeout" THEN "timeout" ELSE "ok"]
     IN  /\ a' = [base EXCEPT !.last = sh.req_seq, !.seq = sh.req_seq,
                              !.pc = IF ~base.active THEN "post"
                                     ELSE IF base.to_dev THEN "wait" ELSE "stage"]
         /\ disk' = IF ~resume /\ c.kind = "write" THEN [i \in 1 .. c.total |-> Junk] ELSE disk
  /\ UNCHANGED <<rtl, staging, db, rsp>>

\* the remaining bytes go to staging as whole beats, then their count
SvcStage ==
  /\ a.pc = "stage" /\ a' = [a EXCEPT !.pc = "ring"]
  /\ LET d == Data(a.cmd, a.pos, a.total)
         beats == (Len(d) + Lanes - 1) \div Lanes
     IN  /\ rdbuf' = d \o [i \in 1 .. beats * Lanes - Len(d) |-> Pad]
         /\ db' = [db EXCEPT !.rd_beats = beats]
  /\ UNCHANGED <<rtl, wrbuf, cq, cqprod, rsp, disk>>

SvcRing ==
  /\ a.pc = "ring" /\ a' = [a EXCEPT !.pc = "wait"]
  /\ db' = [db EXCEPT !.rd_seq = a.seq]
  /\ UNCHANGED <<rtl, staging, rsp, disk>>

\* take a completion entry: skip it unless its sequence is the request's
SvcPoll ==
  /\ a.pc = "wait" /\ db.cq_cons # cqprod
  /\ db' = [db EXCEPT !.cq_cons = @ + 1]
  /\ LET e == cq[db.cq_cons % NCq]
         moved == Min2(e.bytes, a.total - a.pos)
         base  == (a.pos \div Sector) * Sector
         whole == (moved \div Sector) * Sector
         pos   == a.pos + moved
     IN  IF e.seq # a.seq
         THEN UNCHANGED <<a, disk>>
         ELSE /\ disk' = IF a.to_dev
                         THEN [i \in DOMAIN disk |->
                                 IF i - base \in 1 .. whole THEN wrbuf[i - base] ELSE disk[i]]
                         ELSE disk
              /\ a' = [a EXCEPT !.pos = pos, !.pc = "post",
                                !.status = IF pos < a.total THEN "pause" ELSE "ok",
                                !.active = pos < a.total]
  /\ UNCHANGED <<rtl, staging, rsp>>

\* post_rsp: the status, then the echoed sequence
SvcPost ==
  /\ a.pc = "post" /\ a' = [a EXCEPT !.pc = "seq"]
  /\ rsp' = [rsp EXCEPT !.status = a.status]
  /\ UNCHANGED <<rtl, staging, db, disk>>

SvcPostSeq ==
  /\ a.pc = "seq" /\ a' = [a EXCEPT !.pc = "idle"]
  /\ rsp' = [rsp EXCEPT !.seq = a.seq]
  /\ UNCHANGED <<rtl, staging, db, disk>>

Servicer == SvcDoorbell \/ SvcStage \/ SvcRing \/ SvcPoll \/ SvcPost \/ SvcPostSeq

GuestClock(r) ==
  \/ \E c \in Commands : GuestCommand(c, r)
  \/ \E ch \in Chains, dir, active \in BOOLEAN : GuestDma(ch, dir, active, r)
  \/ GuestSelect(r) \/ GuestIsr(r) \/ GuestReset(r)

Next ==
  \/ Mem \/ Servicer \/ GuestResume
  \/ \E r \in BOOLEAN : GuestClock(r) \/ (\E tick \in BOOLEAN : Idle(r, tick))

\* The clock runs, DRAM answers, the select delay ends and the servicer polls.
Fairness ==
  /\ WF_vars(Mem) /\ WF_vars(Idle(TRUE, TRUE)) /\ WF_vars(Idle(FALSE, TRUE))
  /\ WF_vars(Servicer)

Spec == Init /\ [][Next]_vars /\ Fairness

(***************************************************************************)
(* Properties                                                              *)
(***************************************************************************)
\* Type invariant; the completion ring never holds more than its NCq entries.
TypeOK ==
  /\ sh.ph \in Phases /\ s.state \in SStates
  /\ g.pc \in {"idle", "dma", "cmd", "wait", "paused", "reset"}
  /\ a.pc \in {"idle", "stage", "ring", "wait", "post", "seq"}
  /\ s.nbdp \in 0 .. Len(chain) \/ s.state \in {"S_IDLE", "S_CQ", "S_IDX"}
  /\ Len(s.hold) < Lanes /\ Len(s.beat) \in {0, Lanes} /\ s.wptr \in 0 .. NBeats
  /\ s.cq_prod \in cqprod - 1 .. cqprod /\ cqprod - db.cq_cons \in 0 .. NCq

Delivered == g.past \o Bytes(chain)
Interrupt(kind, status) == g.pc = "wait" /\ sh.intrq /\ sh.status = status /\ Cmd.kind = kind

\* A READ reported successful has landed: the guest's buffers, over all the
\* chunks of the command, hold the disk's bytes in order, whatever the offsets
\* and sizes of the buffers, and never bytes staged for another command.
ReadLanded ==
  Interrupt("read", "ok") =>
     /\ Len(Delivered) >= Cmd.total
     /\ SubSeq(Delivered, 1, Cmd.total) = Data(Len(cmds), 0, Cmd.total)

\* A WRITE reported successful is on the disk, byte for byte: gathered from any
\* buffer offsets, in staging before its entry is, and chunk after chunk.
WriteOnDisk == Interrupt("write", "ok") => disk = Data(Len(cmds), 0, Cmd.total)

\* Once a command is answered the channel is done with the guest's memory: no
\* access to descriptors or buffers is in flight or can still start, whether the
\* chain ended, starved, was cancelled or never ran.
QuietAfterAnswer ==
  ~sh.bsy => sh.ph = "PH_IDLE" /\ ~s.go /\ s.state \in {"S_IDLE", "S_CQ", "S_IDX"}

\* Every Select-And-Transfer is answered: the driver never polls CIP/BSY for ever.
Answered == sh.bsy ~> ~sh.bsy
=============================================================================
