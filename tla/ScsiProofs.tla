----------------------------- MODULE ScsiProofs -----------------------------
(***************************************************************************)
(* The SCSI channel, its shim, the driver and the servicer for every beat  *)
(* width, ring size, staging size, command and chain.                      *)
(***************************************************************************)
EXTENDS Scsi, SequenceTheorems, WellFoundedInduction, TLAPS

Byte == Nat \X Nat
-----------------------------------------------------------------------------
(* Induction over the naturals in first-order form: the set of numbers with a property takes *)
(* the place of the property.                                                                *)

\* A set of naturals has a least element.
LEMMA LeastNat ==
  ASSUME NEW T, T \subseteq Nat, T # {}
  PROVE  \E x \in T : \A y \in T : x <= y
<1> DEFINE R == {p \in Nat \X Nat : p[1] < p[2]}
<1>1. IsWellFoundedOn(R, Nat)
  BY NatLessThanWellFounded DEF OpToRel
<1>2. \A x, y \in Nat : y < x => <<y, x>> \in R
  <2> SUFFICES ASSUME NEW x \in Nat, NEW y \in Nat, y < x
               PROVE  <<y, x>> \in R
    BY Zenon
  <2> DEFINE q == <<y, x>>
  <2>1. q \in Nat \X Nat /\ q[1] = y /\ q[2] = x
    OBVIOUS
  <2>2. q[1] < q[2]
    BY <2>1
  <2> HIDE DEF q
  <2> QED BY <2>1, <2>2, Zenon DEF q
<1>3. \E x \in T : \A y \in T : ~(<<y, x>> \in R)
  BY <1>1, WFMin, Zenon
<1> HIDE DEF R
<1>4. PICK x \in T : \A y \in T : ~(y < x)
  BY <1>2, <1>3, Zenon
<1> QED BY <1>4

\* Induction: a set that holds 0 and with every number its successor holds them all.
LEMMA NatSetInduction ==
  ASSUME NEW S, 0 \in S, \A n \in Nat : n \in S => n + 1 \in S
  PROVE  \A n \in Nat : n \in S
<1> DEFINE T == Nat \ S
<1> SUFFICES ASSUME T # {}
             PROVE  FALSE
  OBVIOUS
<1>1. PICK x \in T : \A y \in T : x <= y
  BY LeastNat
<1>2. x \in Nat /\ x # 0 /\ x - 1 \in Nat /\ x - 1 \in S
  BY <1>1
<1> QED BY <1>1, <1>2

-----------------------------------------------------------------------------
(* What the recursive functions of the model compute: running sums and concatenations. *)

\* u is the recursive function of SumTo, of Bytes
Sums(f, n, u) == u = [i \in 0 .. n |-> IF i = 0 THEN 0 ELSE u[i - 1] + f[i]]

\* SumTo is a running sum: what its recursive function computes.
LEMMA SumsExist ==
  ASSUME NEW f, NEW n \in Nat
  PROVE  \E u : Sums(f, n, u)
<1> DEFINE S == {m \in Nat : \E u : Sums(f, m, u)}
<1>1. 0 \in S
  <2>1. Sums(f, 0, [i \in 0 .. 0 |-> 0])
    BY DEF Sums
  <2> QED BY <2>1
<1>2. \A m \in Nat : m \in S => m + 1 \in S
  <2> SUFFICES ASSUME NEW m \in Nat, NEW u, Sums(f, m, u)
               PROVE  \E w : Sums(f, m + 1, w)
    OBVIOUS
  <2> DEFINE w == [i \in 0 .. m + 1 |-> IF i = m + 1 THEN u[m] + f[m + 1] ELSE u[i]]
  <2>1. \A i \in 0 .. m : u[i] = IF i = 0 THEN 0 ELSE u[i - 1] + f[i]
    BY DEF Sums
  <2>2. \A i \in 0 .. m + 1 : w[i] = IF i = 0 THEN 0 ELSE w[i - 1] + f[i]
    BY <2>1
  <2>3. w = [i \in 0 .. m + 1 |-> w[i]]
    OBVIOUS
  <2> HIDE DEF w
  <2>4. Sums(f, m + 1, w)
    BY <2>2, <2>3 DEF Sums
  <2> QED BY <2>4
<1> HIDE DEF S
<1>3. \A m \in Nat : m \in S
  BY <1>1, <1>2, NatSetInduction
<1> QED BY <1>3 DEF S

LEMMA SumsAgree ==
  ASSUME NEW f, NEW n \in Nat
  PROVE  \A u, v, k : k \in Nat /\ n <= k /\ Sums(f, n, u) /\ Sums(f, k, v) => u[n] = v[n]
<1> DEFINE A(m) == \A u, v, j, k :
                     j \in Nat /\ k \in Nat /\ m <= j /\ m <= k /\ Sums(f, j, u) /\ Sums(f, k, v)
                       => u[m] = v[m]
           S == {m \in Nat : A(m)}
<1>1. 0 \in S
  <2>1. \A u, j : j \in Nat /\ Sums(f, j, u) => u[0] = 0
    BY DEF Sums
  <2>2. A(0)
    BY <2>1
  <2> QED BY <2>2
<1>2. \A m \in Nat : m \in S => m + 1 \in S
  <2> SUFFICES ASSUME NEW m \in Nat, A(m), NEW u, NEW v, NEW j \in Nat, NEW k \in Nat,
                      m + 1 <= j, m + 1 <= k, Sums(f, j, u), Sums(f, k, v)
               PROVE  u[m + 1] = v[m + 1]
    OBVIOUS
  <2>1. u[m] = v[m]
    OBVIOUS
  <2>2. u[m + 1] = u[m] + f[m + 1] /\ v[m + 1] = v[m] + f[m + 1]
    BY DEF Sums
  <2> QED BY <2>1, <2>2
<1> HIDE DEF S
<1>3. \A m \in Nat : m \in S
  BY <1>1, <1>2, NatSetInduction
<1> QED BY <1>3 DEF S

LEMMA SumToFacts ==
  ASSUME NEW f
  PROVE  /\ SumTo(f, 0) = 0
         /\ \A n \in Nat : SumTo(f, n + 1) = SumTo(f, n) + f[n + 1]
<1>1. \A n \in Nat : \E u : Sums(f, n, u) /\ SumTo(f, n) = u[n]
  <2> TAKE n \in Nat
  <2> DEFINE u == CHOOSE u : Sums(f, n, u)
  <2>1. Sums(f, n, u)
    BY SumsExist
  <2>2. SumTo(f, n) = u[n]
    BY DEF SumTo, Sums
  <2> QED BY <2>1, <2>2
<1>2. SumTo(f, 0) = 0
  <2>1. PICK u : Sums(f, 0, u) /\ SumTo(f, 0) = u[0]
    BY <1>1
  <2> QED BY <2>1 DEF Sums
<1>3. ASSUME NEW n \in Nat PROVE SumTo(f, n + 1) = SumTo(f, n) + f[n + 1]
  <2>1. PICK u : Sums(f, n, u) /\ SumTo(f, n) = u[n]
    BY <1>1
  <2>2. PICK v : Sums(f, n + 1, v) /\ SumTo(f, n + 1) = v[n + 1]
    BY <1>1
  <2>3. u[n] = v[n]
    BY <2>1, <2>2, SumsAgree
  <2>4. v[n + 1] = v[n] + f[n + 1]
    BY <2>2 DEF Sums
  <2> QED BY <2>1, <2>2, <2>3, <2>4
<1> QED BY <1>2, <1>3
\* the bytes of the first n buffers of a chain
BytesTo(f, n) ==
  LET upto[i \in 0 .. n] == IF i = 0 THEN <<>> ELSE upto[i - 1] \o f[i].buf
  IN  upto[n]

Cats(f, n, u) == u = [i \in 0 .. n |-> IF i = 0 THEN <<>> ELSE u[i - 1] \o f[i].buf]

LEMMA CatsExist ==
  ASSUME NEW f, NEW n \in Nat
  PROVE  \E u : Cats(f, n, u)
<1> DEFINE S == {m \in Nat : \E u : Cats(f, m, u)}
<1>1. 0 \in S
  <2>1. Cats(f, 0, [i \in 0 .. 0 |-> <<>>])
    BY DEF Cats
  <2> QED BY <2>1
<1>2. \A m \in Nat : m \in S => m + 1 \in S
  <2> SUFFICES ASSUME NEW m \in Nat, NEW u, Cats(f, m, u)
               PROVE  \E w : Cats(f, m + 1, w)
    OBVIOUS
  <2> DEFINE w == [i \in 0 .. m + 1 |-> IF i = m + 1 THEN u[m] \o f[m + 1].buf ELSE u[i]]
  <2>1. \A i \in 0 .. m : u[i] = IF i = 0 THEN <<>> ELSE u[i - 1] \o f[i].buf
    BY DEF Cats
  <2>2. \A i \in 0 .. m + 1 : w[i] = IF i = 0 THEN <<>> ELSE w[i - 1] \o f[i].buf
    BY <2>1
  <2>3. w = [i \in 0 .. m + 1 |-> w[i]]
    OBVIOUS
  <2> HIDE DEF w
  <2>4. Cats(f, m + 1, w)
    BY <2>2, <2>3 DEF Cats
  <2> QED BY <2>4
<1> HIDE DEF S
<1>3. \A m \in Nat : m \in S
  BY <1>1, <1>2, NatSetInduction
<1> QED BY <1>3 DEF S

LEMMA CatsAgree ==
  ASSUME NEW f, NEW n \in Nat
  PROVE  \A u, v, k : k \in Nat /\ n <= k /\ Cats(f, n, u) /\ Cats(f, k, v) => u[n] = v[n]
<1> DEFINE A(m) == \A u, v, j, k :
                     j \in Nat /\ k \in Nat /\ m <= j /\ m <= k /\ Cats(f, j, u) /\ Cats(f, k, v)
                       => u[m] = v[m]
           S == {m \in Nat : A(m)}
<1>1. 0 \in S
  <2>1. \A u, j : j \in Nat /\ Cats(f, j, u) => u[0] = <<>>
    BY DEF Cats
  <2>2. A(0)
    BY <2>1
  <2> QED BY <2>2
<1>2. \A m \in Nat : m \in S => m + 1 \in S
  <2> SUFFICES ASSUME NEW m \in Nat, A(m), NEW u, NEW v, NEW j \in Nat, NEW k \in Nat,
                      m + 1 <= j, m + 1 <= k, Cats(f, j, u), Cats(f, k, v)
               PROVE  u[m + 1] = v[m + 1]
    OBVIOUS
  <2>1. u[m] = v[m]
    OBVIOUS
  <2>2. u[m + 1] = u[m] \o f[m + 1].buf /\ v[m + 1] = v[m] \o f[m + 1].buf
    BY SMTT(60) DEF Cats
  <2> QED BY <2>1, <2>2
<1> HIDE DEF S
<1>3. \A m \in Nat : m \in S
  BY <1>1, <1>2, NatSetInduction
<1> QED BY <1>3 DEF S

LEMMA BytesToFacts ==
  ASSUME NEW f
  PROVE  /\ BytesTo(f, 0) = <<>>
         /\ \A n \in Nat : BytesTo(f, n + 1) = BytesTo(f, n) \o f[n + 1].buf
<1>1. \A n \in Nat : \E u : Cats(f, n, u) /\ BytesTo(f, n) = u[n]
  <2> TAKE n \in Nat
  <2> DEFINE u == CHOOSE u : Cats(f, n, u)
  <2>1. Cats(f, n, u)
    BY CatsExist
  <2>2. BytesTo(f, n) = u[n]
    BY DEF BytesTo, Cats
  <2> QED BY <2>1, <2>2
<1>2. BytesTo(f, 0) = <<>>
  <2>1. PICK u : Cats(f, 0, u) /\ BytesTo(f, 0) = u[0]
    BY <1>1
  <2> QED BY <2>1 DEF Cats
<1>3. ASSUME NEW n \in Nat PROVE BytesTo(f, n + 1) = BytesTo(f, n) \o f[n + 1].buf
  <2>1. PICK u : Cats(f, n, u) /\ BytesTo(f, n) = u[n]
    BY <1>1
  <2>2. PICK v : Cats(f, n + 1, v) /\ BytesTo(f, n + 1) = v[n + 1]
    BY <1>1
  <2>3. u[n] = v[n]
    BY <2>1, <2>2, CatsAgree
  <2>4. v[n + 1] = v[n] \o f[n + 1].buf
    <3>1. \A i \in 0 .. n + 1 : v[i] = IF i = 0 THEN <<>> ELSE v[i - 1] \o f[i].buf
      BY <2>2 DEF Cats
    <3>2. n + 1 \in 0 .. n + 1 /\ n + 1 # 0 /\ (n + 1) - 1 = n
      OBVIOUS
    <3> QED BY <3>1, <3>2
  <2> QED BY <2>1, <2>2, <2>3, <2>4
<1> QED BY <1>2, <1>3

LEMMA SumNat ==
  ASSUME NEW f, NEW n \in Nat, \A i \in 1 .. n : f[i] \in Nat
  PROVE  \A m \in 0 .. n : SumTo(f, m) \in Nat
<1> DEFINE S == {m \in Nat : m <= n => SumTo(f, m) \in Nat}
<1>1. 0 \in S
  BY SumToFacts
<1>2. \A m \in Nat : m \in S => m + 1 \in S
  <2> SUFFICES ASSUME NEW m \in Nat, m + 1 <= n, SumTo(f, m) \in Nat
               PROVE  SumTo(f, m + 1) \in Nat
    OBVIOUS
  <2>1. SumTo(f, m + 1) = SumTo(f, m) + f[m + 1]
    BY SumToFacts
  <2>2. f[m + 1] \in Nat
    OBVIOUS
  <2> QED BY <2>1, <2>2
<1> HIDE DEF S
<1>3. \A m \in Nat : m \in S
  BY <1>1, <1>2, NatSetInduction
<1> QED BY <1>3 DEF S

cnts(ch) == [i \in 1 .. Len(ch) |-> ch[i].cnt]

LEMMA BytesType ==
  ASSUME NEW ch, Len(ch) \in Nat,
         \A i \in 1 .. Len(ch) : ch[i].cnt \in Nat /\ ch[i].buf \in Seq(Byte) /\ Len(ch[i].buf) = ch[i].cnt
  PROVE  \A m \in 0 .. Len(ch) :
            BytesTo(ch, m) \in Seq(Byte) /\ Len(BytesTo(ch, m)) = SumTo(cnts(ch), m)
<1> DEFINE A(m) == BytesTo(ch, m) \in Seq(Byte) /\ Len(BytesTo(ch, m)) = SumTo(cnts(ch), m)
           S == {m \in Nat : m <= Len(ch) => A(m)}
<1>1. 0 \in S
  <2>1. BytesTo(ch, 0) = <<>> /\ SumTo(cnts(ch), 0) = 0
    BY SumToFacts, BytesToFacts
  <2>2. <<>> \in Seq(Byte) /\ Len(<<>>) = 0
    OBVIOUS
  <2>3. A(0)
    BY <2>1, <2>2, Zenon
  <2> HIDE DEF A
  <2> QED BY <2>3
<1>2. \A m \in Nat : m \in S => m + 1 \in S
  <2> HIDE DEF A
  <2> SUFFICES ASSUME NEW m \in Nat, m + 1 <= Len(ch), A(m)
               PROVE  A(m + 1)
    OBVIOUS
  <2> USE DEF A
  <2>1. SumTo(cnts(ch), m + 1) = SumTo(cnts(ch), m) + cnts(ch)[m + 1]
    BY SumToFacts
  <2>2. BytesTo(ch, m + 1) = BytesTo(ch, m) \o ch[m + 1].buf
    BY BytesToFacts
  <2>3. m + 1 \in 1 .. Len(ch) /\ cnts(ch)[m + 1] = ch[m + 1].cnt
    BY DEF cnts
  <2>4. ch[m + 1].buf \in Seq(Byte) /\ Len(ch[m + 1].buf) = ch[m + 1].cnt
    BY <2>3
  <2> DEFINE x == BytesTo(ch, m)
             y == ch[m + 1].buf
  <2>5. x \in Seq(Byte) /\ y \in Seq(Byte)
    BY <2>4
  <2> HIDE DEF x, y
  <2>6. x \o y \in Seq(Byte) /\ Len(x \o y) = Len(x) + Len(y)
    BY <2>5, ConcatProperties
  <2> QED BY <2>1, <2>2, <2>3, <2>4, <2>6 DEF x, y
<1> HIDE DEF S
<1>3. \A m \in Nat : m \in S
  BY <1>1, <1>2, NatSetInduction
<1> QED BY <1>3 DEF S
-----------------------------------------------------------------------------
(* The inductive invariant *)

\* The channel has nothing to do with guest memory: idle, or posting the entry of a chain
\* that is over.  (A starved chain goes on after its entry.)
Quiet == s.state = "S_IDLE" \/ (s.state \in {"S_CQ", "S_IDX"} /\ s.flags # "starved")

ShimOk ==
  /\ DOMAIN sh = {"ph", "cdb", "bsy", "intrq", "status", "phase", "active", "dir", "req_seq",
                  "done_seq", "req_cdb"}
  /\ sh.ph \in Phases /\ sh.req_seq \in Nat /\ sh.done_seq \in Nat
  /\ sh.ph # "PH_IDLE" => sh.bsy

\* The shim is in its data phase as long as the channel runs, and a go is taken once.
Handshake ==
  /\ sh.ph # "PH_BUSY" => Quiet /\ ~s.go /\ ~s.done
  /\ s.go => Quiet /\ ~s.done /\ s.go_seq = sh.req_seq
  /\ s.done => s.state = "S_CQ" /\ s.flags = "done"
  /\ ~Quiet => s.seq = sh.req_seq

\* The driver issues nothing before it has taken the interrupt of what it issued.
DriverOk ==
  /\ DOMAIN g = {"pc", "past"} /\ g.past \in Seq(Byte)
  /\ g.pc \in {"idle", "dma", "cmd", "wait", "paused", "reset"}
  /\ g.pc \in {"idle", "dma", "cmd", "paused"} => ~sh.bsy /\ ~sh.intrq /\ sh.req_seq = sh.done_seq
  /\ g.pc = "reset" => ~sh.bsy /\ sh.intrq /\ sh.req_seq = sh.done_seq /\ sh.status = "reset"
  /\ g.pc = "wait" /\ sh.bsy => ~sh.intrq /\ sh.req_seq # sh.done_seq
  /\ g.pc = "wait" /\ ~sh.bsy => sh.intrq /\ sh.req_seq = sh.done_seq

\* The commands the registers name are there.
CommandOk ==
  /\ cmds \in Seq(Commands) /\ sh.cdb = Len(cmds)
  /\ g.pc \in {"dma", "cmd", "paused", "wait"} => Len(cmds) > 0
  /\ sh.req_seq > 0 => sh.req_cdb \in 1 .. Len(cmds)

\* One request at a time: the servicer is at work on the shim's current one, or has
\* answered all it saw.
ServicerOk ==
  /\ DOMAIN a = {"pc", "last", "seq", "cmd", "active", "pos", "total", "to_dev", "status"}
  /\ DOMAIN db = {"rd_beats", "rd_seq", "cq_cons"} /\ DOMAIN rsp = {"seq", "status"}
  /\ a.pc \in {"idle", "stage", "ring", "wait", "post", "seq"}
  /\ a.last \in Nat /\ a.seq \in Nat /\ a.cmd \in Nat /\ a.pos \in Nat /\ a.total \in Nat
  /\ rsp.seq \in Nat /\ db.rd_seq \in Nat /\ db.rd_beats \in Nat
  /\ a.pos <= a.total
  /\ rsp.seq <= a.last /\ a.last <= sh.req_seq
  /\ a.pc = "idle" => rsp.seq = a.last
  /\ a.pc # "idle" => a.seq = a.last /\ rsp.seq < a.last /\ a.last = sh.req_seq
  /\ db.rd_seq <= a.last /\ (a.pc \in {"stage", "ring"} => db.rd_seq < a.last)
  /\ sh.req_seq = sh.done_seq => rsp.seq = sh.req_seq

\* Staging holds as many beats as the doorbell says.
StagingOk ==
  /\ rdbuf \in Seq(Byte) /\ Len(rdbuf) = db.rd_beats * Lanes
  /\ DOMAIN cq = 0 .. NCq - 1 /\ \A i \in 0 .. NCq - 1 : cq[i].bytes \in Nat

\* The completion ring is never overrun.
RingOk ==
  /\ s.cq_prod \in Nat /\ cqprod \in Nat /\ db.cq_cons \in Nat
  /\ cqprod = IF s.state = "S_IDX" /\ acc THEN s.cq_prod + 1 ELSE s.cq_prod
  /\ db.cq_cons <= cqprod /\ cqprod - db.cq_cons <= NCq
  /\ s.state = "S_IDX" => s.cq_prod - db.cq_cons < NCq

\* The channel's registers: the byte packer never holds a whole beat, a beat is whole or
\* absent, and only beats that are staged for this command are fetched.
RegsOk ==
  /\ DOMAIN s = {"state", "go", "go_dir", "go_seq", "active", "dir", "nbdp", "off", "bp", "cnt", "dp",
                 "eox", "ndesc", "xfer", "seq", "gen_ok", "avail", "fetch", "wptr", "trunc", "flush",
                 "cancel", "stall_post", "flags", "cq_prod", "done", "hold", "beat"}
  /\ s.state \in SStates
  /\ s.off \in Nat /\ s.bp \in Nat /\ s.cnt \in Nat /\ s.xfer \in Nat /\ s.seq \in Nat
  /\ s.avail \in Nat /\ s.fetch \in Nat /\ s.wptr \in 0 .. NBeats
  /\ s.hold \in Seq(Byte) /\ Len(s.hold) < Lanes
  /\ s.beat \in Seq(Byte) /\ Len(s.beat) \in {0, Lanes}
  /\ s.state = "S_R_STORE" /\ NeedBeat => s.beat # <<>>
  /\ s.state = "S_W_DRAIN" => s.beat # <<>>
  /\ s.state = "S_R_FETCH" => s.gen_ok /\ s.fetch # s.avail

FetchedOk ==
  /\ ~Quiet /\ s.gen_ok => s.fetch <= s.avail /\ s.avail = db.rd_beats /\ db.rd_seq = s.seq
  /\ ~Quiet /\ ~s.gen_ok => s.fetch = 0

LoadOk ==
  /\ DOMAIN ld = {"desc", "bytes"} /\ DOMAIN ld.desc = {"off", "cnt", "eox", "dp"}
  /\ acc /\ s.state = "S_R_FETCH" => ld.bytes \in Seq(Byte) /\ Len(ld.bytes) = Lanes
  /\ acc /\ s.state = "S_W_LOAD" => ld.bytes \in Seq(Byte) /\ Len(ld.bytes) = Take

\* guest memory
IsDesc(d) == /\ DOMAIN d = {"off", "cnt", "buf"} /\ d.off \in Nat /\ d.cnt \in Nat
             /\ d.buf \in Seq(Byte) /\ Len(d.buf) = d.cnt

ChainOk ==
  /\ DOMAIN chain = 1 .. Len(chain) /\ Len(chain) \in Nat
  /\ \A i \in 1 .. Len(chain) : IsDesc(chain[i])
  /\ g.pc \in {"cmd", "wait"} => Len(chain) > 0

\* The cursor stays in the chain: what is left of a buffer is what its descriptor said.
CursorOk ==
  ~Quiet =>
    /\ s.nbdp \in 1 .. Len(chain)
    /\ s.state # "S_DESC" => s.dp \in 0 .. Len(chain) /\ s.bp + s.cnt = chain[s.nbdp].cnt
    /\ acc /\ s.state = "S_DESC" =>
         /\ ld.desc.off = chain[s.nbdp].off /\ ld.desc.cnt = chain[s.nbdp].cnt
         /\ ld.desc.dp \in 0 .. Len(chain)

Inv == /\ ShimOk /\ Handshake /\ DriverOk /\ CommandOk /\ ServicerOk /\ StagingOk /\ RingOk
       /\ RegsOk /\ FetchedOk /\ LoadOk /\ ChainOk /\ CursorOk
-----------------------------------------------------------------------------
(* One clock of the channel *)

LEMMA HoldFields ==
  ASSUME RegsOk
  PROVE  /\ DOMAIN Hold = DOMAIN s
         /\ Hold.state = s.state /\ Hold.active = s.active /\ Hold.dir = s.dir /\ Hold.nbdp = s.nbdp
         /\ Hold.off = s.off /\ Hold.bp = s.bp /\ Hold.cnt = s.cnt /\ Hold.dp = s.dp /\ Hold.eox = s.eox
         /\ Hold.ndesc = s.ndesc /\ Hold.xfer = s.xfer /\ Hold.seq = s.seq /\ Hold.fetch = s.fetch
         /\ Hold.wptr = s.wptr /\ Hold.trunc = s.trunc /\ Hold.flush = s.flush
         /\ Hold.stall_post = s.stall_post /\ Hold.flags = s.flags /\ Hold.cq_prod = s.cq_prod
         /\ Hold.hold = s.hold /\ Hold.beat = s.beat /\ ~Hold.done
         /\ (Hold.go <=> s.go \/ Go) /\ Hold.go_seq = IF Go THEN sh.req_seq ELSE s.go_seq
         /\ Hold.go_dir = (IF Go THEN sh.dir ELSE s.go_dir)
         /\ (Hold.cancel <=> s.cancel \/ (Abort /\ s.active))
         /\ (Hold.gen_ok <=> s.gen_ok \/ (s.active /\ ~s.gen_ok /\ db.rd_seq = s.seq))
         /\ Hold.avail = IF s.active /\ ~s.gen_ok /\ db.rd_seq = s.seq THEN db.rd_beats ELSE s.avail
<1> DEFINE match == s.active /\ ~s.gen_ok /\ db.rd_seq = s.seq
<1>1. Hold = [s EXCEPT !.cancel = @ \/ (Abort /\ s.active), !.done = FALSE,
                       !.gen_ok = @ \/ match, !.avail = IF match THEN db.rd_beats ELSE @,
                       !.go = @ \/ Go, !.go_dir = IF Go THEN sh.dir ELSE @,
                       !.go_seq = IF Go THEN sh.req_seq ELSE @]
  BY DEF Hold
<1> HIDE DEF match
<1>2. DOMAIN s = {"state", "go", "go_dir", "go_seq", "active", "dir", "nbdp", "off", "bp", "cnt", "dp",
                 "eox", "ndesc", "xfer", "seq", "gen_ok", "avail", "fetch", "wptr", "trunc", "flush",
                 "cancel", "stall_post", "flags", "cq_prod", "done", "hold", "beat"}
  BY DEF RegsOk
<1> QED BY <1>1, <1>2 DEF match

\* What a clock does to the handshake with the shim.
Moved ==
  /\ s'.go_seq = IF Go THEN sh.req_seq ELSE s.go_seq
  /\ (s'.go <=> (s.go /\ s.state # "S_IDLE") \/ Go)
  /\ s'.done => s.state = "S_DONE" /\ s'.state = "S_CQ" /\ s'.flags = "done"
  /\ Quiet /\ ~(s.go /\ s.state = "S_IDLE") => Quiet'
  /\ Quiet /\ s.go /\ s.state = "S_IDLE" => s'.seq = s.go_seq
  /\ ~Quiet => s'.seq = s.seq
  /\ Abort => Quiet'

LEMMA ChanMoves ==
  ASSUME RegsOk, NEW r, SChan(r)
  PROVE  Moved
<1> USE HoldFields
<1>1. CASE s' = Hold /\ s.state # "S_IDLE" /\ s.state # "S_R_NEED"
  BY <1>1 DEF Moved, Quiet, Abort, RdStalled
<1>2. CASE SIdle
  BY <1>2 DEF SIdle, Moved, Quiet, Abort, RdStalled, RegsOk
<1>3. CASE SDesc
  BY <1>3 DEF SDesc, Moved, Quiet, Abort, RdStalled, RegsOk
<1>4. CASE SReadNeed
  BY <1>4 DEF SReadNeed, Moved, Quiet, Cancel, RegsOk
<1>5. CASE SReadFetch
  BY <1>5 DEF SReadFetch, Moved, Quiet, Abort, RdStalled, RegsOk
<1>6. CASE SReadStore
  BY <1>6 DEF SReadStore, Moved, Quiet, Abort, RdStalled, RegsOk
<1>7. CASE SWriteLoad
  BY <1>7 DEF SWriteLoad, Moved, Quiet, Abort, RdStalled, RegsOk
<1>8. CASE SWriteDrain
  BY <1>8 DEF SWriteDrain, Moved, Quiet, Abort, RdStalled, RegsOk
<1>9. CASE SNext
  BY <1>9 DEF SNext, Moved, Quiet, Abort, RdStalled, RegsOk
<1>10. CASE SDone
  BY <1>10 DEF SDone, Moved, Quiet, Abort, RdStalled, RegsOk
<1>11. CASE SCq
  BY <1>11 DEF SCq, Moved, Quiet, Abort, RdStalled, RegsOk
<1>12. CASE SIdx
  BY <1>12 DEF SIdx, Moved, Quiet, Abort, RdStalled, RegsOk
<1>13. SReq => s.state # "S_IDLE" /\ s.state # "S_R_NEED"
  BY DEF SReq
<1> QED BY <1>1, <1>2, <1>3, <1>4, <1>5, <1>6, <1>7, <1>8, <1>9, <1>10, <1>11, <1>12, <1>13 DEF SChan

LEMMA TakeFacts ==
  ASSUME NEW x \in Nat, NEW c \in Nat
  PROVE  LineTake(x, c) \in Nat /\ LineTake(x, c) <= c /\ LineTake(x, c) <= Lanes
<1>1. Lanes \in Nat \ {0}
  BY ScsiConstants
<1>2. x % Lanes \in 0 .. Lanes - 1
  BY <1>1
<1> QED BY <1>1, <1>2 DEF LineTake, Min2

LEMMA SeqFacts ==
  ASSUME NEW x \in Seq(Byte), NEW y \in Seq(Byte)
  PROVE  /\ x \o y \in Seq(Byte) /\ Len(x \o y) = Len(x) + Len(y) /\ Len(x) \in Nat
         /\ x = <<>> <=> Len(x) = 0
         /\ \A m \in 1 .. Len(x) + 1, n \in 0 .. Len(x) : m <= n + 1 =>
              SubSeq(x, m, n) \in Seq(Byte) /\ Len(SubSeq(x, m, n)) = n - m + 1
<1>1. \A m \in 1 .. Len(x) + 1 : \A n \in m - 1 .. Len(x) :
        SubSeq(x, m, n) \in Seq(Byte) /\ Len(SubSeq(x, m, n)) = IF m <= n THEN n - m + 1 ELSE 0
  BY SubSeqProperties
<1>2. Len(x) \in Nat /\ (x = <<>> <=> Len(x) = 0)
  OBVIOUS
<1>3. x \o y \in Seq(Byte) /\ Len(x \o y) = Len(x) + Len(y)
  OBVIOUS
<1> QED BY <1>1, <1>2, <1>3

\* the guest's memory does not move under a running channel
Settled == Quiet' \/ chain' = chain

\* What the other components leave for the channel to rely on.
ChanOk == RegsOk /\ FetchedOk /\ LoadOk /\ RingOk /\ CursorOk

ChanEnv ==
  /\ StagingOk /\ ServicerOk /\ ChainOk /\ ShimOk /\ Handshake
  /\ s.go => Len(chain) > 0

\* the channel waits for its response
LEMMA HoldStep ==
  ASSUME ChanOk, ChanEnv, s' = Hold, UNCHANGED <<acc, ld, staging, host>>, Settled, s.state # "S_IDLE"
  PROVE  ChanOk'
<1> USE HoldFields DEF ChanOk, ChanEnv
<1>1. /\ DOMAIN s' = DOMAIN s
      /\ s'.state = s.state /\ s'.nbdp = s.nbdp /\ s'.flags = s.flags
      /\ s'.off = s.off /\ s'.bp = s.bp /\ s'.cnt = s.cnt /\ s'.dp = s.dp /\ s'.xfer = s.xfer
      /\ s'.seq = s.seq /\ s'.fetch = s.fetch /\ s'.wptr = s.wptr /\ s'.cq_prod = s.cq_prod
      /\ s'.hold = s.hold /\ s'.beat = s.beat
      /\ (s'.gen_ok <=> s.gen_ok \/ (s.active /\ ~s.gen_ok /\ db.rd_seq = s.seq))
      /\ s'.avail = IF s.active /\ ~s.gen_ok /\ db.rd_seq = s.seq THEN db.rd_beats ELSE s.avail
  OBVIOUS
<1>2. (Quiet' <=> Quiet) /\ NeedBeat' = NeedBeat /\ Take' = Take
  BY <1>1 DEF Quiet, NeedBeat, Take
<1>3. RegsOk'
  BY <1>1, <1>2 DEF RegsOk, ServicerOk
<1>4. FetchedOk'
  BY <1>1, <1>2 DEF FetchedOk, host, ServicerOk
<1>5. LoadOk'
  BY <1>1, <1>2 DEF LoadOk
<1>6. RingOk'
  BY <1>1 DEF RingOk, host, staging
<1>7. CursorOk'
  BY <1>1, <1>2 DEF CursorOk, Settled
<1> QED BY <1>3, <1>4, <1>5, <1>6, <1>7

\* the response of the access has come, or none was needed
Responded ==
  /\ SReq => acc
  /\ acc' = FALSE /\ ld' = NoLoad /\ UNCHANGED <<staging, host>> /\ Settled

LEMMA NoLoadOk ==
  ASSUME Responded
  PROVE  LoadOk'
BY DEF Responded, LoadOk, NoLoad

LEMMA IdleStep ==
  ASSUME ChanOk, ChanEnv, Responded, SIdle
  PROVE  ChanOk'
<1> USE HoldFields DEF ChanOk, ChanEnv
<1>1. CASE s.go
  <2>1. /\ DOMAIN s' = DOMAIN s
        /\ s'.state = "S_DESC" /\ s'.nbdp = 1 /\ s'.flags = s.flags
        /\ s'.off = s.off /\ s'.bp = s.bp /\ s'.cnt = s.cnt /\ s'.dp = s.dp /\ s'.xfer = 0
        /\ s'.seq = s.go_seq /\ s'.fetch = 0 /\ s'.wptr = 0 /\ s'.cq_prod = s.cq_prod
        /\ s'.hold = <<>> /\ s'.beat = <<>>
        /\ (s'.gen_ok <=> db.rd_seq = s.go_seq) /\ s'.avail = db.rd_beats
    BY <1>1, ZenonT(30) DEF SIdle, RegsOk
  <2>2. Len(chain) > 0 /\ s.go_seq = sh.req_seq
    BY <1>1 DEF Handshake
  <2>3. RegsOk'
    BY <2>1, <2>2, ScsiConstants DEF RegsOk, SStates, ShimOk, ServicerOk
  <2>4. FetchedOk'
    BY <2>1 DEF FetchedOk, Responded, host, ServicerOk
  <2>5. RingOk'
    BY <2>1 DEF RingOk, Responded, host, staging, SIdle
  <2>6. ~Quiet'
    BY <2>1 DEF Quiet
  <2>7. CursorOk'
    BY <2>1, <2>2, <2>6 DEF CursorOk, Responded, Settled, ChainOk
  <2> QED BY <2>3, <2>4, <2>5, <2>7, NoLoadOk
<1>2. CASE ~s.go
  <2>1. /\ DOMAIN s' = DOMAIN s
        /\ s'.state = "S_IDLE" /\ s.state = "S_IDLE"
        /\ s'.off = s.off /\ s'.bp = s.bp /\ s'.cnt = s.cnt /\ s'.xfer = s.xfer
        /\ s'.seq = s.seq /\ s'.fetch = s.fetch /\ s'.wptr = s.wptr /\ s'.cq_prod = s.cq_prod
        /\ s'.hold = s.hold /\ s'.beat = s.beat
        /\ s'.avail = IF s.active /\ ~s.gen_ok /\ db.rd_seq = s.seq THEN db.rd_beats ELSE s.avail
    BY <1>2 DEF SIdle
  <2>2. Quiet'
    BY <2>1 DEF Quiet
  <2>3. RegsOk'
    BY <2>1 DEF RegsOk, ServicerOk
  <2>4. FetchedOk' /\ CursorOk'
    BY <2>2 DEF FetchedOk, CursorOk
  <2>5. RingOk'
    BY <2>1 DEF RingOk, Responded, host, staging
  <2> QED BY <2>3, <2>4, <2>5, NoLoadOk
<1> QED BY <1>1, <1>2

LEMMA RingKept ==
  ASSUME RingOk, Responded, s.state # "S_IDX", s'.cq_prod = s.cq_prod, s'.state # "S_IDX"
  PROVE  RingOk'
BY DEF RingOk, Responded, host, staging

LEMMA FetchKept ==
  ASSUME RegsOk, FetchedOk, ServicerOk, Responded, ~Quiet,
         s'.seq = s.seq, s'.fetch = s.fetch, s'.gen_ok = Hold.gen_ok, s'.avail = Hold.avail
  PROVE  FetchedOk' /\ s'.avail \in Nat /\ (FetchOk => s'.gen_ok /\ s'.fetch # s'.avail)
<1> USE HoldFields
<1>1. s'.avail \in Nat
  BY DEF RegsOk, ServicerOk
<1>2. FetchOk => s'.gen_ok /\ s'.fetch # s'.avail
  BY DEF FetchOk
<1>3. FetchedOk'
  BY DEF FetchedOk, Responded, host, ServicerOk
<1> QED BY <1>1, <1>2, <1>3

LEMMA DescStep ==
  ASSUME ChanOk, ChanEnv, Responded, SDesc
  PROVE  ChanOk'
<1> USE HoldFields DEF ChanOk, ChanEnv
<1> DEFINE d == ld.desc
           state == IF d.cnt = 0 THEN "S_NEXT"
                    ELSE IF s.dir THEN "S_W_LOAD" ELSE RdNext(d.off, d.cnt, s.hold, s.beat)
<1>1. s.state = "S_DESC" /\ acc /\ ~Quiet
  BY DEF SDesc, Responded, SReq, Quiet
<1>2. /\ s.nbdp \in 1 .. Len(chain) /\ d.off = chain[s.nbdp].off /\ d.cnt = chain[s.nbdp].cnt
      /\ d.dp \in 0 .. Len(chain) /\ IsDesc(chain[s.nbdp])
  BY <1>1 DEF CursorOk, ChainOk
<1>3. d.off \in Nat /\ d.cnt \in Nat
  BY <1>2 DEF IsDesc
<1>4. s' = [Hold EXCEPT !.off = d.off, !.bp = 0, !.cnt = d.cnt, !.eox = d.eox, !.dp = d.dp, !.state = state]
  BY DEF SDesc
<1> HIDE DEF d, state
<1>5. /\ DOMAIN s' = DOMAIN s
      /\ s'.state = state /\ s'.nbdp = s.nbdp /\ s'.flags = s.flags
      /\ s'.off = d.off /\ s'.bp = 0 /\ s'.cnt = d.cnt /\ s'.dp = d.dp /\ s'.xfer = s.xfer
      /\ s'.seq = s.seq /\ s'.fetch = s.fetch /\ s'.wptr = s.wptr /\ s'.cq_prod = s.cq_prod
      /\ s'.hold = s.hold /\ s'.beat = s.beat /\ s'.gen_ok = Hold.gen_ok /\ s'.avail = Hold.avail
  BY <1>4 DEF RegsOk
<1>6. state \in {"S_NEXT", "S_W_LOAD", "S_R_NEED", "S_R_STORE", "S_R_FETCH"}
  BY DEF state, RdNext
<1>7. FetchedOk' /\ s'.avail \in Nat /\ (FetchOk => s'.gen_ok /\ s'.fetch # s'.avail)
  BY <1>1, <1>5, FetchKept
<1>8. /\ state = "S_R_STORE" => LineTake(d.off, d.cnt) <= Len(s.hold) \/ s.beat # <<>>
      /\ state = "S_R_FETCH" => FetchOk
  BY DEF state, RdNext
<1>9. Take' = LineTake(d.off, d.cnt) /\ LineTake(d.off, d.cnt) \in Nat
  <2>1. s'.off + s'.bp = d.off
    BY <1>3, <1>5
  <2>2. LineTake(d.off, d.cnt) \in Nat
    BY <1>3, TakeFacts
  <2> QED BY <2>1, <2>2, <1>5 DEF Take
<1>10. RegsOk'
  BY <1>3, <1>5, <1>6, <1>7, <1>8, <1>9 DEF RegsOk, SStates, NeedBeat
<1>11. RingOk'
  BY <1>1, <1>5, <1>6, RingKept
<1>12. ~Quiet'
  BY <1>5, <1>6 DEF Quiet
<1>13. CursorOk'
  BY <1>2, <1>3, <1>5, <1>6, <1>12 DEF CursorOk, Responded, Settled
<1> QED BY <1>7, <1>10, <1>11, <1>13, NoLoadOk

LEMMA ReadNeedStep ==
  ASSUME ChanOk, ChanEnv, Responded, SReadNeed
  PROVE  ChanOk'
<1> USE HoldFields DEF ChanOk, ChanEnv
<1>1. s.state = "S_R_NEED" /\ ~Quiet
  BY DEF SReadNeed, Quiet
<1>2. /\ DOMAIN s' = DOMAIN s
      /\ s'.nbdp = s.nbdp /\ s'.off = s.off /\ s'.bp = s.bp /\ s'.cnt = s.cnt /\ s'.dp = s.dp
      /\ s'.xfer = s.xfer /\ s'.seq = s.seq /\ s'.fetch = s.fetch /\ s'.wptr = s.wptr
      /\ s'.cq_prod = s.cq_prod /\ s'.hold = s.hold /\ s'.beat = s.beat
      /\ s'.gen_ok = Hold.gen_ok /\ s'.avail = Hold.avail
  BY DEF SReadNeed, RegsOk
<1>3. /\ s'.state \in {"S_IDLE", "S_CQ", "S_R_STORE", "S_R_FETCH", "S_R_NEED"}
      /\ s'.state = "S_R_STORE" => ~NeedBeat \/ s.beat # <<>>
      /\ s'.state = "S_R_FETCH" => FetchOk
  BY DEF SReadNeed, RegsOk
<1>4. FetchedOk' /\ s'.avail \in Nat /\ (FetchOk => s'.gen_ok /\ s'.fetch # s'.avail)
  BY <1>1, <1>2, FetchKept
<1>5. NeedBeat' = NeedBeat
  BY <1>2 DEF NeedBeat, Take
<1>6. RegsOk'
  BY <1>2, <1>3, <1>4, <1>5 DEF RegsOk, SStates
<1>7. RingOk'
  BY <1>1, <1>2, <1>3, RingKept
<1>8. CursorOk'
  BY <1>1, <1>2, <1>3 DEF CursorOk, Responded, Settled
<1> QED BY <1>4, <1>6, <1>7, <1>8, NoLoadOk

LEMMA ReadFetchStep ==
  ASSUME ChanOk, ChanEnv, Responded, SReadFetch
  PROVE  ChanOk'
<1> USE HoldFields DEF ChanOk, ChanEnv
<1>1. s.state = "S_R_FETCH" /\ ~Quiet /\ acc
  BY DEF SReadFetch, Quiet, Responded, SReq
<1>2. /\ DOMAIN s' = DOMAIN s /\ s'.state = "S_R_STORE"
      /\ s'.nbdp = s.nbdp /\ s'.off = s.off /\ s'.bp = s.bp /\ s'.cnt = s.cnt /\ s'.dp = s.dp
      /\ s'.xfer = s.xfer /\ s'.seq = s.seq /\ s'.fetch = s.fetch + 1 /\ s'.wptr = s.wptr
      /\ s'.cq_prod = s.cq_prod /\ s'.hold = s.hold /\ s'.beat = ld.bytes
      /\ s'.gen_ok = Hold.gen_ok /\ s'.avail = Hold.avail
  BY DEF SReadFetch, RegsOk
<1>3. ld.bytes \in Seq(Byte) /\ Len(ld.bytes) = Lanes /\ Lanes \in Nat \ {0}
  BY <1>1, ScsiConstants DEF LoadOk
<1>4. s.gen_ok /\ s.fetch < s.avail /\ s'.avail = s.avail /\ s'.gen_ok /\ s.fetch \in Nat /\ s.avail \in Nat
  BY <1>1, <1>2 DEF RegsOk, FetchedOk
<1>5. FetchedOk'
  BY <1>1, <1>2, <1>4 DEF FetchedOk, Responded, host
<1>6. ld.bytes # <<>>
  BY <1>3
<1>7. RegsOk'
  BY <1>2, <1>3, <1>4, <1>6 DEF RegsOk, SStates
<1>8. RingOk'
  BY <1>1, <1>2, RingKept
<1>9. CursorOk'
  BY <1>1, <1>2 DEF CursorOk, Responded, Settled, Quiet
<1> QED BY <1>5, <1>7, <1>8, <1>9, NoLoadOk

\* what a READ store takes out of the hold register and the beat
LEMMA StoreFacts ==
  ASSUME RegsOk, s.state = "S_R_STORE"
  PROVE  /\ Take \in Nat /\ Take <= s.cnt /\ Window \in Seq(Byte) /\ Take <= Len(Window)
         /\ Stored \in Seq(Byte) /\ Len(Stored) = Take
         /\ Rest \in Seq(Byte) /\ Len(Rest) < Lanes
<1>1. Take \in Nat /\ Take <= s.cnt /\ Take <= Lanes /\ Lanes \in Nat \ {0}
  <2>1. s.off + s.bp \in Nat /\ s.cnt \in Nat
    BY DEF RegsOk
  <2>2. Lanes \in Nat \ {0}
    BY ScsiConstants
  <2> QED BY <2>1, <2>2, TakeFacts DEF Take
<1>2. s.hold \in Seq(Byte) /\ s.beat \in Seq(Byte) /\ Len(s.hold) < Lanes /\ Len(s.hold) \in Nat
      /\ (NeedBeat => Len(s.beat) = Lanes)
  BY DEF RegsOk
<1>3. /\ Window \in Seq(Byte) /\ Take <= Len(Window) /\ Len(Window) \in Nat
      /\ Len(Window) - Take < Lanes
  <2>1. CASE NeedBeat
    <3>1. Window = s.hold \o s.beat
      BY <2>1 DEF Window
    <3>2. Window \in Seq(Byte) /\ Len(Window) = Len(s.hold) + Lanes
      <4>1. s.hold \o s.beat \in Seq(Byte) /\ Len(s.hold \o s.beat) = Len(s.hold) + Len(s.beat)
        BY <1>2, ConcatProperties
      <4> QED BY <4>1, <3>1, <2>1, <1>2
    <3> QED BY <3>2, <2>1, <1>1, <1>2 DEF NeedBeat
  <2>2. CASE ~NeedBeat
    <3>1. Window = s.hold
      BY <2>2 DEF Window
    <3> QED BY <3>1, <2>2, <1>1, <1>2 DEF NeedBeat
  <2> QED BY <2>1, <2>2
<1>4. Stored \in Seq(Byte) /\ Len(Stored) = Take
  BY <1>1, <1>3, SeqFacts DEF Stored
<1>5. Rest \in Seq(Byte) /\ Len(Rest) = Len(Window) - Take
  BY <1>1, <1>3, SeqFacts DEF Rest
<1> QED BY <1>1, <1>3, <1>4, <1>5

LEMMA ReadStoreStep ==
  ASSUME ChanOk, ChanEnv, Responded, SReadStore
  PROVE  ChanOk'
<1> USE HoldFields DEF ChanOk, ChanEnv
<1> DEFINE cnt == s.cnt - Take
           beat == IF NeedBeat THEN <<>> ELSE s.beat
           state == IF cnt = 0 THEN "S_NEXT" ELSE RdNext(s.off + s.bp + Take, cnt, Rest, beat)
<1>1. s.state = "S_R_STORE" /\ ~Quiet
  BY DEF SReadStore, Quiet
<1>2. s' = [Hold EXCEPT !.hold = Rest, !.beat = beat, !.bp = @ + Take, !.cnt = cnt, !.xfer = @ + Take,
                        !.state = state]
  BY DEF SReadStore
<1>3. /\ Take \in Nat /\ Take <= s.cnt /\ Rest \in Seq(Byte) /\ Len(Rest) < Lanes
      /\ s.cnt \in Nat /\ s.bp \in Nat /\ s.off \in Nat /\ s.xfer \in Nat
  BY <1>1, StoreFacts DEF RegsOk
<1>4. cnt \in Nat /\ beat \in Seq(Byte) /\ Len(beat) \in {0, Lanes}
  BY <1>3 DEF RegsOk
<1>5. /\ state \in {"S_NEXT", "S_R_NEED", "S_R_STORE", "S_R_FETCH"}
      /\ state = "S_R_STORE" => LineTake(s.off + s.bp + Take, cnt) <= Len(Rest) \/ beat # <<>>
      /\ state = "S_R_FETCH" => FetchOk
  BY DEF RdNext
<1> HIDE DEF cnt, beat, state
<1>6. /\ DOMAIN s' = DOMAIN s
      /\ s'.state = state /\ s'.nbdp = s.nbdp /\ s'.flags = s.flags
      /\ s'.off = s.off /\ s'.bp = s.bp + Take /\ s'.cnt = cnt /\ s'.dp = s.dp /\ s'.xfer = s.xfer + Take
      /\ s'.seq = s.seq /\ s'.fetch = s.fetch /\ s'.wptr = s.wptr /\ s'.cq_prod = s.cq_prod
      /\ s'.hold = Rest /\ s'.beat = beat /\ s'.gen_ok = Hold.gen_ok /\ s'.avail = Hold.avail
  BY <1>2 DEF RegsOk
<1>7. FetchedOk' /\ s'.avail \in Nat /\ (FetchOk => s'.gen_ok /\ s'.fetch # s'.avail)
  BY <1>1, <1>6, FetchKept
<1>8. Take' = LineTake(s.off + s.bp + Take, cnt) /\ Take' \in Nat
  <2>1. s'.off + s'.bp = s.off + s.bp + Take
    BY <1>3, <1>6
  <2>2. s.off + s.bp + Take \in Nat
    BY <1>3
  <2>3. LineTake(s.off + s.bp + Take, cnt) \in Nat
    BY <2>2, <1>4, TakeFacts
  <2>4. Take' = LineTake(s'.off + s'.bp, s'.cnt)
    BY DEF Take
  <2> QED BY <2>1, <2>3, <2>4, <1>6
<1>9. RegsOk'
  <2>1. NeedBeat' <=> LineTake(s.off + s.bp + Take, cnt) > Len(Rest)
    BY <1>6, <1>8 DEF NeedBeat
  <2>2. s'.state = "S_R_STORE" /\ NeedBeat' => s'.beat # <<>>
    BY <2>1, <1>3, <1>5, <1>6, <1>8
  <2>3. s'.bp \in Nat /\ s'.xfer \in Nat /\ s'.state \in SStates
    BY <1>3, <1>5, <1>6 DEF SStates
  <2> QED BY <2>2, <2>3, <1>3, <1>4, <1>5, <1>6, <1>7 DEF RegsOk
<1>10. RingOk'
  BY <1>1, <1>5, <1>6, RingKept
<1>11. CursorOk'
  BY <1>1, <1>3, <1>5, <1>6 DEF CursorOk, Responded, Settled, Quiet, cnt
<1> QED BY <1>7, <1>9, <1>10, <1>11, NoLoadOk

LEMMA WriteLoadStep ==
  ASSUME ChanOk, ChanEnv, Responded, SWriteLoad
  PROVE  ChanOk'
<1> USE HoldFields DEF ChanOk, ChanEnv
<1> DEFINE all == s.hold \o ld.bytes
           full == Len(all) >= Lanes
           beat == IF full THEN SubSeq(all, 1, Lanes) ELSE s.beat
           hold == IF full THEN SubSeq(all, Lanes + 1, Len(all)) ELSE all
           state == IF full THEN "S_W_DRAIN" ELSE IF s.cnt = Take THEN "S_NEXT" ELSE "S_W_LOAD"
<1>1. s.state = "S_W_LOAD" /\ ~Quiet /\ acc
  BY DEF SWriteLoad, Quiet, Responded, SReq
<1>2. s' = [Hold EXCEPT !.beat = beat, !.hold = hold, !.bp = @ + Take, !.cnt = @ - Take,
                        !.xfer = @ + Take, !.state = state]
  BY DEF SWriteLoad
<1>3. /\ s.off + s.bp \in Nat /\ s.cnt \in Nat /\ s.bp \in Nat /\ s.xfer \in Nat
      /\ s.hold \in Seq(Byte) /\ Len(s.hold) < Lanes /\ Len(s.hold) \in Nat
      /\ ld.bytes \in Seq(Byte) /\ Len(ld.bytes) = Take
  BY <1>1 DEF RegsOk, LoadOk
<1>4. Take \in Nat /\ Take <= s.cnt /\ Take <= Lanes /\ Lanes \in Nat \ {0}
  <2>1. Lanes \in Nat \ {0}
    BY ScsiConstants
  <2> QED BY <2>1, <1>3, TakeFacts DEF Take
<1>5. all \in Seq(Byte) /\ Len(all) = Len(s.hold) + Take /\ Len(all) \in Nat
  <2>1. s.hold \in Seq(Byte) /\ ld.bytes \in Seq(Byte)
    BY <1>3
  <2>2. s.hold \o ld.bytes \in Seq(Byte) /\ Len(s.hold \o ld.bytes) = Len(s.hold) + Len(ld.bytes)
    BY <2>1, SeqFacts
  <2> QED BY <2>2, <1>3, <1>4
<1> HIDE DEF all
<1>6. hold \in Seq(Byte) /\ Len(hold) < Lanes
  <2>1. CASE full
    <3>1. Lanes + 1 \in 1 .. Len(all) + 1 /\ Len(all) \in 0 .. Len(all) /\ Lanes + 1 <= Len(all) + 1
      BY <2>1, <1>4, <1>5
    <3>2. hold \in Seq(Byte) /\ Len(hold) = Len(all) - (Lanes + 1) + 1
      BY <3>1, <2>1, <1>5, SeqFacts
    <3> QED BY <3>2, <1>3, <1>4, <1>5
  <2>2. CASE ~full
    BY <2>2, <1>4, <1>5
  <2> QED BY <2>1, <2>2
<1>7. /\ beat \in Seq(Byte) /\ Len(beat) \in {0, Lanes}
      /\ full => beat # <<>>
  <2>1. CASE full
    <3>1. 1 \in 1 .. Len(all) + 1 /\ Lanes \in 0 .. Len(all) /\ 1 <= Lanes + 1
      BY <2>1, <1>4, <1>5
    <3>2. beat \in Seq(Byte) /\ Len(beat) = Lanes - 1 + 1
      BY <3>1, <2>1, <1>5, SeqFacts
    <3> QED BY <3>2, <1>4
  <2>2. CASE ~full
    BY <2>2 DEF RegsOk
  <2> QED BY <2>1, <2>2
<1>8. state \in {"S_NEXT", "S_W_LOAD", "S_W_DRAIN"} /\ (state = "S_W_DRAIN" => full)
  OBVIOUS
<1> HIDE DEF full, beat, hold, state
<1>9. /\ DOMAIN s' = DOMAIN s
      /\ s'.state = state /\ s'.nbdp = s.nbdp /\ s'.flags = s.flags
      /\ s'.off = s.off /\ s'.bp = s.bp + Take /\ s'.cnt = s.cnt - Take /\ s'.dp = s.dp
      /\ s'.xfer = s.xfer + Take
      /\ s'.seq = s.seq /\ s'.fetch = s.fetch /\ s'.wptr = s.wptr /\ s'.cq_prod = s.cq_prod
      /\ s'.hold = hold /\ s'.beat = beat /\ s'.gen_ok = Hold.gen_ok /\ s'.avail = Hold.avail
  BY <1>2 DEF RegsOk
<1>10. FetchedOk' /\ s'.avail \in Nat
  BY <1>1, <1>9, FetchKept
<1>11. RegsOk'
  <2>1. s'.bp \in Nat /\ s'.cnt \in Nat /\ s'.xfer \in Nat /\ s'.state \in SStates
    BY <1>3, <1>4, <1>8, <1>9 DEF SStates
  <2> QED BY <2>1, <1>6, <1>7, <1>8, <1>9, <1>10 DEF RegsOk
<1>12. RingOk'
  BY <1>1, <1>8, <1>9, RingKept
<1>13. CursorOk'
  BY <1>1, <1>3, <1>4, <1>8, <1>9 DEF CursorOk, Responded, Settled, Quiet
<1> QED BY <1>10, <1>11, <1>12, <1>13, NoLoadOk

LEMMA WriteDrainStep ==
  ASSUME ChanOk, ChanEnv, Responded, SWriteDrain
  PROVE  ChanOk'
<1> USE HoldFields DEF ChanOk, ChanEnv
<1>1. s.state = "S_W_DRAIN" /\ ~Quiet
  BY DEF SWriteDrain, Quiet
<1>2. /\ DOMAIN s' = DOMAIN s
      /\ s'.state = AfterDrain /\ s'.nbdp = s.nbdp /\ s'.flags = s.flags
      /\ s'.off = s.off /\ s'.bp = s.bp /\ s'.cnt = s.cnt /\ s'.dp = s.dp /\ s'.xfer = s.xfer
      /\ s'.seq = s.seq /\ s'.fetch = s.fetch /\ s'.cq_prod = s.cq_prod
      /\ s'.wptr = IF s.wptr = NBeats THEN s.wptr ELSE s.wptr + 1
      /\ s'.hold = s.hold /\ s'.beat = <<>> /\ s'.gen_ok = Hold.gen_ok /\ s'.avail = Hold.avail
  BY DEF SWriteDrain, RegsOk
<1>3. AfterDrain \in {"S_DONE", "S_NEXT", "S_W_LOAD"}
  BY DEF AfterDrain
<1>4. FetchedOk' /\ s'.avail \in Nat
  BY <1>1, <1>2, FetchKept
<1>5. s'.wptr \in 0 .. NBeats /\ NBeats \in Nat
  BY <1>2, ScsiConstants DEF RegsOk
<1>6. RegsOk'
  BY <1>2, <1>3, <1>4, <1>5 DEF RegsOk, SStates
<1>7. RingOk'
  BY <1>1, <1>2, <1>3, RingKept
<1>8. CursorOk'
  BY <1>1, <1>2, <1>3 DEF CursorOk, Responded, Settled, Quiet
<1> QED BY <1>4, <1>6, <1>7, <1>8, NoLoadOk

LEMMA PadFacts ==
  ASSUME NEW b \in Seq(Byte), Len(b) < Lanes
  PROVE  PadBeat(b) \in Seq(Byte) /\ Len(PadBeat(b)) = Lanes
<1> DEFINE p == [i \in 1 .. Lanes - Len(b) |-> Pad]
<1>1. Lanes \in Nat /\ Len(b) \in Nat /\ Lanes - Len(b) \in Nat
  BY ScsiConstants
<1>2. Pad \in Byte
  BY DEF Pad, Byte
<1>3. p \in Seq(Byte) /\ Len(p) = Lanes - Len(b)
  BY <1>1, <1>2
<1> HIDE DEF p
<1>4. b \o p \in Seq(Byte) /\ Len(b \o p) = Len(b) + Len(p)
  BY <1>3, ConcatProperties
<1>5. PadBeat(b) = b \o p
  BY DEF PadBeat, p
<1> QED BY <1>1, <1>3, <1>4, <1>5

LEMMA NextStep ==
  ASSUME ChanOk, ChanEnv, Responded, SNext
  PROVE  ChanOk'
<1> USE HoldFields DEF ChanOk, ChanEnv
<1> DEFINE end == s.eox \/ s.dp = 0 \/ s.ndesc = NdescMax
           tail == s.dir /\ s.hold # <<>>
<1>1. s.state = "S_NEXT" /\ ~Quiet
  BY DEF SNext, Quiet
<1>2. s' = CASE Cancel -> [Hold EXCEPT !.flags = "aborted", !.state = "S_CQ"]
             [] ~Cancel /\ end /\ tail ->
                  [Hold EXCEPT !.beat = PadBeat(s.hold), !.hold = <<>>, !.flush = TRUE,
                               !.state = "S_W_DRAIN"]
             [] ~Cancel /\ end /\ ~tail -> [Hold EXCEPT !.state = "S_DONE"]
             [] ~Cancel /\ ~end ->
                  [Hold EXCEPT !.nbdp = s.dp, !.ndesc = @ + 1, !.state = "S_DESC"]
  BY DEF SNext
<1>3. ~end => s.dp # 0
  OBVIOUS
<1>4. /\ DOMAIN s' = DOMAIN s
      /\ s'.off = s.off /\ s'.bp = s.bp /\ s'.cnt = s.cnt /\ s'.dp = s.dp /\ s'.xfer = s.xfer
      /\ s'.seq = s.seq /\ s'.fetch = s.fetch /\ s'.cq_prod = s.cq_prod /\ s'.wptr = s.wptr
      /\ s'.gen_ok = Hold.gen_ok /\ s'.avail = Hold.avail
  BY <1>2 DEF RegsOk
<1>5. \/ s'.state = "S_CQ" /\ s'.flags = "aborted" /\ s'.hold = s.hold /\ s'.beat = s.beat
      \/ /\ s'.state = "S_W_DRAIN" /\ s'.nbdp = s.nbdp /\ s'.hold = <<>> /\ s'.beat = PadBeat(s.hold)
      \/ s'.state = "S_DONE" /\ s'.nbdp = s.nbdp /\ s'.hold = s.hold /\ s'.beat = s.beat
      \/ s'.state = "S_DESC" /\ s.dp # 0 /\ s'.nbdp = s.dp /\ s'.hold = s.hold /\ s'.beat = s.beat
  BY <1>2, <1>3 DEF RegsOk
<1>6. FetchedOk' /\ s'.avail \in Nat
  BY <1>1, <1>4, FetchKept
<1>7. PadBeat(s.hold) \in Seq(Byte) /\ Len(PadBeat(s.hold)) = Lanes /\ Lanes \in Nat \ {0}
  BY PadFacts, ScsiConstants DEF RegsOk
<1>8. PadBeat(s.hold) # <<>>
  BY <1>7
<1>9. RegsOk'
  <2>1. s'.state \in SStates /\ s'.state # "S_R_STORE" /\ s'.state # "S_R_FETCH"
    BY <1>5 DEF SStates
  <2>2. /\ s'.hold \in Seq(Byte) /\ Len(s'.hold) < Lanes
        /\ s'.beat \in Seq(Byte) /\ Len(s'.beat) \in {0, Lanes}
        /\ s'.state = "S_W_DRAIN" => s'.beat # <<>>
    <3>1. CASE s'.hold = s.hold /\ s'.beat = s.beat /\ s'.state # "S_W_DRAIN"
      BY <3>1 DEF RegsOk
    <3>2. CASE s'.hold = <<>> /\ s'.beat = PadBeat(s.hold)
      BY <3>2, <1>7, <1>8
    <3> QED BY <3>1, <3>2, <1>5
  <2> QED BY <2>1, <2>2, <1>4, <1>6 DEF RegsOk
<1>10. RingOk'
  BY <1>1, <1>4, <1>5, RingKept
<1>11. CursorOk'
  <2>1. CASE s'.state = "S_CQ" /\ s'.flags = "aborted"
    BY <2>1 DEF CursorOk, Quiet
  <2>2. CASE s'.state \in {"S_W_DRAIN", "S_DONE"} /\ s'.nbdp = s.nbdp
    BY <2>2, <1>1, <1>4 DEF CursorOk, Responded, Settled, Quiet
  <2>3. CASE s'.state = "S_DESC" /\ s.dp # 0 /\ s'.nbdp = s.dp
    BY <2>3, <1>1, <1>4 DEF CursorOk, Responded, Settled, Quiet, ChainOk
  <2> QED BY <2>1, <2>2, <2>3, <1>5
<1> QED BY <1>6, <1>9, <1>10, <1>11, NoLoadOk

LEMMA DoneStep ==
  ASSUME ChanOk, ChanEnv, Responded, SDone
  PROVE  ChanOk'
<1> USE HoldFields DEF ChanOk, ChanEnv
<1>1. s.state = "S_DONE" /\ ~Quiet
  BY DEF SDone, Quiet
<1>2. /\ DOMAIN s' = DOMAIN s /\ s'.state = "S_CQ" /\ s'.flags = "done"
      /\ s'.off = s.off /\ s'.bp = s.bp /\ s'.cnt = s.cnt /\ s'.xfer = s.xfer
      /\ s'.seq = s.seq /\ s'.fetch = s.fetch /\ s'.cq_prod = s.cq_prod /\ s'.wptr = s.wptr
      /\ s'.hold = s.hold /\ s'.beat = s.beat /\ s'.gen_ok = Hold.gen_ok /\ s'.avail = Hold.avail
  BY DEF SDone, RegsOk
<1>3. FetchedOk' /\ s'.avail \in Nat
  BY <1>1, <1>2, FetchKept
<1>4. RegsOk'
  BY <1>2, <1>3 DEF RegsOk, SStates
<1>5. RingOk'
  BY <1>1, <1>2, RingKept
<1>6. CursorOk'
  BY <1>2 DEF CursorOk, Quiet
<1> QED BY <1>3, <1>4, <1>5, <1>6, NoLoadOk

LEMMA CqStep ==
  ASSUME ChanOk, ChanEnv, Responded, SCq
  PROVE  ChanOk'
<1> USE HoldFields DEF ChanOk, ChanEnv
<1>1. s.state = "S_CQ" /\ s'.state = (IF SReq THEN "S_IDX" ELSE "S_CQ")
  BY DEF SCq, RegsOk
<1>2. /\ DOMAIN s' = DOMAIN s /\ s'.flags = s.flags /\ s'.nbdp = s.nbdp /\ s'.dp = s.dp
      /\ s'.off = s.off /\ s'.bp = s.bp /\ s'.cnt = s.cnt /\ s'.xfer = s.xfer
      /\ s'.seq = s.seq /\ s'.fetch = s.fetch /\ s'.cq_prod = s.cq_prod /\ s'.wptr = s.wptr
      /\ s'.hold = s.hold /\ s'.beat = s.beat
      /\ (s'.gen_ok <=> s.gen_ok \/ (s.active /\ ~s.gen_ok /\ db.rd_seq = s.seq))
      /\ s'.avail = IF s.active /\ ~s.gen_ok /\ db.rd_seq = s.seq THEN db.rd_beats ELSE s.avail
  BY DEF SCq, RegsOk
<1>3. Quiet' <=> Quiet
  BY <1>1, <1>2 DEF Quiet
<1>4. RegsOk'
  BY <1>1, <1>2 DEF RegsOk, SStates, ServicerOk
<1>5. FetchedOk'
  BY <1>2, <1>3 DEF FetchedOk, Responded, host, ServicerOk
<1>6. RingOk'
  BY <1>1, <1>2 DEF RingOk, Responded, host, staging, SReq
<1>7. CursorOk'
  BY <1>1, <1>2, <1>3 DEF CursorOk, Responded, Settled
<1> QED BY <1>4, <1>5, <1>6, <1>7, NoLoadOk

LEMMA IdxStep ==
  ASSUME ChanOk, ChanEnv, Responded, SIdx
  PROVE  ChanOk'
<1> USE HoldFields DEF ChanOk, ChanEnv
<1>1. /\ s.state = "S_IDX" /\ acc
      /\ s'.state = IF s.flags = "starved" THEN "S_R_NEED" ELSE "S_IDLE"
  BY DEF SIdx, RegsOk, Responded, SReq
<1>2. /\ DOMAIN s' = DOMAIN s /\ s'.flags = s.flags /\ s'.nbdp = s.nbdp /\ s'.dp = s.dp
      /\ s'.off = s.off /\ s'.bp = s.bp /\ s'.cnt = s.cnt /\ s'.xfer = s.xfer
      /\ s'.seq = s.seq /\ s'.fetch = s.fetch /\ s'.cq_prod = s.cq_prod + 1 /\ s'.wptr = s.wptr
      /\ s'.hold = s.hold /\ s'.beat = s.beat
      /\ (s'.gen_ok <=> s.gen_ok \/ (s.active /\ ~s.gen_ok /\ db.rd_seq = s.seq))
      /\ s'.avail = IF s.active /\ ~s.gen_ok /\ db.rd_seq = s.seq THEN db.rd_beats ELSE s.avail
  BY DEF SIdx, RegsOk
<1>3. Quiet' <=> Quiet
  BY <1>1, <1>2 DEF Quiet
<1>4. RegsOk'
  BY <1>1, <1>2 DEF RegsOk, SStates, ServicerOk
<1>5. FetchedOk'
  BY <1>2, <1>3 DEF FetchedOk, Responded, host, ServicerOk
<1>6. RingOk'
  BY <1>1, <1>2 DEF RingOk, Responded, host, staging
<1>7. CursorOk'
  BY <1>1, <1>2, <1>3 DEF CursorOk, Responded, Settled
<1> QED BY <1>4, <1>5, <1>6, <1>7, NoLoadOk

\* One clock keeps the channel's part of the invariant, whatever the shim does in it.
LEMMA ChanStep ==
  ASSUME ChanOk, ChanEnv, NEW r, r => acc, SChan(r), UNCHANGED <<staging, host>>, Settled
  PROVE  ChanOk'
<1>1. CASE SReq /\ ~r
  <2>1. s' = Hold /\ UNCHANGED <<acc, ld>> /\ s.state # "S_IDLE"
    BY <1>1 DEF SChan, SReq
  <2> QED BY <2>1, HoldStep
<1>2. CASE ~(SReq /\ ~r)
  <2>1. Responded
    BY <1>2 DEF SChan, Responded
  <2>2. \/ SIdle \/ SDesc \/ SReadNeed \/ SReadFetch \/ SReadStore \/ SWriteLoad
        \/ SWriteDrain \/ SNext \/ SDone \/ SCq \/ SIdx
    BY <1>2 DEF SChan
  <2> QED BY <2>1, <2>2, IdleStep, DescStep, ReadNeedStep, ReadFetchStep, ReadStoreStep, WriteLoadStep,
             WriteDrainStep, NextStep, DoneStep, CqStep, IdxStep
<1> QED BY <1>1, <1>2
-----------------------------------------------------------------------------
(* The access at DRAM *)

\* a staged beat lies in the staging buffer
LEMMA BeatBounds ==
  ASSUME NEW x \in Nat, NEW y \in Nat, x < y, NEW l \in Nat
  PROVE  x * l \in Nat /\ (x + 1) * l = x * l + l /\ (x + 1) * l <= y * l /\ y * l \in Nat
<1>1. x * l \in Nat /\ y * l \in Nat
  OBVIOUS
<1>2. (x + 1) * l = x * l + l
  OBVIOUS
<1>3. y * l = (x + 1) * l + (y - (x + 1)) * l
  OBVIOUS
<1>4. (y - (x + 1)) * l \in Nat
  <2>1. y - (x + 1) \in Nat
    OBVIOUS
  <2> QED BY <2>1
<1> QED BY <1>1, <1>2, <1>3, <1>4

\* Chains with the same descriptors, whatever is in the buffers.
SameShape ==
  /\ DOMAIN chain' = 1 .. Len(chain') /\ Len(chain') = Len(chain)
  /\ \A i \in 1 .. Len(chain) :
       IsDesc(chain'[i]) /\ chain'[i].off = chain[i].off /\ chain'[i].cnt = chain[i].cnt

LEMMA StoreShape ==
  ASSUME ChanOk, ChainOk, s.state = "S_R_STORE",
         chain' = [chain EXCEPT ![s.nbdp].buf =
             [i \in 1 .. Len(@) |->
                IF i - s.bp \in 1 .. Take THEN Stored[i - s.bp] ELSE @[i]]]
  PROVE  SameShape
<1> DEFINE b == chain[s.nbdp].buf
           buf == [i \in 1 .. Len(b) |-> IF i - s.bp \in 1 .. Take THEN Stored[i - s.bp] ELSE b[i]]
<1>1. s.nbdp \in 1 .. Len(chain)
  BY DEF CursorOk, Quiet, ChanOk
<1>2. DOMAIN chain = 1 .. Len(chain) /\ Len(chain) \in Nat /\ \A i \in 1 .. Len(chain) : IsDesc(chain[i])
  BY DEF ChainOk
<1>3. chain' = [chain EXCEPT ![s.nbdp].buf = buf]
  OBVIOUS
<1>4. IsDesc(chain[s.nbdp])
  BY <1>1, <1>2
<1>5. b \in Seq(Byte) /\ Len(b) \in Nat
  BY <1>4 DEF IsDesc
<1>6. Stored \in Seq(Byte) /\ Len(Stored) = Take /\ Take \in Nat
  BY StoreFacts DEF ChanOk
<1>7. buf \in Seq(Byte) /\ Len(buf) = Len(b)
  <2>1. \A i \in 1 .. Len(b) : buf[i] \in Byte
    <3>1. \A j \in 1 .. Take : Stored[j] \in Byte
      BY <1>6
    <3>2. \A j \in 1 .. Len(b) : b[j] \in Byte
      BY <1>5
    <3> QED BY <3>1, <3>2
  <2>2. buf \in [1 .. Len(b) -> Byte]
    BY <2>1
  <2> HIDE DEF buf
  <2> QED BY <2>2, <1>5
<1> HIDE DEF buf, b
<1>8. /\ DOMAIN chain' = DOMAIN chain /\ \A i \in DOMAIN chain : i # s.nbdp => chain'[i] = chain[i]
      /\ chain'[s.nbdp] = [chain[s.nbdp] EXCEPT !.buf = buf]
  BY <1>1, <1>2, <1>3
<1>9. /\ DOMAIN chain'[s.nbdp] = {"off", "cnt", "buf"} /\ chain'[s.nbdp].buf = buf
      /\ chain'[s.nbdp].off = chain[s.nbdp].off /\ chain'[s.nbdp].cnt = chain[s.nbdp].cnt
  BY <1>4, <1>8 DEF IsDesc
<1>10. IsDesc(chain'[s.nbdp])
  BY <1>4, <1>7, <1>9 DEF IsDesc, b
<1>11. Len(chain') = Len(chain)
  BY <1>2, <1>8
<1> QED BY <1>2, <1>8, <1>9, <1>10, <1>11 DEF SameShape

LEMMA MemStep ==
  ASSUME ChanOk, ChanEnv, DriverOk, Mem
  PROVE  ChanOk' /\ ChainOk' /\ StagingOk'
<1> USE DEF ChanOk, ChanEnv
<1>1. /\ s' = s /\ db' = db /\ g' = g /\ acc' = TRUE /\ ~acc /\ SReq
  BY DEF Mem, host
<1>2. (Quiet' <=> Quiet) /\ Take' = Take /\ NeedBeat' = NeedBeat
  BY <1>1 DEF Quiet, Take, NeedBeat
<1>3. RegsOk' /\ FetchedOk'
  BY <1>1, <1>2 DEF RegsOk, FetchedOk
<1>4. SameShape
  <2>1. CASE chain' = chain
    BY <2>1 DEF SameShape, ChainOk
  <2>2. CASE s.state = "S_R_STORE"
    BY <2>2, StoreShape DEF Mem
  <2> QED BY <2>1, <2>2 DEF Mem
<1>5. ChainOk'
  BY <1>1, <1>4 DEF ChainOk, SameShape
<1>6. RingOk'
  <2>1. CASE s.state = "S_IDX"
    <3>1. cqprod' = s.cq_prod + 1
      BY <2>1 DEF Mem
    <3>2. NCq \in Nat
      BY ScsiConstants
    <3> QED BY <3>1, <3>2, <2>1, <1>1 DEF RingOk
  <2>2. CASE s.state # "S_IDX"
    <3>1. cqprod' = cqprod
      BY <2>2 DEF Mem, staging
    <3> QED BY <3>1, <2>2, <1>1 DEF RingOk
  <2> QED BY <2>1, <2>2
<1>7. StagingOk'
  <2>1. rdbuf' = rdbuf
    BY DEF Mem, staging
  <2>2. CASE s.state = "S_CQ"
    <3> DEFINE e == [seq |-> s.seq, flags |-> s.flags, bytes |-> s.xfer]
    <3>1. cq' = [cq EXCEPT ![s.cq_prod % NCq] = e]
      BY <2>2 DEF Mem
    <3>2. e.bytes \in Nat
      BY DEF RegsOk
    <3> HIDE DEF e
    <3> QED BY <3>1, <3>2, <2>1, <1>1 DEF StagingOk
  <2>3. CASE s.state # "S_CQ"
    <3>1. cq' = cq
      BY <2>3 DEF Mem, staging
    <3> QED BY <3>1, <2>1, <1>1 DEF StagingOk
  <2> QED BY <2>2, <2>3
<1>8. LoadOk'
  <2>1. CASE s.state = "S_R_FETCH"
    <3> DEFINE bytes == SubSeq(rdbuf, s.fetch * Lanes + 1, (s.fetch + 1) * Lanes)
    <3>1. ld' = [ld EXCEPT !.bytes = bytes]
      BY <2>1 DEF Mem
    <3>2. s.fetch \in Nat /\ s.avail \in Nat /\ s.fetch < s.avail /\ s.avail = db.rd_beats
      BY <2>1 DEF RegsOk, FetchedOk, Quiet
    <3>3. Lanes \in Nat
      BY ScsiConstants
    <3>4. /\ s.fetch * Lanes \in Nat /\ (s.fetch + 1) * Lanes = s.fetch * Lanes + Lanes
          /\ (s.fetch + 1) * Lanes <= s.avail * Lanes /\ s.avail * Lanes \in Nat
      BY <3>2, <3>3, BeatBounds
    <3>5. rdbuf \in Seq(Byte) /\ Len(rdbuf) = s.avail * Lanes
      BY <3>2 DEF StagingOk
    <3>6. /\ s.fetch * Lanes + 1 \in 1 .. Len(rdbuf) + 1 /\ (s.fetch + 1) * Lanes \in 0 .. Len(rdbuf)
          /\ s.fetch * Lanes + 1 <= (s.fetch + 1) * Lanes + 1
      BY <3>3, <3>4, <3>5
    <3>7. bytes \in Seq(Byte) /\ Len(bytes) = (s.fetch + 1) * Lanes - (s.fetch * Lanes + 1) + 1
      BY <3>5, <3>6, SeqFacts
    <3>8. bytes \in Seq(Byte) /\ Len(bytes) = Lanes
      BY <3>3, <3>4, <3>7
    <3> HIDE DEF bytes
    <3> QED BY <3>1, <3>8, <2>1, <1>1 DEF LoadOk
  <2>2. CASE s.state = "S_W_LOAD"
    <3> DEFINE b == chain[s.nbdp].buf
               bytes == SubSeq(b, s.bp + 1, s.bp + Take)
    <3>1. ld' = [ld EXCEPT !.bytes = bytes]
      BY <2>2 DEF Mem
    <3>2. s.nbdp \in 1 .. Len(chain) /\ s.bp + s.cnt = chain[s.nbdp].cnt
      BY <2>2 DEF CursorOk, Quiet
    <3>3. b \in Seq(Byte) /\ Len(b) = s.bp + s.cnt
      BY <3>2 DEF ChainOk, IsDesc
    <3>4. s.bp \in Nat /\ s.cnt \in Nat /\ s.off + s.bp \in Nat
      BY DEF RegsOk
    <3>5. Take \in Nat /\ Take <= s.cnt
      BY <3>4, TakeFacts DEF Take
    <3> HIDE DEF b
    <3> DEFINE m == s.bp + 1
               n == s.bp + Take
    <3>6. m \in 1 .. Len(b) + 1 /\ n \in 0 .. Len(b) /\ m <= n + 1 /\ n - m + 1 = Take
      BY <3>3, <3>4, <3>5
    <3> HIDE DEF m, n
    <3>7. SubSeq(b, m, n) \in Seq(Byte) /\ Len(SubSeq(b, m, n)) = n - m + 1
      BY <3>3, <3>6, SeqFacts
    <3>8. bytes \in Seq(Byte) /\ Len(bytes) = Take
      BY <3>6, <3>7 DEF m, n
    <3> HIDE DEF bytes
    <3> QED BY <3>1, <3>8, <2>2, <1>1, <1>2 DEF LoadOk
  <2>3. CASE s.state = "S_DESC"
    <3> DEFINE d == [off |-> chain[s.nbdp].off, cnt |-> chain[s.nbdp].cnt, eox |-> s.nbdp = Len(chain),
                     dp |-> (s.nbdp + 1) % (Len(chain) + 1)]
    <3>1. ld' = [ld EXCEPT !.desc = d]
      BY <2>3 DEF Mem
    <3>2. DOMAIN d = {"off", "cnt", "eox", "dp"}
      OBVIOUS
    <3> HIDE DEF d
    <3> QED BY <3>1, <3>2, <2>3, <1>1 DEF LoadOk
  <2>4. CASE s.state \notin {"S_R_FETCH", "S_W_LOAD", "S_DESC"}
    <3>1. ld' = ld
      BY <2>4 DEF Mem
    <3> QED BY <3>1, <2>4, <1>1 DEF LoadOk
  <2> QED BY <2>1, <2>2, <2>3, <2>4
<1>9. CursorOk'
  <2>1. CASE s.state = "S_DESC"
    <3> DEFINE d == [off |-> chain[s.nbdp].off, cnt |-> chain[s.nbdp].cnt, eox |-> s.nbdp = Len(chain),
                     dp |-> (s.nbdp + 1) % (Len(chain) + 1)]
    <3>1. ld' = [ld EXCEPT !.desc = d] /\ chain' = chain
      BY <2>1 DEF Mem
    <3>2. s.nbdp \in 1 .. Len(chain) /\ Len(chain) \in Nat
      BY <2>1 DEF CursorOk, Quiet, ChainOk
    <3>3. d.off = chain[s.nbdp].off /\ d.cnt = chain[s.nbdp].cnt /\ d.dp \in 0 .. Len(chain)
      BY <3>2
    <3> HIDE DEF d
    <3>4. ld'.desc = d
      BY <3>1 DEF LoadOk
    <3> QED BY <3>1, <3>2, <3>3, <3>4, <2>1, <1>1 DEF CursorOk
  <2>2. CASE s.state # "S_DESC"
    BY <2>2, <1>1, <1>2, <1>4 DEF CursorOk, SameShape
  <2> QED BY <2>1, <2>2
<1> QED BY <1>3, <1>5, <1>6, <1>7, <1>8, <1>9
-----------------------------------------------------------------------------
(* One clock of the shim *)

LEMMA ShimFields ==
  ASSUME ShimOk, NEW m, NEW tick, ShimStep(m, tick)
  PROVE  /\ DOMAIN sh' = DOMAIN sh /\ sh'.ph = Phase(m, tick)
         /\ sh'.req_seq = IF m.op = "seltx" THEN sh.req_seq + 1 ELSE sh.req_seq
         /\ sh'.done_seq = IF Complete THEN sh.req_seq ELSE sh.done_seq
         /\ sh'.cdb = IF m.op = "cdb" THEN m.val ELSE sh.cdb
         /\ sh'.req_cdb = IF m.op = "seltx" THEN sh.cdb ELSE sh.req_cdb
         /\ sh'.status = IF Complete THEN rsp.status ELSE IF m.op = "reset" THEN "reset" ELSE sh.status
         /\ sh'.dir = (IF m.op = "ctrl" /\ ~Complete THEN m.dir ELSE sh.dir)
         /\ (sh'.bsy <=> ~Complete /\ (m.op = "seltx" \/ (m.op # "reset" /\ sh.bsy)))
         /\ (sh'.intrq <=> Complete \/ m.op = "reset" \/ (m.op # "status" /\ sh.intrq))
<1> DEFINE w == Written(m)
           c == Completed(w)
<1>1. DOMAIN sh = {"ph", "cdb", "bsy", "intrq", "status", "phase", "active", "dir", "req_seq",
                   "done_seq", "req_cdb"}
  BY DEF ShimOk
<1>2. /\ DOMAIN w = DOMAIN sh
      /\ w.req_seq = IF m.op = "seltx" THEN sh.req_seq + 1 ELSE sh.req_seq
      /\ w.done_seq = sh.done_seq
      /\ w.cdb = IF m.op = "cdb" THEN m.val ELSE sh.cdb
      /\ w.req_cdb = IF m.op = "seltx" THEN sh.cdb ELSE sh.req_cdb
      /\ w.status = (IF m.op = "reset" THEN "reset" ELSE sh.status)
      /\ w.dir = (IF m.op = "ctrl" THEN m.dir ELSE sh.dir)
      /\ (w.bsy <=> m.op = "seltx" \/ (m.op # "reset" /\ sh.bsy))
      /\ (w.intrq <=> m.op = "reset" \/ (m.op # "status" /\ sh.intrq))
  BY <1>1 DEF Written
<1> HIDE DEF w
<1>3. /\ DOMAIN c = DOMAIN sh /\ c.req_seq = w.req_seq /\ c.cdb = w.cdb /\ c.req_cdb = w.req_cdb
      /\ c.done_seq = (IF Complete THEN sh.req_seq ELSE w.done_seq)
      /\ c.status = (IF Complete THEN rsp.status ELSE w.status)
      /\ c.dir = (IF Complete THEN sh.dir ELSE w.dir)
      /\ (c.bsy <=> ~Complete /\ w.bsy) /\ (c.intrq <=> Complete \/ w.intrq)
  BY <1>1, <1>2 DEF Completed
<1>4. sh' = [c EXCEPT !.ph = Phase(m, tick)]
  BY DEF ShimStep, w
<1> HIDE DEF c
<1> QED BY <1>1, <1>2, <1>3, <1>4

\* what the driver and the shim know before a clock in which the guest does m
GuestEnv(m) ==
  m.op \in {"seltx", "reset", "ctrl"} => ~sh.bsy /\ sh.req_seq = sh.done_seq

LEMMA HandshakeStep ==
  ASSUME ShimOk, Handshake, Moved, NEW m, NEW tick, GuestEnv(m), ShimStep(m, tick)
  PROVE  ShimOk' /\ Handshake'
<1>1. sh.ph = "PH_IDLE" \/ (m.op # "seltx" /\ m.op # "reset" /\ sh.bsy /\ sh'.bsy /\ sh'.req_seq = sh.req_seq)
  BY ShimFields DEF ShimOk, GuestEnv, Complete
<1>2. sh'.ph = Phase(m, tick) /\ sh'.req_seq \in Nat /\ sh'.done_seq \in Nat /\ DOMAIN sh' = DOMAIN sh
  BY ShimFields DEF ShimOk
<1>3. sh.ph \in Phases /\ Phase(m, tick) \in Phases
  BY DEF ShimOk, Phases, Phase
<1>4. ShimOk'
  <2>1. sh'.ph # "PH_IDLE" => sh'.bsy
    <3>1. CASE sh.ph = "PH_IDLE"
      BY <3>1, <1>2, ShimFields DEF Phase, GuestEnv, Complete
    <3> QED BY <3>1, <1>1
  <2> QED BY <2>1, <1>2, <1>3 DEF ShimOk
<1>5. CASE sh.ph # "PH_BUSY"
  <2>1. Quiet /\ ~s.go /\ ~s.done
    BY <1>5 DEF Handshake
  <2>2. Quiet' /\ ~s'.done /\ (s'.go <=> Go) /\ (Go => s'.go_seq = sh.req_seq)
    BY <2>1 DEF Moved, Quiet
  <2>3. Go => sh'.ph = "PH_BUSY" /\ sh'.req_seq = sh.req_seq
    BY <1>1, <1>2 DEF Go, Phase
  <2> QED BY <2>2, <2>3, <1>4 DEF Handshake
<1>6. CASE sh.ph = "PH_BUSY"
  <2>1. ~Go /\ sh'.req_seq = sh.req_seq
    BY <1>1, <1>6 DEF Go
  <2>2. sh'.ph = IF s.done \/ Abort THEN "PH_IDLE" ELSE "PH_BUSY"
    BY <1>2, <1>6 DEF Phase
  <2>3. CASE s.done
    <3>1. Quiet /\ ~s.go /\ s.state = "S_CQ"
      BY <2>3 DEF Handshake, Quiet
    <3> QED BY <3>1, <2>1, <1>4 DEF Handshake, Moved
  <2>4. CASE Abort
    <3>1. ~Quiet /\ s.state = "S_R_NEED"
      BY <2>4 DEF Abort, RdStalled, Quiet
    <3>2. Quiet' /\ ~s'.go /\ ~s'.done
      BY <3>1, <2>1, <2>4 DEF Moved, Handshake
    <3> QED BY <3>2, <1>4 DEF Handshake
  <2>5. CASE ~s.done /\ ~Abort
    <3>1. sh'.ph = "PH_BUSY"
      BY <2>2, <2>5
    <3>2. s'.done => s'.state = "S_CQ" /\ s'.flags = "done"
      BY DEF Moved
    <3>3. s'.go => Quiet' /\ ~s'.done /\ s'.go_seq = sh'.req_seq
      BY <2>1 DEF Moved, Handshake, Quiet
    <3>4. ~Quiet' => s'.seq = sh'.req_seq
      BY <2>1 DEF Moved, Handshake
    <3> QED BY <3>1, <3>2, <3>3, <3>4, <1>4 DEF Handshake
  <2> QED BY <2>3, <2>4, <2>5
<1> QED BY <1>5, <1>6

LEMMA InvEnv ==
  ASSUME Inv
  PROVE  ChanOk /\ ChanEnv
<1>1. s.go => Len(chain) > 0
  <2> SUFFICES ASSUME s.go PROVE Len(chain) > 0
    OBVIOUS
  <2>1. sh.bsy
    BY DEF Inv, Handshake, ShimOk
  <2>2. g.pc = "wait"
    BY <2>1 DEF Inv, DriverOk
  <2> QED BY <2>2 DEF Inv, ChainOk
<1> QED BY <1>1 DEF Inv, ChanOk, ChanEnv

\* With no command at work the channel stays away from the guest's memory.
LEMMA StaysQuiet ==
  ASSUME Inv, NEW r, SChan(r), ~sh.bsy
  PROVE  Quiet /\ Quiet' /\ sh.ph = "PH_IDLE"
<1>1. Moved
  BY ChanMoves DEF Inv
<1> QED BY <1>1 DEF Inv, ShimOk, Handshake, Moved

\* A clock keeps all that is not about the driver and its memory.
LEMMA ClockStep ==
  ASSUME Inv, NEW m, NEW r, NEW tick, GuestEnv(m), Clock(m, r, tick), Settled
  PROVE  /\ ShimOk' /\ Handshake' /\ ServicerOk' /\ StagingOk' /\ RingOk'
         /\ RegsOk' /\ FetchedOk' /\ LoadOk' /\ CursorOk'
<1>1. SChan(r) /\ (r => acc) /\ ShimStep(m, tick) /\ UNCHANGED <<staging, host>>
  BY DEF Clock
<1>2. ChanOk /\ ChanEnv
  BY InvEnv
<1>3. ChanOk'
  BY <1>1, <1>2, ChanStep
<1>4. Moved
  BY <1>1, ChanMoves DEF Inv
<1>5. ShimOk' /\ Handshake'
  BY <1>1, <1>4, HandshakeStep DEF Inv
<1>6. StagingOk'
  BY <1>1 DEF Inv, StagingOk, staging, host
<1>7. ServicerOk'
  <2>1. a' = a /\ db' = db /\ rsp' = rsp
    BY <1>1 DEF host
  <2>2. /\ sh'.req_seq = IF m.op = "seltx" THEN sh.req_seq + 1 ELSE sh.req_seq
        /\ sh'.done_seq = IF Complete THEN sh.req_seq ELSE sh.done_seq
    BY <1>1, ShimFields DEF Inv
  <2>3. CASE m.op = "seltx"
    <3>1. sh.req_seq = sh.done_seq /\ ~Complete
      BY <2>3 DEF GuestEnv, Complete
    <3>2. a.pc = "idle" /\ sh.req_seq \in Nat
      BY <3>1 DEF Inv, ServicerOk, ShimOk
    <3> QED BY <3>1, <3>2, <2>1, <2>2, <2>3 DEF Inv, ServicerOk
  <2>4. CASE m.op # "seltx"
    <3>1. sh'.req_seq = sh.req_seq /\ (sh'.req_seq = sh'.done_seq => rsp.seq = sh.req_seq)
      BY <2>2, <2>4 DEF Inv, ServicerOk, Complete
    <3> QED BY <3>1, <2>1 DEF Inv, ServicerOk
  <2> QED BY <2>3, <2>4
<1> QED BY <1>3, <1>5, <1>6, <1>7 DEF ChanOk

\* A clock in which the guest does nothing
LEMMA InvIdle ==
  ASSUME Inv, NEW r, NEW tick, Idle(r, tick)
  PROVE  Inv'
<1>1. GuestEnv(NoMmio) /\ Clock(NoMmio, r, tick) /\ Settled /\ UNCHANGED <<g, cmds, chain>> /\ NoMmio.op = "none"
  BY DEF GuestEnv, NoMmio, Idle, Settled
<1>2. /\ ShimOk' /\ Handshake' /\ ServicerOk' /\ StagingOk' /\ RingOk'
      /\ RegsOk' /\ FetchedOk' /\ LoadOk' /\ CursorOk'
  BY <1>1, ClockStep
<1>3. ShimStep(NoMmio, tick)
  BY <1>1 DEF Clock
<1>4. /\ sh'.req_seq = sh.req_seq /\ sh'.cdb = sh.cdb /\ sh'.req_cdb = sh.req_cdb
      /\ sh'.done_seq = IF Complete THEN sh.req_seq ELSE sh.done_seq
      /\ sh'.status = (IF Complete THEN rsp.status ELSE sh.status)
      /\ (sh'.bsy <=> ~Complete /\ sh.bsy) /\ (sh'.intrq <=> Complete \/ sh.intrq)
  BY <1>1, <1>3, ShimFields DEF Inv
<1>5. CommandOk' /\ ChainOk'
  BY <1>1, <1>4 DEF Inv, CommandOk, ChainOk
<1>6. DriverOk'
  BY <1>1, <1>4 DEF Inv, DriverOk, Complete
<1> QED BY <1>2, <1>5, <1>6 DEF Inv

LEMMA InvCommand ==
  ASSUME Inv, NEW c \in Commands, NEW r, GuestCommand(c, r)
  PROVE  Inv'
<1> DEFINE m == [op |-> "cdb", val |-> Len(cmds) + 1]
<1>1. /\ Clock(m, r, FALSE) /\ chain' = chain /\ cmds' = Append(cmds, c) /\ g.pc = "idle"
      /\ g' = [g EXCEPT !.pc = "dma", !.past = <<>>]
  BY DEF GuestCommand
<1>2. m.op = "cdb" /\ m.val = Len(cmds) + 1
  OBVIOUS
<1> HIDE DEF m
<1>3. GuestEnv(m) /\ Settled
  BY <1>1, <1>2 DEF GuestEnv, Settled
<1>4. /\ ShimOk' /\ Handshake' /\ ServicerOk' /\ StagingOk' /\ RingOk'
      /\ RegsOk' /\ FetchedOk' /\ LoadOk' /\ CursorOk'
  BY <1>1, <1>3, ClockStep
<1>5. ~sh.bsy /\ ~sh.intrq /\ sh.req_seq = sh.done_seq /\ ~Complete
  BY <1>1 DEF Inv, DriverOk, Complete
<1>6. /\ sh'.req_seq = sh.req_seq /\ sh'.cdb = Len(cmds) + 1 /\ sh'.req_cdb = sh.req_cdb
      /\ sh'.done_seq = sh.done_seq /\ ~sh'.bsy /\ ~sh'.intrq
  BY <1>1, <1>2, <1>5, ShimFields DEF Inv, Clock
<1>7. g'.pc = "dma" /\ g'.past = <<>> /\ DOMAIN g' = {"pc", "past"}
  BY <1>1 DEF Inv, DriverOk
<1>8. DriverOk'
  BY <1>5, <1>6, <1>7 DEF DriverOk
<1>9. cmds' \in Seq(Commands) /\ Len(cmds') = Len(cmds) + 1 /\ Len(cmds) \in Nat
  BY <1>1 DEF Inv, CommandOk
<1>10. CommandOk'
  BY <1>6, <1>7, <1>9 DEF Inv, CommandOk
<1>11. ChainOk'
  BY <1>1, <1>7 DEF Inv, ChainOk
<1> QED BY <1>4, <1>8, <1>10, <1>11 DEF Inv

LEMMA InvSelect ==
  ASSUME Inv, NEW r, GuestSelect(r)
  PROVE  Inv'
<1> DEFINE m == [op |-> "seltx"]
<1>1. /\ Clock(m, r, FALSE) /\ chain' = chain /\ cmds' = cmds /\ g.pc = "cmd"
      /\ g' = [g EXCEPT !.pc = "wait"]
  BY DEF GuestSelect
<1>2. m.op = "seltx"
  OBVIOUS
<1> HIDE DEF m
<1>3. ~sh.bsy /\ ~sh.intrq /\ sh.req_seq = sh.done_seq /\ ~Complete
  BY <1>1 DEF Inv, DriverOk, Complete
<1>4. GuestEnv(m) /\ Settled
  BY <1>1, <1>3 DEF GuestEnv, Settled
<1>5. /\ ShimOk' /\ Handshake' /\ ServicerOk' /\ StagingOk' /\ RingOk'
      /\ RegsOk' /\ FetchedOk' /\ LoadOk' /\ CursorOk'
  BY <1>1, <1>4, ClockStep
<1>6. /\ sh'.req_seq = sh.req_seq + 1 /\ sh'.cdb = sh.cdb /\ sh'.req_cdb = sh.cdb
      /\ sh'.done_seq = sh.done_seq /\ sh'.bsy /\ ~sh'.intrq /\ sh.req_seq \in Nat
  BY <1>1, <1>2, <1>3, ShimFields DEF Inv, Clock, ShimOk
<1>7. g'.pc = "wait" /\ g'.past = g.past /\ DOMAIN g' = {"pc", "past"}
  BY <1>1 DEF Inv, DriverOk
<1>8. DriverOk'
  BY <1>3, <1>6, <1>7 DEF Inv, DriverOk
<1>9. CommandOk'
  BY <1>1, <1>6, <1>7 DEF Inv, CommandOk
<1>10. ChainOk'
  BY <1>1, <1>7 DEF Inv, ChainOk
<1> QED BY <1>5, <1>8, <1>9, <1>10 DEF Inv

LEMMA InvReset ==
  ASSUME Inv, NEW r, GuestReset(r)
  PROVE  Inv'
<1> DEFINE m == [op |-> "reset"]
<1>1. /\ Clock(m, r, FALSE) /\ chain' = chain /\ cmds' = cmds /\ g.pc = "idle"
      /\ g' = [g EXCEPT !.pc = "reset"]
  BY DEF GuestReset
<1>2. m.op = "reset"
  OBVIOUS
<1> HIDE DEF m
<1>3. ~sh.bsy /\ ~sh.intrq /\ sh.req_seq = sh.done_seq /\ ~Complete
  BY <1>1 DEF Inv, DriverOk, Complete
<1>4. GuestEnv(m) /\ Settled
  BY <1>1, <1>3 DEF GuestEnv, Settled
<1>5. /\ ShimOk' /\ Handshake' /\ ServicerOk' /\ StagingOk' /\ RingOk'
      /\ RegsOk' /\ FetchedOk' /\ LoadOk' /\ CursorOk'
  BY <1>1, <1>4, ClockStep
<1>6. /\ sh'.req_seq = sh.req_seq /\ sh'.cdb = sh.cdb /\ sh'.req_cdb = sh.req_cdb
      /\ sh'.done_seq = sh.done_seq /\ ~sh'.bsy /\ sh'.intrq /\ sh'.status = "reset"
  BY <1>1, <1>2, <1>3, ShimFields DEF Inv, Clock
<1>7. g'.pc = "reset" /\ g'.past = g.past /\ DOMAIN g' = {"pc", "past"}
  BY <1>1 DEF Inv, DriverOk
<1>8. DriverOk'
  BY <1>3, <1>6, <1>7 DEF Inv, DriverOk
<1>9. CommandOk'
  BY <1>1, <1>6, <1>7 DEF Inv, CommandOk
<1>10. ChainOk'
  BY <1>1, <1>7 DEF Inv, ChainOk
<1> QED BY <1>5, <1>8, <1>9, <1>10 DEF Inv

LEMMA InvIsr ==
  ASSUME Inv, NEW r, GuestIsr(r)
  PROVE  Inv'
<1> DEFINE m == [op |-> "status"]
           more == sh.status = "pause"
           pc == IF more THEN "paused" ELSE "idle"
           past == IF more THEN g.past \o Bytes(chain) ELSE <<>>
<1>1. /\ Clock(m, r, FALSE) /\ chain' = <<>> /\ cmds' = cmds /\ g.pc \in {"wait", "reset"} /\ sh.intrq
      /\ g' = [g EXCEPT !.pc = pc, !.past = past]
  BY DEF GuestIsr
<1>2. m.op = "status"
  OBVIOUS
<1> HIDE DEF m
<1>3. ~sh.bsy /\ sh.req_seq = sh.done_seq /\ ~Complete
  BY <1>1 DEF Inv, DriverOk, Complete
<1>4. GuestEnv(m) /\ Settled
  BY <1>1, <1>2, <1>3, StaysQuiet DEF GuestEnv, Settled, Clock
<1>5. /\ ShimOk' /\ Handshake' /\ ServicerOk' /\ StagingOk' /\ RingOk'
      /\ RegsOk' /\ FetchedOk' /\ LoadOk' /\ CursorOk'
  BY <1>1, <1>4, ClockStep
<1>6. /\ sh'.req_seq = sh.req_seq /\ sh'.cdb = sh.cdb /\ sh'.req_cdb = sh.req_cdb
      /\ sh'.done_seq = sh.done_seq /\ ~sh'.bsy /\ ~sh'.intrq
  BY <1>1, <1>2, <1>3, ShimFields DEF Inv, Clock
<1>7. past \in Seq(Byte)
  <2>1. Bytes(chain) = BytesTo(chain, Len(chain)) /\ Len(chain) \in Nat
    BY DEF Bytes, BytesTo, Inv, ChainOk
  <2>2. \A i \in 1 .. Len(chain) : /\ chain[i].cnt \in Nat /\ chain[i].buf \in Seq(Byte)
                                   /\ Len(chain[i].buf) = chain[i].cnt
    BY DEF Inv, ChainOk, IsDesc
  <2>3. Bytes(chain) \in Seq(Byte)
    BY <2>1, <2>2, BytesType
  <2>4. g.past \in Seq(Byte)
    BY DEF Inv, DriverOk
  <2>5. g.past \o Bytes(chain) \in Seq(Byte)
    BY <2>3, <2>4, SeqFacts
  <2> QED BY <2>5
<1> HIDE DEF past
<1>8. g'.pc \in {"paused", "idle"} /\ g'.past = past /\ DOMAIN g' = {"pc", "past"}
  BY <1>1 DEF Inv, DriverOk
<1>9. DriverOk'
  BY <1>3, <1>6, <1>7, <1>8 DEF Inv, DriverOk
<1>10. CommandOk'
  <2>1. g'.pc = "paused" => g.pc = "wait"
    BY <1>1 DEF Inv, DriverOk
  <2> QED BY <2>1, <1>1, <1>6, <1>8 DEF Inv, CommandOk
<1>11. ChainOk'
  BY <1>1, <1>8 DEF Inv, ChainOk
<1> QED BY <1>5, <1>9, <1>10, <1>11 DEF Inv

\* n bytes of a command's data
LEMMA DataFacts ==
  ASSUME NEW k \in Nat, NEW from \in Nat, NEW n \in Nat
  PROVE  /\ Data(k, from, from + n) \in Seq(Byte) /\ Len(Data(k, from, from + n)) = n
         /\ \A j \in 1 .. n : Data(k, from, from + n)[j] = <<k, from + j>>
<1> DEFINE d == Data(k, from, from + n)
<1>1. from + n - from = n
  OBVIOUS
<1>2. d = [j \in 1 .. from + n - from |-> <<k, from + j>>]
  BY DEF Data
<1>3. DOMAIN d = 1 .. from + n - from
  BY <1>2
<1>4. DOMAIN d = 1 .. n
  BY <1>1, <1>3
<1>5. \A j \in 1 .. from + n - from : d[j] = <<k, from + j>>
  BY <1>2
<1>6. \A j \in 1 .. n : d[j] = <<k, from + j>> /\ d[j] \in Byte
  <2>1. \A j \in 1 .. n : d[j] = <<k, from + j>>
    BY <1>1, <1>5
  <2>2. \A j \in 1 .. n : <<k, from + j>> \in Byte
    BY DEF Byte
  <2> HIDE DEF d
  <2> QED BY <2>1, <2>2
<1>7. d = [j \in 1 .. n |-> d[j]]
  BY <1>2, <1>4
<1> HIDE DEF d
<1>8. d \in [1 .. n -> Byte]
  BY <1>6, <1>7
<1>9. d \in Seq(Byte) /\ Len(d) = n
  BY <1>8
<1> QED BY <1>6, <1>9 DEF d

\* The chain the driver builds
Built(ch, dir, p, k) ==
  LET at(i) == p + SumTo([j \in 1 .. Len(ch) |-> ch[j].cnt], i - 1)
  IN  [i \in 1 .. Len(ch) |->
         [off |-> ch[i].off, cnt |-> ch[i].cnt,
          buf |-> IF dir THEN Data(k, at(i), at(i) + ch[i].cnt)
                  ELSE [j \in 1 .. ch[i].cnt |-> Junk]]]

LEMMA ChainBuilt ==
  ASSUME NEW ch \in Chains, NEW dir \in BOOLEAN, NEW p \in Nat, NEW k \in Nat
  PROVE  /\ DOMAIN Built(ch, dir, p, k) = 1 .. Len(ch) /\ Len(Built(ch, dir, p, k)) = Len(ch)
         /\ Len(ch) \in Nat /\ Len(ch) > 0
         /\ \A i \in 1 .. Len(ch) :
              /\ IsDesc(Built(ch, dir, p, k)[i])
              /\ Built(ch, dir, p, k)[i].off = ch[i].off /\ Built(ch, dir, p, k)[i].cnt = ch[i].cnt
              /\ dir => \A j \in 1 .. ch[i].cnt :
                          Built(ch, dir, p, k)[i].buf[j] = <<k, p + SumTo(cnts(ch), i - 1) + j>>
<1> DEFINE new == Built(ch, dir, p, k)
<1>1. ch \in Seq([off : 0 .. Lanes - 1, cnt : Nat]) /\ Len(ch) > 0
  BY ScsiConstants
<1>2. Len(ch) \in Nat /\ \A i \in 1 .. Len(ch) : ch[i].off \in Nat /\ ch[i].cnt \in Nat
  <2> DEFINE D == [off : 0 .. Lanes - 1, cnt : Nat]
  <2>1. ch \in Seq(D)
    BY <1>1
  <2>2. \A d \in D : d.off \in Nat /\ d.cnt \in Nat
    BY ScsiConstants
  <2> HIDE DEF D
  <2> QED BY <2>1, <2>2
<1> DEFINE at(i) == p + SumTo(cnts(ch), i - 1)
           buf(i) == IF dir THEN Data(k, at(i), at(i) + ch[i].cnt) ELSE [j \in 1 .. ch[i].cnt |-> Junk]
<1>3. new = [i \in 1 .. Len(ch) |-> [off |-> ch[i].off, cnt |-> ch[i].cnt, buf |-> buf(i)]]
  BY DEF cnts, Built
<1> HIDE DEF new
<1>4. ASSUME NEW i \in 1 .. Len(ch)
      PROVE  /\ at(i) \in Nat /\ buf(i) \in Seq(Byte) /\ Len(buf(i)) = ch[i].cnt
             /\ dir => \A j \in 1 .. ch[i].cnt : buf(i)[j] = <<k, at(i) + j>>
  <2>1. at(i) \in Nat
    <3>1. \A n \in 1 .. Len(ch) : cnts(ch)[n] \in Nat
      BY <1>2 DEF cnts
    <3>2. i - 1 \in 0 .. Len(ch)
      BY <1>2
    <3>3. SumTo(cnts(ch), i - 1) \in Nat
      BY <1>2, <3>1, <3>2, SumNat
    <3> QED BY <3>3
  <2> DEFINE q == at(i)
             n == ch[i].cnt
  <2>2. q \in Nat /\ n \in Nat
    BY <2>1, <1>2
  <2>3. buf(i) = IF dir THEN Data(k, q, q + n) ELSE [j \in 1 .. n |-> Junk]
    OBVIOUS
  <2> HIDE DEF q, n, buf
  <2>5. CASE dir
    <3>1. /\ Data(k, q, q + n) \in Seq(Byte) /\ Len(Data(k, q, q + n)) = n
          /\ \A j \in 1 .. n : Data(k, q, q + n)[j] = <<k, q + j>>
      BY <2>2, DataFacts
    <3> QED BY <2>1, <2>3, <2>5, <3>1 DEF q, n
  <2>6. CASE ~dir
    <3>1. Junk \in Byte
      BY DEF Junk, Byte
    <3>2. buf(i) \in [1 .. n -> Byte]
      BY <3>1, <2>3, <2>6
    <3>3. buf(i) \in Seq(Byte) /\ Len(buf(i)) = n
      BY <2>2, <3>2
    <3> QED BY <2>1, <2>6, <3>3 DEF q, n
  <2> QED BY <2>5, <2>6
<1> HIDE DEF buf
<1>5. DOMAIN new = 1 .. Len(ch) /\ Len(new) = Len(ch)
  BY <1>2, <1>3
<1>6. ASSUME NEW i \in 1 .. Len(ch)
      PROVE  /\ DOMAIN new[i] = {"off", "cnt", "buf"} /\ new[i].off = ch[i].off /\ new[i].cnt = ch[i].cnt
             /\ new[i].buf = buf(i)
  <2>1. new[i] = [off |-> ch[i].off, cnt |-> ch[i].cnt, buf |-> buf(i)]
    BY <1>3
  <2> QED BY <2>1
<1>7. ASSUME NEW i \in 1 .. Len(ch)
      PROVE  /\ IsDesc(new[i]) /\ new[i].off = ch[i].off /\ new[i].cnt = ch[i].cnt
             /\ dir => \A j \in 1 .. ch[i].cnt : new[i].buf[j] = <<k, p + SumTo(cnts(ch), i - 1) + j>>
  BY <1>2, <1>4, <1>6 DEF IsDesc
<1> QED BY <1>1, <1>2, <1>5, <1>7 DEF new

LEMMA InvDma ==
  ASSUME Inv, NEW ch \in Chains, NEW dir \in BOOLEAN, NEW active, NEW r, GuestDma(ch, dir, active, r)
  PROVE  Inv'
<1> DEFINE m == [op |-> "ctrl", active |-> active, dir |-> dir]
<1>1. Clock(m, r, FALSE) /\ cmds' = cmds /\ g.pc = "dma" /\ g' = [g EXCEPT !.pc = "cmd"]
  BY DEF GuestDma
<1>2. m.op = "ctrl"
  OBVIOUS
<1> HIDE DEF m
<1>3. ~sh.bsy /\ ~sh.intrq /\ sh.req_seq = sh.done_seq /\ ~Complete
  BY <1>1 DEF Inv, DriverOk, Complete
<1>4. GuestEnv(m) /\ Settled
  BY <1>1, <1>2, <1>3, StaysQuiet DEF GuestEnv, Settled, Clock
<1>5. /\ ShimOk' /\ Handshake' /\ ServicerOk' /\ StagingOk' /\ RingOk'
      /\ RegsOk' /\ FetchedOk' /\ LoadOk' /\ CursorOk'
  BY <1>1, <1>4, ClockStep
<1>6. /\ sh'.req_seq = sh.req_seq /\ sh'.cdb = sh.cdb /\ sh'.req_cdb = sh.req_cdb
      /\ sh'.done_seq = sh.done_seq /\ ~sh'.bsy /\ ~sh'.intrq
  BY <1>1, <1>2, <1>3, ShimFields DEF Inv, Clock
<1>7. g'.pc = "cmd" /\ g'.past = g.past /\ DOMAIN g' = {"pc", "past"}
  BY <1>1 DEF Inv, DriverOk
<1>8. DriverOk'
  BY <1>3, <1>6, <1>7 DEF Inv, DriverOk
<1>9. CommandOk'
  BY <1>1, <1>6, <1>7 DEF Inv, CommandOk
<1>10. /\ DOMAIN chain' = 1 .. Len(ch) /\ Len(chain') = Len(ch) /\ Len(ch) \in Nat /\ Len(ch) > 0
       /\ \A i \in 1 .. Len(ch) : IsDesc(chain'[i])
  <2>1. Len(g.past) \in Nat /\ Len(cmds) \in Nat
    BY DEF Inv, DriverOk, CommandOk
  <2>2. chain' = Built(ch, dir, Len(g.past), Len(cmds))
    BY DEF GuestDma, Built
  <2> QED BY <2>1, <2>2, ChainBuilt
<1>11. ChainOk'
  BY <1>10 DEF ChainOk
<1> QED BY <1>5, <1>8, <1>9, <1>11 DEF Inv

LEMMA InvResume ==
  ASSUME Inv, GuestResume
  PROVE  Inv'
<1>1. /\ g.pc = "paused" /\ g' = [g EXCEPT !.pc = "dma"]
      /\ UNCHANGED <<cmds, chain, sh, s, acc, ld, rdbuf, wrbuf, cq, cqprod, db, rsp, a, disk>>
  BY DEF GuestResume, staging, host
<1>2. g'.pc = "dma" /\ g'.past = g.past /\ DOMAIN g' = {"pc", "past"}
  BY <1>1 DEF Inv, DriverOk
<1>3. DriverOk' /\ CommandOk'
  BY <1>1, <1>2 DEF Inv, DriverOk, CommandOk
<1>4. ChainOk'
  BY <1>1, <1>2 DEF Inv, ChainOk
<1>5. Quiet' = Quiet /\ NeedBeat' = NeedBeat /\ Take' = Take
  BY <1>1 DEF Quiet, NeedBeat, Take
<1>6. ShimOk' /\ Handshake' /\ ServicerOk' /\ StagingOk' /\ RingOk'
  BY <1>1, <1>5 DEF Inv, ShimOk, Handshake, ServicerOk, StagingOk, RingOk
<1>7. RegsOk' /\ FetchedOk' /\ LoadOk' /\ CursorOk'
  BY <1>1, <1>5 DEF Inv, RegsOk, FetchedOk, LoadOk, CursorOk
<1> QED BY <1>3, <1>4, <1>6, <1>7 DEF Inv

LEMMA InvMem ==
  ASSUME Inv, Mem
  PROVE  Inv'
<1>1. ChanOk' /\ ChainOk' /\ StagingOk'
  BY InvEnv, MemStep DEF Inv
<1>2. UNCHANGED <<g, cmds, sh, s, db, rsp, a>>
  BY DEF Mem, host
<1>3. Quiet' = Quiet
  BY <1>2 DEF Quiet
<1>4. ShimOk' /\ Handshake' /\ DriverOk' /\ CommandOk' /\ ServicerOk'
  BY <1>2, <1>3 DEF Inv, ShimOk, Handshake, DriverOk, CommandOk, ServicerOk
<1> QED BY <1>1, <1>4 DEF Inv, ChanOk
-----------------------------------------------------------------------------
(* The servicer *)

LEMMA RtlKept ==
  ASSUME Inv, UNCHANGED rtl
  PROVE  /\ ShimOk' /\ Handshake' /\ DriverOk' /\ CommandOk' /\ RegsOk' /\ LoadOk' /\ ChainOk' /\ CursorOk'
         /\ (Quiet' <=> Quiet)
<1>1. UNCHANGED <<g, cmds, chain, sh, s, acc, ld>>
  BY DEF rtl
<1>2. Quiet' = Quiet /\ NeedBeat' = NeedBeat /\ Take' = Take
  BY <1>1 DEF Quiet, NeedBeat, Take
<1>3. ShimOk' /\ Handshake' /\ DriverOk' /\ CommandOk'
  BY <1>1, <1>2 DEF Inv, ShimOk, Handshake, DriverOk, CommandOk
<1>4. RegsOk' /\ LoadOk' /\ ChainOk' /\ CursorOk'
  BY <1>1, <1>2 DEF Inv, RegsOk, LoadOk, ChainOk, CursorOk
<1> QED BY <1>2, <1>3, <1>4

\* division with remainder
LEMMA DivFacts ==
  ASSUME NEW x \in Nat, NEW l \in Nat \ {0}
  PROVE  x \div l \in Nat /\ x = l * (x \div l) + (x % l) /\ x % l \in 0 .. l - 1
<1>1. l \in Nat /\ l > 0
  OBVIOUS
<1>2. x = l * (x \div l) + (x % l)
  BY <1>1
<1>3. x \div l >= 0 /\ x \div l \in Int
  BY <1>1
<1>4. x % l \in 0 .. l - 1
  BY <1>1
<1> QED BY <1>2, <1>3, <1>4

\* as many beats as the bytes need
LEMMA CeilFacts ==
  ASSUME NEW n \in Nat, NEW l \in Nat \ {0}
  PROVE  /\ (n + l - 1) \div l \in Nat
         /\ ((n + l - 1) \div l) * l \in Nat /\ ((n + l - 1) \div l) * l >= n
<1> DEFINE x == n + l - 1
           q == x \div l
<1>1. x \in Nat
  OBVIOUS
<1> HIDE DEF x
<1>2. q \in Nat /\ x = l * q + (x % l) /\ x % l \in 0 .. l - 1
  BY <1>1, DivFacts
<1> HIDE DEF q
<1>3. l * q = q * l /\ q * l \in Nat
  BY <1>2
<1>4. q * l >= n
  BY <1>2, <1>3 DEF x
<1> QED BY <1>2, <1>3, <1>4 DEF q, x

LEMMA InvDoorbell ==
  ASSUME Inv, SvcDoorbell
  PROVE  Inv'
<1> DEFINE c == cmds[sh.req_cdb]
           resume == a.active /\ a.pos < a.total
           data == c.kind \in {"read", "write"} /\ c.total > 0
           base == IF resume
                   THEN [a EXCEPT !.status = "ok"]
                   ELSE [a EXCEPT !.cmd = sh.req_cdb, !.pos = 0, !.total = IF data THEN c.total ELSE 0,
                                  !.active = data, !.to_dev = c.kind = "write",
                                  !.status = IF c.kind = "timeout" THEN "timeout" ELSE "ok"]
           pc == IF ~base.active THEN "post" ELSE IF base.to_dev THEN "wait" ELSE "stage"
<1>1. /\ a.pc \in {"idle", "wait"} /\ sh.req_seq # a.last
      /\ a' = [base EXCEPT !.last = sh.req_seq, !.seq = sh.req_seq, !.pc = pc]
      /\ UNCHANGED <<rtl, rdbuf, cq, cqprod, db, rsp>>
  BY DEF SvcDoorbell, staging
<1>2. a.pc = "idle" /\ rsp.seq = a.last /\ a.last < sh.req_seq /\ sh.req_seq \in Nat /\ a.last \in Nat
  BY <1>1 DEF Inv, ServicerOk, ShimOk
<1>3. sh.req_cdb \in Nat /\ c.total \in Nat
  <2>1. sh.req_cdb \in 1 .. Len(cmds) /\ cmds \in Seq(Commands)
    BY <1>2 DEF Inv, CommandOk
  <2>2. c \in Commands
    BY <2>1
  <2> QED BY <2>1, <2>2, ScsiConstants
<1> HIDE DEF c
<1>4. /\ DOMAIN base = DOMAIN a /\ base.cmd \in Nat /\ base.pos \in Nat /\ base.total \in Nat
      /\ base.pos <= base.total
  <2>1. CASE resume
    BY <2>1 DEF Inv, ServicerOk
  <2>2. CASE ~resume
    <3> HIDE DEF data
    <3>1. /\ DOMAIN base = DOMAIN a /\ base.cmd = sh.req_cdb /\ base.pos = 0
          /\ base.total = IF data THEN c.total ELSE 0
      BY <2>2 DEF Inv, ServicerOk
    <3> QED BY <3>1, <1>3
  <2> QED BY <2>1, <2>2
<1>5. pc \in {"post", "wait", "stage"}
  OBVIOUS
<1> HIDE DEF base, pc
<1>6. /\ DOMAIN a' = DOMAIN a /\ a'.cmd = base.cmd /\ a'.pos = base.pos /\ a'.total = base.total
      /\ a'.last = sh.req_seq /\ a'.seq = sh.req_seq /\ a'.pc = pc
  BY <1>1, <1>4 DEF Inv, ServicerOk
<1>7. sh' = sh
  BY <1>1 DEF rtl
<1>8. ServicerOk'
  BY <1>1, <1>2, <1>4, <1>5, <1>6, <1>7 DEF Inv, ServicerOk
<1>9. StagingOk' /\ RingOk' /\ FetchedOk'
  BY <1>1, RtlKept DEF Inv, StagingOk, RingOk, FetchedOk, rtl
<1> QED BY <1>1, <1>8, <1>9, RtlKept DEF Inv

\* The doorbell of the current command has not rung while its data is being staged.
LEMMA NotFetching ==
  ASSUME Inv, a.pc \in {"stage", "ring"}
  PROVE  ~(~Quiet /\ s.gen_ok)
BY DEF Inv, ServicerOk, FetchedOk, Handshake, ShimOk

LEMMA InvStage ==
  ASSUME Inv, SvcStage
  PROVE  Inv'
<1> DEFINE d == Data(a.cmd, a.pos, a.total)
           beats == (Len(d) + Lanes - 1) \div Lanes
           pad == [i \in 1 .. beats * Lanes - Len(d) |-> Pad]
<1>1. /\ a.pc = "stage" /\ a' = [a EXCEPT !.pc = "ring"] /\ rdbuf' = d \o pad
      /\ db' = [db EXCEPT !.rd_beats = beats] /\ UNCHANGED <<rtl, cq, cqprod, rsp>>
  BY DEF SvcStage
<1>2. d \in Seq(Byte) /\ Len(d) \in Nat
  <2> DEFINE n == a.total - a.pos
  <2>1. a.cmd \in Nat /\ a.pos \in Nat /\ n \in Nat /\ a.pos + n = a.total
    BY DEF Inv, ServicerOk
  <2> HIDE DEF n
  <2>2. Data(a.cmd, a.pos, a.pos + n) \in Seq(Byte)
    BY <2>1, DataFacts
  <2> QED BY <2>1, <2>2
<1> HIDE DEF d
<1>3. beats \in Nat /\ beats * Lanes \in Nat /\ beats * Lanes >= Len(d)
  <2>1. Lanes \in Nat \ {0}
    BY ScsiConstants
  <2> QED BY <2>1, <1>2, CeilFacts
<1> HIDE DEF beats
<1>4. pad \in Seq(Byte) /\ Len(pad) = beats * Lanes - Len(d)
  <2> DEFINE n == beats * Lanes - Len(d)
  <2>1. n \in Nat /\ Pad \in Byte
    BY <1>2, <1>3 DEF Pad, Byte
  <2>2. pad = [i \in 1 .. n |-> Pad]
    OBVIOUS
  <2> HIDE DEF n, pad
  <2>3. pad \in Seq(Byte) /\ Len(pad) = n
    BY <2>1, <2>2
  <2> QED BY <2>3 DEF n
<1> HIDE DEF pad
<1>5. d \o pad \in Seq(Byte) /\ Len(d \o pad) = Len(d) + Len(pad)
  BY <1>2, <1>4, SeqFacts
<1>6. Len(d \o pad) = beats * Lanes
  BY <1>2, <1>3, <1>4, <1>5
<1>7. /\ DOMAIN a' = DOMAIN a /\ a'.pc = "ring" /\ a'.last = a.last /\ a'.seq = a.seq /\ a'.cmd = a.cmd
      /\ a'.pos = a.pos /\ a'.total = a.total
      /\ DOMAIN db' = DOMAIN db /\ db'.rd_beats = beats /\ db'.rd_seq = db.rd_seq
      /\ db'.cq_cons = db.cq_cons
  BY <1>1 DEF Inv, ServicerOk
<1>8. ServicerOk'
  BY <1>1, <1>3, <1>7 DEF Inv, ServicerOk, rtl
<1>9. StagingOk' /\ RingOk'
  BY <1>1, <1>5, <1>6, <1>7 DEF Inv, StagingOk, RingOk, rtl
<1>10. FetchedOk'
  BY <1>1, <1>7, NotFetching, RtlKept DEF Inv, FetchedOk, rtl
<1> QED BY <1>1, <1>8, <1>9, <1>10, RtlKept DEF Inv

LEMMA InvRing ==
  ASSUME Inv, SvcRing
  PROVE  Inv'
<1>1. /\ a.pc = "ring" /\ a' = [a EXCEPT !.pc = "wait"] /\ db' = [db EXCEPT !.rd_seq = a.seq]
      /\ UNCHANGED <<rtl, rdbuf, cq, cqprod, rsp>>
  BY DEF SvcRing, staging
<1>2. /\ DOMAIN a' = DOMAIN a /\ a'.pc = "wait" /\ a'.last = a.last /\ a'.seq = a.seq /\ a'.cmd = a.cmd
      /\ a'.pos = a.pos /\ a'.total = a.total
      /\ DOMAIN db' = DOMAIN db /\ db'.rd_beats = db.rd_beats /\ db'.rd_seq = a.seq
      /\ db'.cq_cons = db.cq_cons
  BY <1>1 DEF Inv, ServicerOk
<1>3. ServicerOk'
  BY <1>1, <1>2 DEF Inv, ServicerOk, rtl
<1>4. StagingOk' /\ RingOk'
  BY <1>1, <1>2 DEF Inv, StagingOk, RingOk, rtl
<1>5. FetchedOk'
  BY <1>1, <1>2, NotFetching, RtlKept DEF Inv, FetchedOk, rtl
<1> QED BY <1>1, <1>3, <1>4, <1>5, RtlKept DEF Inv

LEMMA InvPoll ==
  ASSUME Inv, SvcPoll
  PROVE  Inv'
<1> DEFINE e == cq[db.cq_cons % NCq]
           moved == Min2(e.bytes, a.total - a.pos)
           pos == a.pos + moved
<1>1. /\ a.pc = "wait" /\ db.cq_cons # cqprod /\ db' = [db EXCEPT !.cq_cons = @ + 1]
      /\ \/ a' = a
         \/ a' = [a EXCEPT !.pos = pos, !.pc = "post", !.status = IF pos < a.total THEN "pause" ELSE "ok",
                           !.active = pos < a.total]
      /\ UNCHANGED <<rtl, rdbuf, cq, cqprod, rsp>>
  BY DEF SvcPoll, staging
<1>2. e.bytes \in Nat
  <2>1. NCq \in Nat \ {0} /\ db.cq_cons \in Nat
    BY ScsiConstants DEF Inv, RingOk
  <2>2. db.cq_cons % NCq \in 0 .. NCq - 1
    BY <2>1
  <2> QED BY <2>2 DEF Inv, StagingOk
<1> HIDE DEF e
<1>3. pos \in Nat /\ pos <= a.total
  BY <1>2 DEF Inv, ServicerOk, Min2
<1> HIDE DEF pos
<1>4. /\ DOMAIN a' = DOMAIN a /\ a'.pc \in {"wait", "post"} /\ a'.last = a.last /\ a'.seq = a.seq
      /\ a'.cmd = a.cmd /\ a'.pos \in {a.pos, pos} /\ a'.total = a.total
      /\ DOMAIN db' = DOMAIN db /\ db'.rd_beats = db.rd_beats /\ db'.rd_seq = db.rd_seq
      /\ db'.cq_cons = db.cq_cons + 1
  BY <1>1 DEF Inv, ServicerOk
<1>5. ServicerOk'
  BY <1>1, <1>3, <1>4 DEF Inv, ServicerOk, rtl
<1>6. StagingOk'
  BY <1>1, <1>4 DEF Inv, StagingOk
<1>7. RingOk'
  <2>1. NCq \in Nat
    BY ScsiConstants
  <2> QED BY <2>1, <1>1, <1>4 DEF Inv, RingOk, rtl
<1>8. FetchedOk'
  BY <1>1, <1>4, RtlKept DEF Inv, FetchedOk, rtl
<1> QED BY <1>1, <1>5, <1>6, <1>7, <1>8, RtlKept DEF Inv

LEMMA InvPost ==
  ASSUME Inv, SvcPost \/ SvcPostSeq
  PROVE  Inv'
<1>1. UNCHANGED <<rtl, rdbuf, cq, cqprod, db>>
  BY DEF SvcPost, SvcPostSeq, staging
<1>2. ServicerOk'
  <2>1. CASE SvcPost
    BY <2>1, <1>1 DEF SvcPost, Inv, ServicerOk, rtl
  <2>2. CASE SvcPostSeq
    BY <2>2, <1>1 DEF SvcPostSeq, Inv, ServicerOk, rtl
  <2> QED BY <2>1, <2>2
<1>3. StagingOk' /\ RingOk' /\ FetchedOk'
  BY <1>1, RtlKept DEF Inv, StagingOk, RingOk, FetchedOk, rtl
<1> QED BY <1>1, <1>2, <1>3, RtlKept DEF Inv
-----------------------------------------------------------------------------
LEMMA InvInit ==
  Init => Inv
<1> SUFFICES ASSUME Init PROVE Inv
  OBVIOUS
<1> USE ScsiConstants DEF Init
<1>1. ShimOk /\ Handshake
  BY DEF ShimOk, ShimReset, Phases, Handshake, Quiet, ChanReset
<1>2. DriverOk /\ CommandOk
  BY DEF DriverOk, CommandOk, ShimReset
<1>3. ServicerOk
  BY DEF ServicerOk, ShimReset
<1>4. StagingOk
  BY DEF StagingOk
<1>5. RingOk
  BY DEF RingOk, ChanReset
<1>6. RegsOk
  BY DEF RegsOk, ChanReset, SStates
<1>7. FetchedOk /\ LoadOk /\ CursorOk
  BY DEF FetchedOk, LoadOk, CursorOk, ChanReset, NoLoad, Quiet
<1>8. ChainOk
  BY DEF ChainOk
<1> QED BY <1>1, <1>2, <1>3, <1>4, <1>5, <1>6, <1>7, <1>8 DEF Inv

LEMMA InvNext ==
  ASSUME Inv, [Next]_vars
  PROVE  Inv'
<1>1. CASE UNCHANGED vars
  <2>1. /\ UNCHANGED rtl /\ rdbuf' = rdbuf /\ cq' = cq /\ cqprod' = cqprod /\ db' = db /\ rsp' = rsp
        /\ a' = a
    BY <1>1 DEF vars, rtl, staging, host
  <2>2. ServicerOk' /\ StagingOk' /\ RingOk' /\ FetchedOk'
    BY <2>1, RtlKept DEF Inv, ServicerOk, StagingOk, RingOk, FetchedOk, rtl
  <2> QED BY <2>1, <2>2, RtlKept DEF Inv
<1>2. CASE Mem \/ GuestResume
  BY <1>2, InvMem, InvResume
<1>3. CASE Servicer
  BY <1>3, InvDoorbell, InvStage, InvRing, InvPoll, InvPost DEF Servicer
<1>4. ASSUME NEW r \in BOOLEAN, GuestClock(r)
      PROVE  Inv'
  BY <1>4, InvCommand, InvDma, InvSelect, InvIsr, InvReset DEF GuestClock
<1>5. ASSUME NEW r \in BOOLEAN, NEW tick \in BOOLEAN, Idle(r, tick)
      PROVE  Inv'
  BY <1>5, InvIdle
<1> QED BY <1>1, <1>2, <1>3, <1>4, <1>5 DEF Next

\* Inv holds in every reachable state.
LEMMA Invariance ==
  Spec => []Inv
BY InvInit, InvNext, PTL DEF Spec

\* A command that is answered has left the guest's memory, for every chain the driver programs
\* and every way the chain can end: the shim's BSY bit covers the channel's last access.
THEOREM AnsweredIsQuiet ==
  Spec => []QuietAfterAnswer
<1>1. Inv => QuietAfterAnswer
  BY DEF Inv, ShimOk, Handshake, Quiet, QuietAfterAnswer
<1> QED BY <1>1, Invariance, PTL

\* Type invariant; the completion ring is never overrun, the byte packer never holds a whole
\* beat and the cursor never leaves the chain.
THEOREM ScsiTypes ==
  Spec => []TypeOK
<1>1. Inv => TypeOK
  <2> SUFFICES ASSUME Inv PROVE TypeOK
    OBVIOUS
  <2>1. s.nbdp \in 0 .. Len(chain) \/ s.state \in {"S_IDLE", "S_CQ", "S_IDX"}
    BY DEF Inv, CursorOk, Quiet
  <2>2. s.cq_prod \in cqprod - 1 .. cqprod /\ cqprod - db.cq_cons \in 0 .. NCq
    BY ScsiConstants DEF Inv, RingOk
  <2>3. Len(s.hold) < Lanes /\ Len(s.beat) \in {0, Lanes} /\ s.wptr \in 0 .. NBeats
    BY DEF Inv, RegsOk
  <2>4. sh.ph \in Phases /\ s.state \in SStates
    BY DEF Inv, ShimOk, RegsOk
  <2> QED BY <2>1, <2>2, <2>3, <2>4 DEF TypeOK, Inv, DriverOk, ServicerOk
<1> QED BY <1>1, Invariance, PTL

-----------------------------------------------------------------------------
(* The data.  A clock of the channel, register by register: what its cases leave alone.  *)

KeepWalk == UNCHANGED <<s.nbdp, s.off, s.bp, s.cnt, s.dp, s.eox, s.ndesc, s.xfer>>
KeepPipe == UNCHANGED <<s.hold, s.beat, s.fetch, s.wptr, s.flush>>
KeepPost == UNCHANGED <<s.flags, s.cq_prod>>

RStates == {"S_R_NEED", "S_R_FETCH", "S_R_STORE"}
Start == s.state = "S_IDLE" /\ s.go

KStay == /\ UNCHANGED s.state /\ KeepWalk /\ KeepPipe /\ KeepPost
         /\ acc' = FALSE \/ UNCHANGED <<acc, ld>>
KStart == /\ s.state = "S_IDLE" /\ s'.state = "S_DESC" /\ s'.nbdp = 1 /\ s'.ndesc = 0 /\ s'.xfer = 0
          /\ s'.hold = <<>> /\ s'.beat = <<>> /\ s'.fetch = 0 /\ s'.wptr = 0 /\ ~s'.flush
          /\ KeepPost
KDesc == /\ s.state = "S_DESC" /\ acc
         /\ s'.off = ld.desc.off /\ s'.bp = 0 /\ s'.cnt = ld.desc.cnt /\ s'.eox = ld.desc.eox
         /\ s'.dp = ld.desc.dp /\ UNCHANGED <<s.nbdp, s.ndesc, s.xfer>> /\ KeepPipe /\ KeepPost
         /\ \/ ld.desc.cnt = 0 /\ s'.state = "S_NEXT"
            \/ ld.desc.cnt # 0 /\ s.dir /\ s'.state = "S_W_LOAD"
            \/ ld.desc.cnt # 0 /\ ~s.dir /\ s'.state \in RStates
         /\ s'.state = "S_R_FETCH" => s.beat = <<>>
KNeed == /\ s.state = "S_R_NEED" /\ s'.state \in {"S_R_STORE", "S_R_FETCH", "S_CQ", "S_IDLE"}
         /\ KeepWalk /\ KeepPipe /\ UNCHANGED s.cq_prod
         /\ s'.state = "S_R_FETCH" => s.beat = <<>>
         /\ s'.state = "S_CQ" /\ ~Cancel => s'.flags = "starved" /\ RdStalled /\ s.gen_ok
         /\ s'.state = "S_IDLE" => Cancel
KFetch == /\ s.state = "S_R_FETCH" /\ s'.state = "S_R_STORE" /\ acc /\ s'.beat = ld.bytes
          /\ s'.fetch = s.fetch + 1 /\ UNCHANGED <<s.hold, s.wptr, s.flush>> /\ KeepWalk /\ KeepPost
KStore == /\ s.state = "S_R_STORE" /\ acc /\ s'.hold = Rest
          /\ s'.beat = (IF NeedBeat THEN <<>> ELSE s.beat)
          /\ s'.bp = s.bp + Take /\ s'.cnt = s.cnt - Take /\ s'.xfer = s.xfer + Take
          /\ UNCHANGED <<s.nbdp, s.off, s.dp, s.eox, s.ndesc, s.fetch, s.wptr, s.flush>> /\ KeepPost
          /\ IF s'.cnt = 0 THEN s'.state = "S_NEXT" ELSE s'.state \in RStates
          /\ s'.state = "S_R_FETCH" => s'.beat = <<>>
KLoad == /\ s.state = "S_W_LOAD" /\ acc
         /\ s'.bp = s.bp + Take /\ s'.cnt = s.cnt - Take /\ s'.xfer = s.xfer + Take
         /\ UNCHANGED <<s.nbdp, s.off, s.dp, s.eox, s.ndesc, s.fetch, s.wptr, s.flush>> /\ KeepPost
         /\ LET all == s.hold \o ld.bytes
            IN  IF Len(all) >= Lanes
                THEN /\ s'.state = "S_W_DRAIN" /\ s'.beat = SubSeq(all, 1, Lanes)
                     /\ s'.hold = SubSeq(all, Lanes + 1, Len(all))
                ELSE /\ s'.state = (IF s.cnt = Take THEN "S_NEXT" ELSE "S_W_LOAD")
                     /\ s'.beat = s.beat /\ s'.hold = all
KDrain == /\ s.state = "S_W_DRAIN" /\ KeepWalk /\ KeepPost /\ UNCHANGED <<s.hold, s.fetch, s.flush>>
          /\ s'.beat = <<>> /\ s'.state = AfterDrain
          /\ s'.wptr = IF s.wptr = NBeats THEN s.wptr ELSE s.wptr + 1
          /\ s.wptr # NBeats => acc
KNextDesc == /\ s.state = "S_NEXT" /\ s'.state = "S_DESC" /\ s'.nbdp = s.dp /\ s'.ndesc = s.ndesc + 1
             /\ ~s.eox /\ s.dp # 0 /\ UNCHANGED <<s.off, s.bp, s.cnt, s.dp, s.eox, s.xfer>>
             /\ KeepPipe /\ KeepPost
ChainEnd == s.eox \/ s.dp = 0 \/ s.ndesc = NdescMax
KNextEnd == /\ s.state = "S_NEXT" /\ KeepWalk
            /\ \/ s'.state = "S_CQ" /\ s'.flags = "aborted" /\ Cancel /\ UNCHANGED s.cq_prod /\ KeepPipe
               \/ /\ s'.state = "S_W_DRAIN" /\ ChainEnd /\ s.dir /\ s.hold # <<>> /\ s'.beat = PadBeat(s.hold)
                  /\ s'.hold = <<>> /\ s'.flush /\ UNCHANGED <<s.fetch, s.wptr>> /\ KeepPost
               \/ /\ s'.state = "S_DONE" /\ ChainEnd /\ (s.dir => s.hold = <<>>) /\ KeepPipe /\ KeepPost
KDone == /\ s.state = "S_DONE" /\ s'.state = "S_CQ" /\ s'.flags = "done" /\ KeepWalk /\ KeepPipe
         /\ UNCHANGED s.cq_prod
KCq == s.state = "S_CQ" /\ s'.state = "S_IDX" /\ acc /\ KeepWalk /\ KeepPipe /\ KeepPost
KIdx == /\ s.state = "S_IDX" /\ acc /\ KeepWalk /\ KeepPipe /\ s'.cq_prod = s.cq_prod + 1 /\ UNCHANGED s.flags
        /\ s'.state = IF s.flags = "starved" THEN "S_R_NEED" ELSE "S_IDLE"

ChanCase == KStay \/ (/\ acc' = FALSE
                      /\ \/ KStart \/ KDesc \/ KNeed \/ KFetch \/ KStore \/ KLoad \/ KDrain
                         \/ KNextDesc \/ KNextEnd \/ KDone \/ KCq \/ KIdx)

LEMMA StarvedCase ==
  ASSUME s.state = "S_R_NEED", RdStalled, s.gen_ok,
         s'.state = "S_CQ", s'.flags = "starved", KeepWalk, KeepPipe, UNCHANGED s.cq_prod
  PROVE  KNeed
BY DEF KNeed

LEMMA ChanCases ==
  ASSUME RegsOk, NEW r, r => acc, SChan(r)
  PROVE  ChanCase
<1> USE HoldFields DEF KeepWalk, KeepPipe, KeepPost
<1>1. CASE SReq /\ ~r
  BY <1>1 DEF SChan, ChanCase, KStay
<1>2. CASE ~(SReq /\ ~r)
  <2>1. (SReq => acc) /\ acc' = FALSE
    BY <1>2 DEF SChan
  <2>2. CASE SIdle
    BY <2>1, <2>2, ZenonT(60) DEF SIdle, ChanCase, KStay, KStart, RegsOk
  <2>3. CASE SDesc
    BY <2>1, <2>3 DEF SDesc, ChanCase, KDesc, RegsOk, SReq, RStates, RdNext
  <2>4. CASE SReadNeed
    <3>1. s.state = "S_R_NEED"
      BY <2>4 DEF SReadNeed
    <3> DEFINE e1 == [Hold EXCEPT !.active = FALSE, !.state = "S_IDLE"]
               e2 == [Hold EXCEPT !.flags = "aborted", !.state = "S_CQ"]
               e3 == [Hold EXCEPT !.state = "S_R_STORE"]
               e4 == [Hold EXCEPT !.state = "S_R_FETCH"]
               e5 == [Hold EXCEPT !.flags = "starved", !.stall_post = TRUE, !.state = "S_CQ"]
    <3>2. s' = CASE Cancel /\ s.stall_post -> e1
                 [] Cancel /\ ~s.stall_post -> e2
                 [] ~Cancel /\ (~NeedBeat \/ s.beat # <<>>) -> e3
                 [] ~Cancel /\ NeedBeat /\ s.beat = <<>> /\ FetchOk -> e4
                 [] ~Cancel /\ RdStalled /\ s.gen_ok /\ ~s.stall_post -> e5
                 [] OTHER -> Hold
      BY <2>4 DEF SReadNeed
    <3> HIDE DEF e1, e2, e3, e4, e5
    <3>3. \/ s' = Hold \/ (Cancel /\ s' = e1) \/ (Cancel /\ s' = e2) \/ s' = e3
          \/ (s.beat = <<>> /\ s' = e4) \/ (RdStalled /\ s.gen_ok /\ s' = e5)
      BY <3>2
    <3>4. CASE s' = Hold
      BY <2>1, <3>4 DEF ChanCase, KStay
    <3>5. CASE Cancel /\ s' = e1
      BY <2>1, <3>1, <3>5 DEF e1, KNeed, RegsOk, ChanCase
    <3>6. CASE Cancel /\ s' = e2
      BY <2>1, <3>1, <3>6 DEF e2, KNeed, RegsOk, ChanCase
    <3>7. CASE s' = e3
      BY <2>1, <3>1, <3>7 DEF e3, KNeed, RegsOk, ChanCase
    <3>8. CASE s.beat = <<>> /\ s' = e4
      BY <2>1, <3>1, <3>8 DEF e4, KNeed, RegsOk, ChanCase
    <3>9. CASE RdStalled /\ s.gen_ok /\ s' = e5
      <4>1. s'.state = "S_CQ" /\ s'.flags = "starved" /\ KeepWalk /\ KeepPipe /\ UNCHANGED s.cq_prod
        BY <3>9 DEF e5, RegsOk
      <4>2. KNeed
        BY <3>1, <3>9, <4>1, StarvedCase
      <4> QED BY <2>1, <4>2 DEF ChanCase
    <3> QED BY <3>3, <3>4, <3>5, <3>6, <3>7, <3>8, <3>9
  <2>5. CASE SReadFetch
    BY <2>1, <2>5 DEF SReadFetch, ChanCase, KFetch, RegsOk, SReq
  <2>6. CASE SReadStore
    BY <2>1, <2>6 DEF SReadStore, ChanCase, KStore, RegsOk, SReq, RStates, RdNext
  <2>7. CASE SWriteLoad
    BY <2>1, <2>7 DEF SWriteLoad, ChanCase, KLoad, RegsOk, SReq
  <2>8. CASE SWriteDrain
    BY <2>1, <2>8 DEF SWriteDrain, ChanCase, KDrain, RegsOk, SReq
  <2>9. CASE SNext
    BY <2>1, <2>9 DEF SNext, ChanCase, KNextDesc, KNextEnd, ChainEnd, RegsOk
  <2>10. CASE SDone
    BY <2>1, <2>10 DEF SDone, ChanCase, KDone, RegsOk
  <2>11. CASE SCq
    BY <2>1, <2>11 DEF SCq, ChanCase, KCq, KStay, RegsOk
  <2>12. CASE SIdx
    BY <2>1, <2>12 DEF SIdx, ChanCase, KIdx, RegsOk, SReq
  <2> QED BY <1>2, <2>2, <2>3, <2>4, <2>5, <2>6, <2>7, <2>8, <2>9, <2>10, <2>11, <2>12 DEF SChan
<1> QED BY <1>1, <1>2

\* The registers that name the command, its direction and a cancel
Tagged ==
  /\ s'.seq = (IF Start THEN s.go_seq ELSE s.seq) /\ s'.dir = (IF Start THEN s.go_dir ELSE s.dir)
  /\ s'.go_dir = (IF Go THEN sh.dir ELSE s.go_dir)
  /\ (s'.cancel <=> ~Start /\ (s.cancel \/ (Abort /\ s.active)))
  /\ Start => s'.state = "S_DESC"

LEMMA ChanTags ==
  ASSUME RegsOk, NEW r, SChan(r)
  PROVE  Tagged
<1> USE HoldFields DEF Start
<1>1. CASE SReq /\ ~r
  BY <1>1 DEF SChan, Tagged, SReq
<1>2. CASE SIdle
  BY <1>2 DEF SIdle, Tagged, RegsOk
<1>3. CASE SDesc
  BY <1>3 DEF SDesc, Tagged, RegsOk
<1>4. CASE SReadNeed
  BY <1>4 DEF SReadNeed, Tagged, RegsOk
<1>5. CASE SReadFetch
  BY <1>5 DEF SReadFetch, Tagged, RegsOk
<1>6. CASE SReadStore
  BY <1>6 DEF SReadStore, Tagged, RegsOk
<1>7. CASE SWriteLoad
  BY <1>7 DEF SWriteLoad, Tagged, RegsOk
<1>8. CASE SWriteDrain
  BY <1>8 DEF SWriteDrain, Tagged, RegsOk
<1>9. CASE SNext
  BY <1>9 DEF SNext, Tagged, RegsOk
<1>10. CASE SDone
  BY <1>10 DEF SDone, Tagged, RegsOk
<1>11. CASE SCq
  BY <1>11 DEF SCq, Tagged, RegsOk
<1>12. CASE SIdx
  BY <1>12 DEF SIdx, Tagged, RegsOk
<1> QED BY <1>1, <1>2, <1>3, <1>4, <1>5, <1>6, <1>7, <1>8, <1>9, <1>10, <1>11, <1>12 DEF SChan

\* Sequence numbers only grow, a go belongs to a request the channel has not run, the channel
\* runs in the direction of the shim and is not cancelled as long as it runs.
OrderOk ==
  /\ s.seq <= sh.req_seq /\ \A i \in 0 .. NCq - 1 : cq[i].seq \in 0 .. sh.req_seq
  /\ sh.ph \in {"PH_DELAY", "PH_GO"} \/ s.go => s.seq # sh.req_seq
  /\ s.go => (s.go_dir <=> sh.dir)
  /\ ~Quiet => (s.dir <=> sh.dir) /\ ~s.cancel
  /\ s.state \in RStates => ~s.dir
  /\ s.state \in {"S_W_LOAD", "S_W_DRAIN"} => s.dir
  /\ ~Quiet /\ s.state \in {"S_CQ", "S_IDX"} => ~s.dir

LEMMA OrderClock ==
  ASSUME Inv, OrderOk, NEW m, NEW r, NEW tick, GuestEnv(m), Clock(m, r, tick)
  PROVE  OrderOk'
<1>1. SChan(r) /\ (r => acc) /\ ShimStep(m, tick) /\ UNCHANGED <<staging, host>> /\ cq' = cq
  BY DEF Clock, staging
<1>2. Moved /\ Tagged /\ ChanCase
  BY <1>1, ChanMoves, ChanTags, ChanCases DEF Inv
<1>3. /\ sh'.ph = Phase(m, tick)
      /\ sh'.req_seq = IF m.op = "seltx" THEN sh.req_seq + 1 ELSE sh.req_seq
      /\ sh'.dir = (IF m.op = "ctrl" /\ ~Complete THEN m.dir ELSE sh.dir)
  BY <1>1, ShimFields DEF Inv
<1>4. sh.req_seq \in Nat /\ s.seq \in Nat /\ sh'.req_seq \in Nat /\ sh.req_seq <= sh'.req_seq
  BY <1>3 DEF Inv, ShimOk, RegsOk
<1>5. s.go \/ ~Quiet \/ sh.ph # "PH_IDLE" => sh'.req_seq = sh.req_seq /\ (sh'.dir <=> sh.dir)
  <2>1. s.go \/ ~Quiet \/ sh.ph # "PH_IDLE" => sh.bsy
    BY DEF Inv, Handshake, ShimOk
  <2> QED BY <2>1, <1>3 DEF GuestEnv
<1>6. s'.seq = (IF Start THEN s.go_seq ELSE s.seq) /\ (s.go => s.go_seq = sh.req_seq)
  BY <1>2 DEF Tagged, Inv, Handshake
<1>7. s'.seq <= sh'.req_seq /\ \A i \in 0 .. NCq - 1 : cq'[i].seq \in 0 .. sh'.req_seq
  <2>1. s'.seq <= sh'.req_seq
    BY <1>4, <1>6 DEF OrderOk, Start
  <2>2. \A i \in 0 .. NCq - 1 : cq'[i].seq \in 0 .. sh'.req_seq
    BY <1>1, <1>4 DEF OrderOk
  <2> QED BY <2>1, <2>2
<1>8. sh'.ph \in {"PH_DELAY", "PH_GO"} \/ s'.go => s'.seq # sh'.req_seq
  <2>1. CASE sh.ph = "PH_IDLE"
    <3>1. Quiet /\ ~s.go /\ ~Go
      BY <2>1 DEF Inv, Handshake, Go
    <3>2. ~s'.go /\ s'.seq = s.seq
      BY <3>1, <1>2, <1>6 DEF Moved, Start
    <3>3. sh'.ph \in {"PH_DELAY", "PH_GO"} => sh'.req_seq = sh.req_seq + 1
      BY <2>1, <1>3 DEF Phase
    <3> QED BY <3>2, <3>3, <1>4 DEF OrderOk
  <2>2. CASE sh.ph \in {"PH_DELAY", "PH_GO"}
    <3>1. Quiet /\ ~s.go
      BY <2>2 DEF Inv, Handshake
    <3> QED BY <3>1, <2>2, <1>5, <1>6 DEF OrderOk, Start
  <2>3. CASE sh.ph = "PH_BUSY"
    <3>1. ~Go /\ sh'.ph \in {"PH_IDLE", "PH_BUSY"}
      BY <2>3, <1>3 DEF Go, Phase
    <3>2. s'.go => s.go /\ ~Start
      BY <3>1, <1>2 DEF Moved, Start
    <3> QED BY <3>1, <3>2, <2>3, <1>5, <1>6 DEF OrderOk
  <2> QED BY <2>1, <2>2, <2>3 DEF Inv, ShimOk, Phases
<1>9. s'.go => (s'.go_dir <=> sh'.dir)
  <2>1. Go => sh'.dir = sh.dir /\ s'.go_dir = sh.dir
    <3>1. Go => sh.bsy
      BY DEF Inv, ShimOk, Go
    <3> QED BY <3>1, <1>2, <1>3 DEF Tagged, GuestEnv
  <2>2. ~Go /\ s'.go => s.go /\ s'.go_dir = s.go_dir
    BY <1>2 DEF Tagged, Moved
  <2> QED BY <2>1, <2>2, <1>5 DEF OrderOk
<1>10. ~Quiet' => (s'.dir <=> sh'.dir) /\ ~s'.cancel
  <2>1. ~Quiet' => Start \/ (~Quiet /\ ~Abort)
    BY <1>2 DEF Moved, Start
  <2>2. Start => (s'.dir <=> sh'.dir) /\ ~s'.cancel
    BY <1>2, <1>5 DEF Tagged, Start, OrderOk
  <2>3. ~Quiet => ~Start
    BY DEF Quiet, Start
  <2>4. ~Quiet /\ ~Abort => (s'.dir <=> sh'.dir) /\ ~s'.cancel
    BY <2>3, <1>2, <1>5 DEF Tagged, OrderOk
  <2> QED BY <2>1, <2>2, <2>4
<1>11. /\ s'.state \in RStates => ~s'.dir
       /\ s'.state \in {"S_W_LOAD", "S_W_DRAIN"} => s'.dir
       /\ ~Quiet' /\ s'.state \in {"S_CQ", "S_IDX"} => ~s'.dir
  <2>1. CASE KStart
    BY <2>1 DEF KStart, RStates
  <2>2. CASE s.state # "S_IDLE"
    <3>1. s'.dir = s.dir
      BY <2>2, <1>2 DEF Tagged, Start
    <3>2. CASE KStay
      BY <3>1, <3>2 DEF KStay, KeepPost, OrderOk, Quiet
    <3>3. CASE KDesc
      BY <3>1, <3>3 DEF KDesc, OrderOk, RStates
    <3>4. CASE KNeed \/ KFetch \/ KStore
      BY <3>1, <3>4 DEF KNeed, KFetch, KStore, OrderOk, RStates
    <3>5. CASE KLoad \/ KDrain
      BY <3>1, <3>5 DEF KLoad, KDrain, OrderOk, RStates, AfterDrain
    <3>6. CASE KNextDesc \/ KNextEnd \/ KDone
      BY <3>1, <3>6 DEF KNextDesc, KNextEnd, KDone, OrderOk, RStates, Quiet
    <3>7. CASE KCq \/ KIdx
      BY <3>1, <3>7 DEF KCq, KIdx, KeepPost, OrderOk, RStates, Quiet
    <3> QED BY <3>2, <3>3, <3>4, <3>5, <3>6, <3>7, <2>2, <1>2 DEF ChanCase, KStart
  <2>3. CASE KStay /\ s.state = "S_IDLE"
    BY <2>3 DEF KStay, RStates, Quiet
  <2> QED BY <2>1, <2>2, <2>3, <1>2 DEF ChanCase, KDesc, KNeed, KFetch, KStore, KLoad, KDrain, KNextDesc,
             KNextEnd, KDone, KCq, KIdx
<1> QED BY <1>7, <1>8, <1>9, <1>10, <1>11 DEF OrderOk

LEMMA OrderKept ==
  ASSUME OrderOk, UNCHANGED <<sh, s, cq>>
  PROVE  OrderOk'
BY DEF OrderOk, Quiet

\* the entry the channel posts carries the sequence number of its command
LEMMA OrderMem ==
  ASSUME Inv, OrderOk, Mem
  PROVE  OrderOk'
<1>1. UNCHANGED <<sh, s>>
  BY DEF Mem
<1>2. CASE s.state # "S_CQ"
  BY <1>1, <1>2, OrderKept DEF Mem, staging
<1>3. CASE s.state = "S_CQ"
  <2> DEFINE e == [seq |-> s.seq, flags |-> s.flags, bytes |-> s.xfer]
             k == s.cq_prod % NCq
  <2>1. cq' = [cq EXCEPT ![k] = e] /\ DOMAIN cq = 0 .. NCq - 1
    BY <1>3 DEF Mem, Inv, StagingOk
  <2>2. e.seq = s.seq
    OBVIOUS
  <2> HIDE DEF e, k
  <2>3. \A i \in 0 .. NCq - 1 : cq'[i].seq \in {s.seq, cq[i].seq}
    BY <2>1, <2>2
  <2>4. s.seq \in 0 .. sh.req_seq
    BY DEF Inv, RegsOk, ShimOk, OrderOk
  <2>5. \A i \in 0 .. NCq - 1 : cq'[i].seq \in 0 .. sh'.req_seq
    BY <2>3, <2>4, <1>1 DEF OrderOk
  <2> QED BY <2>5, <1>1 DEF OrderOk, Quiet
<1> QED BY <1>2, <1>3

\* the request the guest waits for is the one the channel runs or has run
Here == g.pc = "wait" /\ s.seq = sh.req_seq

\* A clock without a guest access; a step of the guest, with the channel away from the
\* chain; a step of the servicer.
Run == /\ UNCHANGED <<g, cmds, chain, rdbuf, wrbuf, cq, cqprod, db, rsp, a, disk>>
       /\ ChanCase /\ Moved /\ Tagged /\ UNCHANGED <<sh.req_seq, sh.dir, sh.req_cdb>>
       /\ sh'.status = (IF Complete THEN rsp.status ELSE sh.status) /\ (sh'.bsy <=> ~Complete /\ sh.bsy)

Away == /\ UNCHANGED <<rdbuf, wrbuf, cq, cqprod, db, rsp, a, disk>>
        /\ ~sh.bsy /\ Quiet /\ Quiet' /\ ~Here' /\ OrderOk' /\ s'.xfer = s.xfer
        /\ g'.pc = "wait" => sh'.req_seq = sh.req_seq + 1

Svc == UNCHANGED rtl /\ (Servicer \/ (UNCHANGED host /\ UNCHANGED staging))

LEMMA RunStep ==
  ASSUME Inv, NEW r, NEW tick, Idle(r, tick)
  PROVE  Run
<1>1. Clock(NoMmio, r, tick) /\ UNCHANGED <<g, cmds, chain>> /\ NoMmio.op = "none"
  BY DEF Idle, NoMmio
<1>2. SChan(r) /\ (r => acc) /\ ShimStep(NoMmio, tick) /\ UNCHANGED <<rdbuf, wrbuf, cq, cqprod, db, rsp, a, disk>>
  BY <1>1 DEF Clock, staging, host
<1>3. Moved /\ Tagged /\ ChanCase
  BY <1>2, ChanMoves, ChanTags, ChanCases DEF Inv
<1>4. /\ UNCHANGED <<sh.req_seq, sh.dir, sh.req_cdb>> /\ (sh'.bsy <=> ~Complete /\ sh.bsy)
      /\ sh'.status = (IF Complete THEN rsp.status ELSE sh.status)
  BY <1>1, <1>2, ShimFields DEF Inv
<1> QED BY <1>1, <1>2, <1>3, <1>4 DEF Run

LEMMA OrderIdle ==
  ASSUME Inv, OrderOk, NEW r, NEW tick, Idle(r, tick)
  PROVE  OrderOk'
BY OrderClock DEF Idle, GuestEnv, NoMmio

\* With no command at work a clock moves nothing of the channel but a last completion entry.
LEMMA AwayClock ==
  ASSUME Inv, OrderOk, NEW m, NEW r, NEW tick, GuestEnv(m), Clock(m, r, tick), ~sh.bsy,
         ~(g'.pc = "wait") \/ m.op = "seltx"
  PROVE  Away
<1>1. SChan(r) /\ (r => acc) /\ ShimStep(m, tick) /\ UNCHANGED <<rdbuf, wrbuf, cq, cqprod, db, rsp, a, disk>>
  BY DEF Clock, staging, host
<1>2. Quiet /\ Quiet' /\ sh.ph = "PH_IDLE"
  BY <1>1, StaysQuiet
<1>3. ~s.go /\ Tagged /\ ChanCase
  BY <1>1, <1>2, ChanTags, ChanCases DEF Inv, Handshake
<1>4. s'.seq = s.seq /\ s'.xfer = s.xfer
  <2>1. s'.seq = s.seq
    BY <1>3 DEF Tagged, Start
  <2>2. ~KStart
    <3>1. KStart => ~Quiet'
      BY DEF KStart, Quiet
    <3> QED BY <1>2, <3>1
  <2>3. s'.xfer = s.xfer
    BY <1>2, <1>3, <2>2 DEF Quiet, ChanCase, KStay, KDesc, KNeed, KFetch, KStore, KLoad, KDrain, KNextDesc,
       KNextEnd, KDone, KCq, KIdx, KeepWalk
  <2> QED BY <2>1, <2>3
<1>5. ~Here'
  <2>1. m.op = "seltx" => sh'.req_seq = sh.req_seq + 1
    BY <1>1, ShimFields DEF Inv
  <2>2. s.seq <= sh.req_seq /\ s.seq \in Nat /\ sh.req_seq \in Nat
    BY DEF OrderOk, Inv, RegsOk, ShimOk
  <2> QED BY <2>1, <2>2, <1>4 DEF Here
<1>6. OrderOk'
  BY OrderClock
<1>7. g'.pc = "wait" => sh'.req_seq = sh.req_seq + 1
  BY <1>1, ShimFields DEF Inv
<1> QED BY <1>1, <1>2, <1>4, <1>5, <1>6, <1>7 DEF Away

LEMMA AwayGuest ==
  ASSUME Inv, OrderOk, NEW r, GuestClock(r)
  PROVE  Away
<1> DEFINE not(m) == m.op # "seltx" => ~(g'.pc = "wait")
<1>1. DOMAIN g = {"pc", "past"} /\ ~sh.bsy /\ sh.req_seq = sh.done_seq
  <2>1. g.pc \in {"idle", "dma", "cmd", "reset"} \/ (g.pc = "wait" /\ sh.intrq)
    BY DEF GuestClock, GuestCommand, GuestDma, GuestSelect, GuestIsr, GuestReset
  <2> QED BY <2>1 DEF Inv, DriverOk
<1>2. \A m : GuestEnv(m)
  BY <1>1 DEF GuestEnv
<1>3. ASSUME NEW c \in Commands, GuestCommand(c, r) PROVE Away
  <2>1. Clock([op |-> "cdb", val |-> Len(cmds) + 1], r, FALSE) /\ g'.pc # "wait"
    BY <1>1, <1>3 DEF GuestCommand
  <2> QED BY <1>1, <1>2, <2>1, AwayClock
<1>4. ASSUME NEW ch, NEW dir, NEW active, GuestDma(ch, dir, active, r) PROVE Away
  <2>1. Clock([op |-> "ctrl", active |-> active, dir |-> dir], r, FALSE) /\ g'.pc # "wait"
    BY <1>1, <1>4 DEF GuestDma
  <2> QED BY <1>1, <1>2, <2>1, AwayClock
<1>5. CASE GuestSelect(r)
  <2> DEFINE m == [op |-> "seltx"]
  <2>1. Clock(m, r, FALSE) /\ m.op = "seltx"
    BY <1>5 DEF GuestSelect
  <2> HIDE DEF m
  <2> QED BY <1>1, <1>2, <2>1, AwayClock
<1>6. CASE GuestIsr(r)
  <2>1. Clock([op |-> "status"], r, FALSE) /\ g'.pc # "wait"
    BY <1>1, <1>6 DEF GuestIsr
  <2> QED BY <1>1, <1>2, <2>1, AwayClock
<1>7. CASE GuestReset(r)
  <2>1. Clock([op |-> "reset"], r, FALSE) /\ g'.pc # "wait"
    BY <1>1, <1>7 DEF GuestReset
  <2> QED BY <1>1, <1>2, <2>1, AwayClock
<1> QED BY <1>3, <1>4, <1>5, <1>6, <1>7 DEF GuestClock

LEMMA AwayResume ==
  ASSUME Inv, OrderOk, GuestResume
  PROVE  Away
<1>1. g.pc = "paused" /\ g' = [g EXCEPT !.pc = "dma"] /\ UNCHANGED <<cmds, chain, sh, s, acc, ld>>
  BY DEF GuestResume
<1>2. UNCHANGED <<rdbuf, wrbuf, cq, cqprod, db, rsp, a, disk>>
  BY DEF GuestResume, staging, host
<1>3. g'.pc = "dma" /\ ~sh.bsy
  BY <1>1 DEF Inv, DriverOk
<1>4. Quiet
  BY <1>3 DEF Inv, ShimOk, Handshake
<1>5. OrderOk'
  BY <1>1, <1>2, OrderKept
<1> QED BY <1>1, <1>2, <1>3, <1>4, <1>5 DEF Away, Here, Quiet

\* Every step is one of these.
LEMMA DataSteps ==
  ASSUME Inv, OrderOk, [Next]_vars
  PROVE  OrderOk' /\ (Run \/ Away \/ Mem \/ Svc)
<1>1. CASE UNCHANGED vars
  <2>1. Svc
    BY <1>1 DEF vars, Svc, rtl, host, staging
  <2>2. OrderOk'
    BY <1>1, OrderKept DEF vars, staging
  <2> QED BY <2>1, <2>2
<1>2. CASE Servicer
  <2>1. UNCHANGED rtl /\ cq' = cq
    BY <1>2 DEF Servicer, SvcDoorbell, SvcStage, SvcRing, SvcPoll, SvcPost, SvcPostSeq, staging
  <2>2. OrderOk'
    BY <2>1, OrderKept DEF rtl
  <2>3. Svc
    BY <1>2, <2>1 DEF Svc
  <2> QED BY <2>2, <2>3, SMTT(30)
<1>3. CASE Mem
  BY <1>3, OrderMem
<1>4. CASE GuestResume
  BY <1>4, AwayResume DEF Away
<1>5. ASSUME NEW r \in BOOLEAN, GuestClock(r) PROVE OrderOk' /\ Away
  BY <1>5, AwayGuest DEF Away
<1>6. ASSUME NEW r \in BOOLEAN, NEW tick \in BOOLEAN, Idle(r, tick) PROVE OrderOk' /\ Run
  BY <1>6, RunStep, OrderIdle
<1> QED BY <1>1, <1>2, <1>3, <1>4, <1>5, <1>6 DEF Next

LEMMA OrderInit ==
  Init => OrderOk
BY ScsiConstants DEF Init, OrderOk, ShimReset, ChanReset, Quiet, RStates
-----------------------------------------------------------------------------
(* The walk.  Buffer i of chain c holds the bytes after At(c, i) of its Cap(c). *)

At(c, i) == SumTo(cnts(c), i - 1)
Cap(c) == SumTo(cnts(c), Len(c))

LEMMA SumGrows ==
  ASSUME NEW f, NEW n \in Nat, \A i \in 1 .. n : f[i] \in Nat
  PROVE  \A j, k \in 0 .. n : j <= k => SumTo(f, j) <= SumTo(f, k)
<1> DEFINE S == {m \in Nat : m <= n => \A j \in 0 .. m : SumTo(f, j) <= SumTo(f, m)}
<1>0. \A j \in 0 .. n : SumTo(f, j) \in Nat
  BY SumNat
<1>1. 0 \in S
  BY <1>0
<1>2. \A m \in Nat : m \in S => m + 1 \in S
  <2> SUFFICES ASSUME NEW m \in Nat, m + 1 <= n, \A j \in 0 .. m : SumTo(f, j) <= SumTo(f, m),
                      NEW j \in 0 .. m + 1
               PROVE  SumTo(f, j) <= SumTo(f, m + 1)
    OBVIOUS
  <2>1. SumTo(f, m + 1) = SumTo(f, m) + f[m + 1]
    BY SumToFacts
  <2>2. f[m + 1] \in Nat /\ SumTo(f, m) \in Nat /\ SumTo(f, j) \in Nat
    BY <1>0
  <2> QED BY <2>1, <2>2
<1> HIDE DEF S
<1>3. \A m \in Nat : m \in S
  BY <1>1, <1>2, NatSetInduction
<1> QED BY <1>3 DEF S

\* Where the buffers of the chain begin and end
LEMMA AtFacts ==
  ASSUME ChainOk
  PROVE  /\ Cap(chain) \in Nat /\ At(chain, 1) = 0
         /\ \A i \in 1 .. Len(chain) : /\ At(chain, i) \in Nat /\ At(chain, i + 1) = At(chain, i) + chain[i].cnt
                                       /\ At(chain, i + 1) <= Cap(chain) /\ At(chain, i + 1) \in Nat
         /\ At(chain, Len(chain) + 1) = Cap(chain)
         /\ \A i, k \in 1 .. Len(chain) : i < k => At(chain, i) + chain[i].cnt <= At(chain, k)
<1> DEFINE f == cnts(chain)
           n == Len(chain)
<1>1. n \in Nat /\ \A i \in 1 .. n : f[i] = chain[i].cnt /\ f[i] \in Nat
  BY DEF ChainOk, IsDesc, cnts
<1> HIDE DEF f
<1>2. \A i \in Nat : i + 1 - 1 = i
  OBVIOUS
<1>3. /\ \A i : At(chain, i) = SumTo(f, i - 1) /\ Cap(chain) = SumTo(f, n)
  BY DEF At, Cap, f
<1> HIDE DEF n
<1>4. \A j \in 0 .. n : SumTo(f, j) \in Nat
  BY <1>1, SumNat
<1>5. \A j, k \in 0 .. n : j <= k => SumTo(f, j) <= SumTo(f, k)
  BY <1>1, SumGrows
<1>6. SumTo(f, 0) = 0 /\ \A i \in Nat : SumTo(f, i + 1) = SumTo(f, i) + f[i + 1]
  BY SumToFacts
<1>7. \A i \in 1 .. n : At(chain, i) = SumTo(f, i - 1) /\ At(chain, i + 1) = SumTo(f, i) /\ SumTo(f, i) = SumTo(f, i - 1) + f[i]
  <2> TAKE i \in 1 .. n
  <2>1. i - 1 \in Nat /\ i - 1 + 1 = i /\ i + 1 - 1 = i
    BY <1>1
  <2>2. SumTo(f, i - 1 + 1) = SumTo(f, i - 1) + f[i - 1 + 1]
    BY <2>1, <1>6
  <2> QED BY <2>1, <2>2, <1>3
<1>8. \A i, k \in 1 .. n : i < k => At(chain, i) + chain[i].cnt <= At(chain, k)
  <2> TAKE i, k \in 1 .. n
  <2> HAVE i < k
  <2>1. i \in 0 .. n /\ k - 1 \in 0 .. n /\ i <= k - 1
    BY <1>1
  <2>2. SumTo(f, i) <= SumTo(f, k - 1)
    BY <2>1, <1>5
  <2> QED BY <2>2, <1>1, <1>7
<1>9. Cap(chain) \in Nat /\ At(chain, 1) = 0 /\ At(chain, n + 1) = Cap(chain)
  BY <1>1, <1>3, <1>4, <1>6
<1>10. \A i \in 1 .. n : At(chain, i) \in Nat /\ At(chain, i + 1) = At(chain, i) + chain[i].cnt /\ At(chain, i + 1) <= Cap(chain) /\ At(chain, i + 1) \in Nat
  <2> TAKE i \in 1 .. n
  <2>1. i \in 0 .. n /\ i - 1 \in 0 .. n /\ n \in 0 .. n /\ i <= n
    BY <1>1
  <2>2. SumTo(f, i) <= SumTo(f, n) /\ SumTo(f, i) \in Nat /\ SumTo(f, i - 1) \in Nat
    BY <2>1, <1>4, <1>5
  <2> QED BY <2>2, <1>1, <1>3, <1>7
<1> QED BY <1>8, <1>9, <1>10 DEF n

\* Only the buffers' contents change in guest memory while the channel runs.
LEMMA MemShape ==
  ASSUME Inv, Mem
  PROVE  /\ Len(chain') = Len(chain) /\ cnts(chain') = cnts(chain)
         /\ \A i \in 1 .. Len(chain) : chain'[i].off = chain[i].off /\ chain'[i].cnt = chain[i].cnt
<1>1. CASE s.state # "S_R_STORE"
  BY <1>1 DEF Mem
<1>2. CASE s.state = "S_R_STORE"
  <2>1. SameShape
    <3>1. chain' = [chain EXCEPT ![s.nbdp].buf =
             [i \in 1 .. Len(@) |->
                IF i - s.bp \in 1 .. Take THEN Stored[i - s.bp] ELSE @[i]]]
      BY <1>2 DEF Mem
    <3> QED BY <1>2, <3>1, StoreShape, InvEnv DEF Inv
  <2> QED BY <2>1 DEF SameShape, cnts
<1> QED BY <1>1, <1>2

LEMMA MemSums ==
  ASSUME Inv, Mem
  PROVE  Cap(chain') = Cap(chain) /\ \A i : At(chain', i) = At(chain, i)
BY MemShape DEF At, Cap

\* A chain is no longer than the engine's limit on a chain.
ShortChains == \A ch \in Chains : Len(ch) <= NdescMax + 1
ShortOk == Len(chain) <= NdescMax + 1

\* A chain comes from the driver, and changes only in its buffers.
LEMMA ChainSteps ==
  ASSUME Inv, [Next]_vars
  PROVE  \/ chain' = chain \/ chain' = <<>> \/ Mem
         \/ \E ch \in Chains, dir \in BOOLEAN : /\ chain' = Built(ch, dir, Len(g.past), Len(cmds))
                                               /\ Len(chain') = Len(ch) /\ cnts(chain') = cnts(ch)
<1>1. ASSUME NEW ch \in Chains, NEW dir \in BOOLEAN, NEW active, NEW r, GuestDma(ch, dir, active, r)
      PROVE  /\ chain' = Built(ch, dir, Len(g.past), Len(cmds))
             /\ Len(chain') = Len(ch) /\ cnts(chain') = cnts(ch)
  <2>1. chain' = Built(ch, dir, Len(g.past), Len(cmds))
    BY <1>1 DEF GuestDma, Built
  <2>2. Len(g.past) \in Nat /\ Len(cmds) \in Nat
    BY DEF Inv, DriverOk, CommandOk
  <2>3. Len(chain') = Len(ch) /\ \A i \in 1 .. Len(ch) : chain'[i].cnt = ch[i].cnt
    BY <2>1, <2>2, ChainBuilt, SMTT(30)
  <2> QED BY <2>1, <2>3 DEF cnts
<1>2. \/ chain' = chain \/ chain' = <<>> \/ Mem
      \/ \E r \in BOOLEAN, ch \in Chains, dir, active \in BOOLEAN : GuestDma(ch, dir, active, r)
  BY DEF Next, vars, Servicer, SvcDoorbell, SvcStage, SvcRing, SvcPoll, SvcPost, SvcPostSeq, rtl, GuestResume,
         Idle, GuestClock, GuestCommand, GuestSelect, GuestIsr, GuestReset
<1> QED BY <1>1, <1>2

LEMMA ShortNext ==
  ASSUME ShortChains, Inv, ShortOk, [Next]_vars
  PROVE  ShortOk'
<1>1. NdescMax \in Nat
  BY ScsiConstants
<1>2. CASE chain' = chain
  BY <1>2 DEF ShortOk
<1>3. CASE chain' = <<>>
  BY <1>1, <1>3 DEF ShortOk
<1>4. CASE Mem
  BY <1>4, MemShape DEF ShortOk
<1>5. CASE \E ch \in Chains : Len(chain') = Len(ch)
  BY <1>5 DEF ShortOk, ShortChains
<1> QED BY <1>2, <1>3, <1>4, <1>5, ChainSteps

\* While it runs, the channel has moved exactly the bytes before its cursor, knows whether
\* this is the chain's last descriptor and leaves a buffer when nothing is left of it.
WalkOk ==
  ~Quiet =>
    /\ s.ndesc = s.nbdp - 1
    /\ s.xfer = At(chain, s.nbdp) + (IF s.state = "S_DESC" THEN 0 ELSE s.bp)
    /\ s.state # "S_DESC" => /\ s.eox <=> s.nbdp = Len(chain)
                             /\ s.dp = IF s.nbdp = Len(chain) THEN 0 ELSE s.nbdp + 1
    /\ s.state \in {"S_NEXT", "S_DONE"} => s.cnt = 0
    /\ s.state \in RStates \cup {"S_W_LOAD", "S_CQ", "S_IDX"} => s.cnt > 0
    /\ s.state = "S_DONE" => s.nbdp = Len(chain)
    /\ s.flush => s.cnt = 0 /\ s.nbdp = Len(chain) /\ s.state \in {"S_W_DRAIN", "S_DONE"}
    /\ acc /\ s.state = "S_DESC" =>
         /\ ld.desc.eox <=> s.nbdp = Len(chain)
         /\ ld.desc.dp = IF s.nbdp = Len(chain) THEN 0 ELSE s.nbdp + 1

LEMMA TakeType ==
  ASSUME RegsOk
  PROVE  Take \in Nat /\ Take <= s.cnt /\ Take <= Lanes
<1>1. s.off + s.bp \in Nat /\ s.cnt \in Nat
  BY DEF RegsOk
<1> QED BY <1>1, TakeFacts DEF Take

LEMMA WalkRun ==
  ASSUME Inv, Inv', OrderOk, ShortOk, WalkOk, Run
  PROVE  WalkOk'
<1>1. chain' = chain
  BY DEF Run
<1>2. /\ s.bp \in Nat /\ s.cnt \in Nat /\ s'.cnt \in Nat /\ Len(chain) \in Nat
      /\ Take \in Nat /\ Take <= s.cnt
  BY TakeType DEF Inv, RegsOk, ChainOk
<1>3. ~Quiet => s.nbdp \in 1 .. Len(chain) /\ (s.state # "S_DESC" => s.bp + s.cnt = chain[s.nbdp].cnt)
  BY DEF Inv, CursorOk
<1>4. /\ At(chain, 1) = 0
      /\ \A i \in 1 .. Len(chain) : At(chain, i) \in Nat /\ At(chain, i + 1) = At(chain, i) + chain[i].cnt
  BY AtFacts DEF Inv
<1>5. s.state \notin {"S_IDLE", "S_CQ", "S_IDX"} => ~Quiet
  BY DEF Quiet
<1>6. CASE KStay
  <2>1. Quiet' <=> Quiet
    BY <1>6 DEF KStay, KeepPost, Quiet
  <2>2. CASE acc' = FALSE
    BY <1>1, <1>6, <2>1, <2>2 DEF WalkOk, KStay, KeepWalk, KeepPipe
  <2>3. CASE UNCHANGED <<acc, ld>>
    BY <1>1, <1>6, <2>1, <2>3 DEF WalkOk, KStay, KeepWalk, KeepPipe
  <2> QED BY <1>6, <2>2, <2>3 DEF KStay
<1>7. CASE acc' = FALSE /\ KStart
  BY <1>1, <1>4, <1>7 DEF KStart, WalkOk, RStates
<1>8. CASE acc' = FALSE /\ KDesc
  BY <1>1, <1>2, <1>3, <1>4, <1>5, <1>8, SMTT(30) DEF KDesc, KeepPipe, WalkOk, RStates
<1>9. CASE acc' = FALSE /\ KNeed
  BY <1>1, <1>5, <1>9 DEF KNeed, KeepWalk, KeepPipe, WalkOk, RStates, Quiet
<1>10. CASE acc' = FALSE /\ KFetch
  BY <1>1, <1>5, <1>10 DEF KFetch, KeepWalk, WalkOk, RStates
<1>11. CASE acc' = FALSE /\ KStore
  BY <1>1, <1>2, <1>3, <1>4, <1>5, <1>11, SMTT(40) DEF KStore, WalkOk, RStates
<1>12. CASE acc' = FALSE /\ KLoad
  <2>1. s.nbdp \in 1 .. Len(chain) /\ At(chain, s.nbdp) \in Nat /\ ~Quiet
    BY <1>3, <1>4, <1>5, <1>12 DEF KLoad
  <2>2. /\ s'.bp = s.bp + Take /\ s'.cnt = s.cnt - Take /\ s'.xfer = s.xfer + Take
        /\ UNCHANGED <<s.nbdp, s.dp, s.eox, s.ndesc, s.flush>>
        /\ s'.state \in {"S_W_DRAIN", "S_NEXT", "S_W_LOAD"} /\ s.state = "S_W_LOAD"
        /\ (s'.state = "S_NEXT" => s.cnt = Take) /\ (s'.state = "S_W_LOAD" => s.cnt # Take)
    BY <1>12 DEF KLoad
  <2>3. /\ s.ndesc = s.nbdp - 1 /\ s.xfer = At(chain, s.nbdp) + s.bp /\ ~s.flush /\ s.cnt > 0
        /\ (s.eox <=> s.nbdp = Len(chain)) /\ s.dp = IF s.nbdp = Len(chain) THEN 0 ELSE s.nbdp + 1
    BY <2>1, <2>2 DEF WalkOk
  <2>4. s'.xfer = At(chain', s'.nbdp) + s'.bp
    BY <1>1, <1>2, <2>1, <2>2, <2>3
  <2>5. (s'.state = "S_NEXT" => s'.cnt = 0) /\ (s'.state = "S_W_LOAD" => s'.cnt > 0)
    BY <1>2, <2>2
  <2> QED BY <1>1, <2>2, <2>3, <2>4, <2>5 DEF WalkOk, RStates
<1>13. CASE acc' = FALSE /\ KDrain
  BY <1>1, <1>2, <1>5, <1>13 DEF KDrain, KeepWalk, AfterDrain, WalkOk, RStates
<1>14. CASE acc' = FALSE /\ KNextDesc
  <2>1. /\ s'.nbdp = s.nbdp + 1 /\ s'.ndesc = s.ndesc + 1 /\ s.ndesc = s.nbdp - 1 /\ s.nbdp \in 1 .. Len(chain)
        /\ s.cnt = 0 /\ s.xfer = At(chain, s.nbdp) + s.bp /\ s'.xfer = s.xfer /\ s'.state = "S_DESC"
        /\ ~s.flush /\ (s'.flush <=> s.flush)
    BY <1>3, <1>5, <1>14 DEF KNextDesc, KeepPipe, WalkOk
  <2>2. s.bp = chain[s.nbdp].cnt
    BY <1>2, <1>3, <1>5, <1>14, <2>1 DEF KNextDesc
  <2>3. s'.xfer = At(chain', s'.nbdp) + 0
    BY <1>1, <1>2, <1>4, <2>1, <2>2
  <2> QED BY <1>1, <1>2, <1>14, <2>1, <2>3 DEF WalkOk, RStates
<1>15. CASE acc' = FALSE /\ KNextEnd
  <2>1. ChainEnd => s.nbdp = Len(chain)
    <3>1. NdescMax \in Nat
      BY ScsiConstants
    <3> QED BY <3>1, <1>2, <1>3, <1>5, <1>15 DEF KNextEnd, ChainEnd, WalkOk, ShortOk
  <2> QED BY <1>1, <1>2, <1>5, <1>15, <2>1 DEF KNextEnd, KeepWalk, KeepPipe, WalkOk, RStates, Quiet
<1>16. CASE acc' = FALSE /\ KDone
  BY <1>16 DEF KDone, WalkOk, Quiet
<1>17. CASE acc' = FALSE /\ KCq
  BY <1>1, <1>17 DEF KCq, KeepWalk, KeepPipe, KeepPost, WalkOk, RStates, Quiet
<1>18. CASE acc' = FALSE /\ KIdx
  BY <1>1, <1>18 DEF KIdx, KeepWalk, KeepPipe, WalkOk, RStates, Quiet
<1> QED BY <1>6, <1>7, <1>8, <1>9, <1>10, <1>11, <1>12, <1>13, <1>14, <1>15, <1>16, <1>17, <1>18 DEF Run, ChanCase

LEMMA WalkMem ==
  ASSUME Inv, WalkOk, Mem
  PROVE  WalkOk'
<1>1. s' = s /\ acc' = TRUE
  BY DEF Mem
<1>2. Len(chain') = Len(chain) /\ \A i : At(chain', i) = At(chain, i)
  BY MemShape, MemSums
<1>3. Quiet' <=> Quiet
  BY <1>1 DEF Quiet
<1>4. CASE s.state # "S_DESC"
  BY <1>1, <1>2, <1>3, <1>4 DEF WalkOk
<1>5. CASE s.state = "S_DESC"
  <2> DEFINE d == [off |-> chain[s.nbdp].off, cnt |-> chain[s.nbdp].cnt, eox |-> s.nbdp = Len(chain),
                   dp |-> (s.nbdp + 1) % (Len(chain) + 1)]
  <2>1. ld' = [ld EXCEPT !.desc = d]
    BY <1>5 DEF Mem
  <2>2. s.nbdp \in 1 .. Len(chain) /\ Len(chain) \in Nat
    BY <1>5 DEF Inv, CursorOk, Quiet, ChainOk
  <2>3. (d.eox <=> s.nbdp = Len(chain)) /\ d.dp = (s.nbdp + 1) % (Len(chain) + 1)
    OBVIOUS
  <2>4. (s.nbdp + 1) % (Len(chain) + 1) = IF s.nbdp = Len(chain) THEN 0 ELSE s.nbdp + 1
    BY <2>2
  <2> HIDE DEF d
  <2>5. ld'.desc = d
    BY <2>1 DEF Inv, LoadOk
  <2> QED BY <1>1, <1>2, <1>3, <1>5, <2>3, <2>4, <2>5 DEF WalkOk
<1> QED BY <1>4, <1>5

LEMMA WalkNext ==
  ASSUME Inv, Inv', OrderOk, ShortOk, WalkOk, [Next]_vars
  PROVE  WalkOk'
<1>1. CASE Away
  BY <1>1 DEF Away, WalkOk
<1>2. CASE Svc
  BY <1>2 DEF Svc, rtl, WalkOk, Quiet
<1> QED BY <1>1, <1>2, WalkRun, WalkMem, DataSteps

\* The cursor in bytes
LEMMA WalkFacts ==
  ASSUME Inv, WalkOk, ~Quiet
  PROVE  /\ s.xfer <= Cap(chain) /\ s.nbdp \in 1 .. Len(chain) /\ At(chain, s.nbdp) \in Nat
         /\ s.state # "S_DESC" => s.xfer = At(chain, s.nbdp) + s.bp /\ s.xfer + s.cnt = At(chain, s.nbdp + 1)
                                  /\ s.xfer + s.cnt <= Cap(chain)
         /\ s.state = "S_DONE" => s.xfer = Cap(chain)
<1>1. s.nbdp \in 1 .. Len(chain) /\ Len(chain) \in Nat
      /\ (s.state # "S_DESC" => s.bp + s.cnt = chain[s.nbdp].cnt)
  BY DEF Inv, CursorOk, ChainOk
<1>2. s.bp \in Nat /\ s.cnt \in Nat /\ s.xfer \in Nat /\ Cap(chain) \in Nat /\ At(chain, s.nbdp) \in Nat
  BY <1>1, AtFacts DEF Inv, RegsOk
<1>3. /\ At(chain, s.nbdp + 1) = At(chain, s.nbdp) + chain[s.nbdp].cnt
      /\ At(chain, s.nbdp + 1) <= Cap(chain) /\ At(chain, s.nbdp + 1) \in Nat
      /\ At(chain, Len(chain) + 1) = Cap(chain)
  BY <1>1, AtFacts DEF Inv
<1>4. s.state = "S_DESC" => s.xfer = At(chain, s.nbdp)
  BY <1>2 DEF WalkOk
<1>5. s.state # "S_DESC" => s.xfer = At(chain, s.nbdp) + s.bp
  BY DEF WalkOk
<1>6. s.state = "S_DONE" => s.nbdp = Len(chain) /\ s.cnt = 0
  BY DEF WalkOk
<1>7. chain[s.nbdp].cnt \in Nat
  BY <1>1 DEF Inv, ChainOk, IsDesc
<1>9. s.state # "S_DESC" => s.xfer + s.cnt = At(chain, s.nbdp + 1)
  BY <1>1, <1>2, <1>3, <1>5, <1>7
<1>8. s.xfer <= Cap(chain)
  <2>1. CASE s.state = "S_DESC"
    BY <1>2, <1>3, <1>4, <1>7, <2>1
  <2>2. CASE s.state # "S_DESC"
    BY <1>2, <1>3, <1>9, <2>2
  <2> QED BY <2>1, <2>2
<1>10. s.state = "S_DONE" => s.xfer = Cap(chain)
  BY <1>2, <1>3, <1>6, <1>9
<1> QED BY <1>1, <1>2, <1>3, <1>5, <1>8, <1>9, <1>10

Unanswered == rsp.seq # sh.req_seq

\* A cancel is the shim's answer to a request the servicer has answered.
LEMMA CancelAnswered ==
  ASSUME OrderOk, ~Quiet, Cancel
  PROVE  ~Unanswered
BY DEF OrderOk, Cancel, Abort, Unanswered

\* A chain that is over before its request is answered moved all its bytes.
PostOk ==
  Here /\ Quiet => s.xfer <= Cap(chain) /\ (Unanswered => s.flags = "done" /\ s.xfer = Cap(chain))

LEMMA PostRun ==
  ASSUME Inv, OrderOk, WalkOk, PostOk, Run
  PROVE  PostOk'
<1> SUFFICES ASSUME Here', Quiet'
             PROVE  s'.xfer <= Cap(chain) /\ (Unanswered => s'.flags = "done" /\ s'.xfer = Cap(chain))
  BY DEF Run, PostOk, Unanswered
<1>1. ~KStart
  BY DEF KStart, Quiet
<1>2. CASE Quiet
  <2>1. s'.seq = s.seq
    BY DEF Run, Tagged, Quiet
  <2>2. s'.xfer = s.xfer /\ s'.flags = s.flags
    BY <1>1, <1>2 DEF Run, ChanCase, KStay, Quiet, KNeed, KDesc, KFetch, KStore, KLoad, KDrain, KNextDesc,
       KNextEnd, KDone, KCq, KIdx, KeepWalk, KeepPost
  <2> QED BY <1>2, <2>1, <2>2 DEF PostOk, Run, Here
<1>3. CASE ~Quiet
  <2>1. s.xfer <= Cap(chain) /\ (s.state = "S_DONE" => s.xfer = Cap(chain)) /\ (Cancel => ~Unanswered)
    BY <1>3, WalkFacts, CancelAnswered
  <2>2. KNeed \/ KNextEnd \/ KDone
    BY <1>1, <1>3 DEF Run, ChanCase, KStay, Quiet, KDesc, KFetch, KStore, KLoad, KDrain, KNextDesc,
       KCq, KIdx, KeepPost, RStates, AfterDrain
  <2>3. CASE KNeed
    BY <2>1, <2>3 DEF KNeed, KeepWalk, Quiet
  <2>4. CASE KNextEnd
    BY <2>1, <2>4 DEF KNextEnd, KeepWalk, Quiet
  <2>5. CASE KDone
    BY <2>1, <2>5 DEF KDone, KeepWalk
  <2> QED BY <2>2, <2>3, <2>4, <2>5
<1> QED BY <1>2, <1>3

\* the servicer answers the request once
LEMMA AnswerStep ==
  ASSUME Inv, Svc, Unanswered'
  PROVE  Unanswered /\ rsp'.seq = rsp.seq
<1>1. sh' = sh
  BY DEF Svc, rtl
<1>2. CASE SvcPostSeq
  BY <1>1, <1>2 DEF SvcPostSeq, Inv, ServicerOk, Unanswered
<1>3. CASE ~SvcPostSeq
  <2>1. rsp'.seq = rsp.seq
    BY <1>3 DEF Svc, host, Servicer, SvcDoorbell, SvcStage, SvcRing, SvcPoll, SvcPost, Inv, ServicerOk
  <2> QED BY <1>1, <2>1 DEF Unanswered
<1> QED BY <1>2, <1>3

LEMMA PostNext ==
  ASSUME Inv, OrderOk, WalkOk, PostOk, [Next]_vars
  PROVE  PostOk'
<1>1. CASE Away
  BY <1>1 DEF Away, PostOk
<1>2. CASE Svc
  <2>1. UNCHANGED <<g, chain, sh, s>>
    BY <1>2 DEF Svc, rtl
  <2>2. Unanswered' => Unanswered
    BY <1>2, AnswerStep
  <2> QED BY <2>1, <2>2 DEF PostOk, Here, Quiet
<1>3. CASE Mem
  <2>1. UNCHANGED <<g, sh, s, rsp>> /\ Cap(chain') = Cap(chain)
    BY <1>3, MemSums DEF Mem, host
  <2> QED BY <2>1 DEF PostOk, Here, Quiet, Unanswered
<1> QED BY <1>1, <1>2, <1>3, PostRun, DataSteps
-----------------------------------------------------------------------------
(* The byte pipe of a READ: staging, beat, hold, buffer *)

LEMMA SliceFacts ==
  ASSUME NEW x \in Seq(Byte), NEW m \in Nat, NEW n \in Nat, m + n <= Len(x)
  PROVE  /\ SubSeq(x, m + 1, m + n) \in Seq(Byte) /\ Len(SubSeq(x, m + 1, m + n)) = n
         /\ \A q \in 1 .. n : SubSeq(x, m + 1, m + n)[q] = x[m + q]
<1> DEFINE u == m + 1
           v == m + n
<1>1. u \in Int /\ v \in Int /\ v - u + 1 = n /\ (IF u <= v THEN v - u + 1 ELSE 0) = n
  OBVIOUS
<1>2. \A i \in u .. v : x[i] \in Byte
  OBVIOUS
<1> HIDE DEF u, v
<1>3. /\ SubSeq(x, u, v) \in Seq(Byte) /\ Len(SubSeq(x, u, v)) = (IF u <= v THEN v - u + 1 ELSE 0)
      /\ \A i \in 1 .. v - u + 1 : SubSeq(x, u, v)[i] = x[u + i - 1]
  BY <1>1, <1>2, SubSeqProperties
<1>4. \A q \in 1 .. n : SubSeq(x, u, v)[q] = x[u + q - 1] /\ u + q - 1 = m + q
  BY <1>1, <1>3 DEF u
<1>5. \A q \in 1 .. n : SubSeq(x, u, v)[q] = x[m + q]
  BY <1>4
<1> QED BY <1>1, <1>3, <1>5 DEF u, v

\* What the channel holds of staging is what comes after the bytes it has stored.
PipeOk ==
  ~Quiet /\ ~s.dir =>
    /\ s.fetch * Lanes = s.xfer + Len(s.hold) + Len(s.beat)
    /\ \A q \in 1 .. Len(s.hold) : s.hold[q] = rdbuf[s.xfer + q]
    /\ \A q \in 1 .. Len(s.beat) : s.beat[q] = rdbuf[s.xfer + Len(s.hold) + q]
    /\ s.state = "S_R_FETCH" => s.beat = <<>>
    /\ s.state = "S_R_FETCH" /\ acc => \A q \in 1 .. Lanes : ld.bytes[q] = rdbuf[s.fetch * Lanes + q]

LEMMA WindowFacts ==
  ASSUME Inv, OrderOk, PipeOk, s.state = "S_R_STORE"
  PROVE  /\ \A q \in 1 .. Len(Window) : Window[q] = rdbuf[s.xfer + q]
         /\ \A q \in 1 .. Take : Stored[q] = rdbuf[s.xfer + q]
         /\ Len(Rest) = Len(Window) - Take
         /\ \A q \in 1 .. Len(Rest) : Rest[q] = rdbuf[s.xfer + Take + q]
         /\ Len(Window) = IF NeedBeat THEN Len(s.hold) + Len(s.beat) ELSE Len(s.hold)
<1>1. ~Quiet /\ ~s.dir
  BY DEF Quiet, OrderOk, RStates
<1>2. Take \in Nat /\ Window \in Seq(Byte) /\ Take <= Len(Window) /\ Len(Window) \in Nat
  BY StoreFacts DEF Inv
<1>3. s.hold \in Seq(Byte) /\ s.beat \in Seq(Byte) /\ s.xfer \in Nat /\ Len(s.hold) \in Nat /\ Len(s.beat) \in Nat
  BY DEF Inv, RegsOk
<1>4. /\ \A q \in 1 .. Len(s.hold) : s.hold[q] = rdbuf[s.xfer + q]
      /\ \A q \in 1 .. Len(s.beat) : s.beat[q] = rdbuf[s.xfer + Len(s.hold) + q]
  BY <1>1 DEF PipeOk
<1>5. /\ Len(s.hold \o s.beat) = Len(s.hold) + Len(s.beat)
      /\ \A i \in 1 .. Len(s.hold) + Len(s.beat) :
            (s.hold \o s.beat)[i] = IF i <= Len(s.hold) THEN s.hold[i] ELSE s.beat[i - Len(s.hold)]
  BY <1>3, ConcatProperties
<1>6. \A q \in 1 .. Len(s.hold) + Len(s.beat) : (s.hold \o s.beat)[q] = rdbuf[s.xfer + q]
  <2> TAKE q \in 1 .. Len(s.hold) + Len(s.beat)
  <2>1. CASE q <= Len(s.hold)
    BY <1>3, <1>4, <1>5, <2>1
  <2>2. CASE q > Len(s.hold)
    <3> DEFINE i == q - Len(s.hold)
    <3>0. \A x, h, b \in Nat : \A j \in 1 .. h + b : j > h => j - h \in 1 .. b /\ x + h + (j - h) = x + j
      OBVIOUS
    <3>1. i \in 1 .. Len(s.beat) /\ s.xfer + Len(s.hold) + i = s.xfer + q
      BY <1>3, <2>2, <3>0
    <3>2. s.beat[i] = rdbuf[s.xfer + Len(s.hold) + i]
      BY <1>4, <3>1
    <3> QED BY <1>3, <1>5, <2>2, <3>1, <3>2
  <2> QED BY <1>3, <2>1, <2>2
<1>7. /\ \A q \in 1 .. Len(Window) : Window[q] = rdbuf[s.xfer + q]
      /\ Len(Window) = IF NeedBeat THEN Len(s.hold) + Len(s.beat) ELSE Len(s.hold)
  BY <1>4, <1>5, <1>6 DEF Window
<1> DEFINE w == Window
           k == Take
<1>8. Stored = SubSeq(w, 1, k) /\ Rest = SubSeq(w, k + 1, Len(w)) /\ w \in Seq(Byte) /\ k \in Nat /\ k <= Len(w)
  BY <1>2 DEF Stored, Rest
<1> HIDE DEF w, k
<1>9. \A q \in 1 .. k : SubSeq(w, 1, k)[q] = w[q]
  <2>1. 0 + k <= Len(w) /\ 0 + 1 = 1 /\ 0 + k = k /\ 0 \in Nat
    BY <1>8
  <2>2. \A q \in 1 .. k : SubSeq(w, 0 + 1, 0 + k)[q] = w[0 + q]
    BY <1>8, <2>1, SliceFacts
  <2>3. \A q \in 1 .. k : 0 + q = q
    BY <1>8
  <2> QED BY <2>1, <2>2, <2>3
<1>10. Len(SubSeq(w, k + 1, Len(w))) = Len(w) - k /\ \A q \in 1 .. Len(w) - k : SubSeq(w, k + 1, Len(w))[q] = w[k + q]
  <2> DEFINE n == Len(w) - k
  <2>1. n \in Nat /\ k + n = Len(w) /\ k + n <= Len(w)
    BY <1>8
  <2> HIDE DEF n
  <2>2. Len(SubSeq(w, k + 1, k + n)) = n /\ \A q \in 1 .. n : SubSeq(w, k + 1, k + n)[q] = w[k + q]
    BY <1>8, <2>1, SliceFacts
  <2> QED BY <2>1, <2>2 DEF n
<1>14. w = Window /\ k = Take
  BY DEF w, k
<1>11. \A q \in 1 .. Take : Stored[q] = rdbuf[s.xfer + q]
  <2> TAKE q \in 1 .. Take
  <2>1. q \in 1 .. Len(Window) /\ Stored[q] = Window[q]
    BY <1>2, <1>8, <1>9, <1>14
  <2> QED BY <2>1, <1>7
<1>12. Len(Rest) = Len(Window) - Take /\ \A q \in 1 .. Len(Rest) : Rest[q] = w[k + q]
  BY <1>8, <1>10 DEF w, k
<1>13. \A q \in 1 .. Len(Rest) : Rest[q] = rdbuf[s.xfer + Take + q]
  <2> TAKE q \in 1 .. Len(Rest)
  <2>1. k + q \in 1 .. Len(w) /\ k + q = Take + q
    BY <1>2, <1>8, <1>12 DEF w, k
  <2>2. Rest[q] = rdbuf[s.xfer + (Take + q)]
    BY <1>7, <1>12, <2>1 DEF w
  <2>3. s.xfer + (Take + q) = s.xfer + Take + q
    BY <1>2, <1>3, <1>12
  <2> QED BY <2>2, <2>3
<1> QED BY <1>7, <1>11, <1>12, <1>13

LEMMA PipeRun ==
  ASSUME Inv, OrderOk, PipeOk, Run
  PROVE  PipeOk'
<1> SUFFICES ASSUME ~Quiet', ~s'.dir
             PROVE  PipeOk'
  BY DEF PipeOk
<1>1. rdbuf' = rdbuf
  BY DEF Run
<1>2. Lanes \in Nat \ {0} /\ s.fetch \in Nat /\ s.xfer \in Nat /\ Len(s.hold) \in Nat /\ Len(s.beat) \in Nat
      /\ s.fetch * Lanes \in Nat
  <2>1. Lanes \in Nat \ {0}
    BY ScsiConstants
  <2>2. s.fetch \in Nat /\ s.xfer \in Nat /\ Len(s.hold) \in Nat /\ Len(s.beat) \in Nat
    BY DEF Inv, RegsOk
  <2>3. s.fetch * Lanes \in Nat
    BY <2>1, <2>2
  <2> QED BY <2>1, <2>2, <2>3
<1>3. CASE KStart
  <2>1. s'.fetch = 0 /\ s'.xfer = 0 /\ s'.hold = <<>> /\ s'.beat = <<>> /\ s'.state = "S_DESC"
    BY <1>3 DEF KStart
  <2>2. 0 * Lanes = 0 /\ Len(<<>>) = 0
    BY <1>2
  <2> QED BY <2>1, <2>2 DEF PipeOk
<1>4. ASSUME ~KStart PROVE ~Quiet /\ ~s.dir
  <2>1. ~Start
    BY <1>4 DEF Run, ChanCase, Tagged, Start, KStay, KDesc, KNeed, KFetch, KStore, KLoad, KDrain, KNextDesc,
       KNextEnd, KDone, KCq, KIdx
  <2> QED BY <2>1 DEF Run, Moved, Tagged, Start
<1>5. CASE KStay
  <2>1. ~Quiet /\ ~s.dir
    BY <1>4, <1>5 DEF KStart, KStay
  <2>2. KeepPipe /\ s'.xfer = s.xfer /\ s'.state = s.state /\ (acc' => acc /\ ld' = ld)
    BY <1>5 DEF KStay, KeepWalk
  <2> QED BY <1>1, <2>1, <2>2 DEF PipeOk, KeepPipe
<1>6. ASSUME ~KStart, acc' = FALSE, KeepPipe, s'.xfer = s.xfer, s'.state = "S_R_FETCH" => s'.beat = <<>>
      PROVE  PipeOk'
  <2>1. ~Quiet /\ ~s.dir
    BY <1>4, <1>6
  <2> QED BY <1>1, <1>6, <2>1 DEF PipeOk, KeepPipe
<1>7. CASE acc' = FALSE /\ (KDesc \/ KNeed \/ KNextDesc \/ KDone \/ KCq \/ KIdx)
  BY <1>6, <1>7 DEF KStart, KDesc, KNeed, KNextDesc, KDone, KCq, KIdx, KeepWalk, KeepPipe
<1>8. CASE acc' = FALSE /\ (KNextEnd \/ KLoad \/ KDrain)
  <2>1. ~KStart
    BY <1>8 DEF KStart, KNextEnd, KLoad, KDrain
  <2>2. ~s.dir
    BY <1>4, <2>1
  <2>3. KNextEnd
    BY <1>8, <2>2 DEF OrderOk, KLoad, KDrain
  <2>4. KeepPipe /\ s'.xfer = s.xfer /\ s'.state # "S_R_FETCH"
    BY <2>2, <2>3 DEF KNextEnd, KeepWalk
  <2> QED BY <1>6, <1>8, <2>1, <2>4
<1>9. CASE acc' = FALSE /\ KFetch
  <2>1. ~Quiet /\ ~s.dir /\ s.state = "S_R_FETCH" /\ acc
    BY <1>4, <1>9 DEF KStart, KFetch
  <2>2. /\ s'.fetch = s.fetch + 1 /\ s'.beat = ld.bytes /\ s'.hold = s.hold /\ s'.xfer = s.xfer
        /\ s'.state = "S_R_STORE" /\ Len(ld.bytes) = Lanes
    BY <1>9, <2>1 DEF KFetch, KeepWalk, Inv, LoadOk
  <2>3. (s.fetch + 1) * Lanes = s.fetch * Lanes + Lanes
    BY <1>2
  <2>4. s.fetch * Lanes = s.xfer + Len(s.hold) /\ Len(s.beat) = 0
    <3>1. s.beat = <<>> /\ s.fetch * Lanes = s.xfer + Len(s.hold) + Len(s.beat)
      BY <2>1 DEF PipeOk
    <3>2. Len(s.beat) = 0
      BY <3>1
    <3> QED BY <1>2, <3>1, <3>2
  <2>5. s'.fetch * Lanes = s'.xfer + Len(s'.hold) + Len(s'.beat)
    BY <1>2, <2>2, <2>3, <2>4
  <2>6. \A q \in 1 .. Len(s'.beat) : s'.beat[q] = rdbuf[s'.xfer + Len(s'.hold) + q]
    BY <2>1, <2>2, <2>4 DEF PipeOk
  <2> QED BY <1>1, <2>1, <2>2, <2>5, <2>6 DEF PipeOk
<1>10. CASE acc' = FALSE /\ KStore
  <2>1. ~Quiet /\ ~s.dir /\ s.state = "S_R_STORE"
    BY <1>4, <1>10 DEF KStart, KStore
  <2>2. /\ s'.hold = Rest /\ s'.beat = (IF NeedBeat THEN <<>> ELSE s.beat) /\ s'.xfer = s.xfer + Take
        /\ s'.fetch = s.fetch /\ (s'.state = "S_R_FETCH" => s'.beat = <<>>)
    BY <1>10 DEF KStore
  <2>3. /\ Len(Rest) = Len(Window) - Take
        /\ \A q \in 1 .. Len(Rest) : Rest[q] = rdbuf[s.xfer + Take + q]
        /\ Len(Window) = IF NeedBeat THEN Len(s.hold) + Len(s.beat) ELSE Len(s.hold)
    BY <2>1, WindowFacts
  <2>4. Take \in Nat /\ Take <= Len(Window) /\ Len(Window) \in Nat
    BY <2>1, StoreFacts DEF Inv
  <2>5. s.fetch * Lanes = s.xfer + Len(s.hold) + Len(s.beat)
    BY <2>1 DEF PipeOk
  <2>8. s.xfer \in Nat /\ Len(s.hold) \in Nat /\ Len(s.beat) \in Nat
    BY <1>2
  <2>6. CASE NeedBeat
    <3>1. s'.beat = <<>> /\ Len(s'.beat) = 0
      BY <2>2, <2>6
    <3>3. s'.fetch * Lanes = s'.xfer + Len(s'.hold) + Len(s'.beat)
      <4> DEFINE x == s.xfer
                 h == Len(s.hold)
                 b == Len(s.beat)
                 r == Len(Rest)
                 w == Len(Window)
      <4>1. x \in Nat /\ h \in Nat /\ b \in Nat /\ w = h + b /\ r = w - Take
        BY <2>3, <2>6, <2>8
      <4> HIDE DEF x, h, b, r, w
      <4>2. x + h + b = (x + Take) + r + 0
        BY <2>4, <4>1
      <4> QED BY <2>2, <2>5, <3>1, <4>2 DEF x, h, b, r
    <3>4. \A q \in 1 .. Len(s'.beat) : s'.beat[q] = rdbuf[s'.xfer + Len(s'.hold) + q]
      BY <3>1
    <3> QED BY <1>1, <1>10, <2>2, <2>3, <3>3, <3>4 DEF PipeOk
  <2>7. CASE ~NeedBeat
    <3>1. s'.beat = s.beat /\ Len(Rest) = Len(s.hold) - Take /\ Len(Rest) \in Nat
      BY <1>2, <2>2, <2>3, <2>4, <2>7
    <3>2. s'.fetch * Lanes = s'.xfer + Len(s'.hold) + Len(s'.beat)
      BY <1>2, <2>2, <2>4, <2>5, <3>1, SMTT(30)
    <3>3. s'.xfer + Len(s'.hold) = s.xfer + Len(s.hold)
      BY <1>2, <2>2, <2>4, <3>1
    <3>4. \A q \in 1 .. Len(s'.beat) : s'.beat[q] = rdbuf[s'.xfer + Len(s'.hold) + q]
      BY <2>1, <3>1, <3>3 DEF PipeOk
    <3> QED BY <1>1, <1>10, <2>2, <2>3, <3>2, <3>4 DEF PipeOk
  <2> QED BY <2>6, <2>7
<1> QED BY <1>3, <1>5, <1>7, <1>8, <1>9, <1>10 DEF Run, ChanCase

LEMMA PipeMem ==
  ASSUME Inv, OrderOk, PipeOk, Mem
  PROVE  PipeOk'
<1>1. s' = s /\ acc' = TRUE /\ rdbuf' = rdbuf
  BY DEF Mem, staging
<1>2. Quiet' <=> Quiet
  BY <1>1 DEF Quiet
<1>3. CASE s.state # "S_R_FETCH"
  BY <1>1, <1>2, <1>3 DEF PipeOk
<1>4. CASE s.state = "S_R_FETCH"
  <2> DEFINE m == s.fetch * Lanes
             b == SubSeq(rdbuf, s.fetch * Lanes + 1, (s.fetch + 1) * Lanes)
  <2>1. ld' = [ld EXCEPT !.bytes = b]
    BY <1>4 DEF Mem
  <2>2. ld'.bytes = b
    <3> HIDE DEF b
    <3> QED BY <2>1 DEF Inv, LoadOk
  <2>3. s.fetch < db.rd_beats /\ s.fetch \in Nat /\ db.rd_beats \in Nat
    <3>1. ~Quiet /\ s.gen_ok /\ s.fetch # s.avail
      BY <1>4 DEF Quiet, Inv, RegsOk
    <3> QED BY <3>1, SMTT(30) DEF Inv, RegsOk, FetchedOk, ServicerOk
  <2>4. Lanes \in Nat
    BY ScsiConstants
  <2>5. /\ m \in Nat /\ (s.fetch + 1) * Lanes = m + Lanes /\ m + Lanes <= Len(rdbuf) /\ rdbuf \in Seq(Byte)
    BY <2>3, <2>4, BeatBounds DEF Inv, StagingOk
  <2>6. b = SubSeq(rdbuf, m + 1, m + Lanes)
    BY <2>5
  <2> HIDE DEF m, b
  <2>7. \A q \in 1 .. Lanes : b[q] = rdbuf[m + q]
    BY <2>4, <2>5, <2>6, SliceFacts
  <2> QED BY <1>1, <1>2, <2>2, <2>7 DEF PipeOk, m
<1> QED BY <1>3, <1>4

\* Nothing of staging is in the pipe before the doorbell.
LEMMA PipeEmpty ==
  ASSUME Inv, PipeOk, ~Quiet, ~s.dir, db.rd_seq # s.seq
  PROVE  s.xfer = 0 /\ Len(s.hold) = 0 /\ Len(s.beat) = 0 /\ ~s.gen_ok
<1>1. ~s.gen_ok /\ s.fetch = 0
  BY DEF Inv, FetchedOk
<1>2. s.fetch * Lanes = s.xfer + Len(s.hold) + Len(s.beat)
  BY DEF PipeOk
<1>3. Lanes \in Nat /\ 0 * Lanes = 0
  <2>1. Lanes \in Nat
    BY ScsiConstants
  <2> QED BY <2>1
<1>4. s.xfer \in Nat /\ Len(s.hold) \in Nat /\ Len(s.beat) \in Nat
  BY DEF Inv, RegsOk
<1>5. 0 = s.xfer + Len(s.hold) + Len(s.beat)
  BY <1>1, <1>2, <1>3
<1> QED BY <1>1, <1>4, <1>5, SMTT(30)

LEMMA PipeSvc ==
  ASSUME Inv, OrderOk, PipeOk, Svc
  PROVE  PipeOk'
<1>1. UNCHANGED <<s, acc, ld>> /\ (Quiet' <=> Quiet)
  BY DEF Svc, rtl, Quiet
<1>2. CASE rdbuf' = rdbuf
  BY <1>1, <1>2 DEF PipeOk
<1>3. CASE SvcStage
  <2> SUFFICES ASSUME ~Quiet, ~s.dir PROVE PipeOk'
    BY <1>1 DEF PipeOk
  <2>1. db.rd_seq # s.seq
    BY <1>3 DEF SvcStage, Inv, ServicerOk, Handshake, ShimOk
  <2>2. s.xfer = 0 /\ Len(s.hold) = 0 /\ Len(s.beat) = 0 /\ ~s.gen_ok /\ s.state # "S_R_FETCH"
    BY <2>1, PipeEmpty DEF Inv, RegsOk
  <2> QED BY <1>1, <2>2 DEF PipeOk
<1> QED BY <1>2, <1>3 DEF Svc, Servicer, staging, SvcDoorbell, SvcRing, SvcPoll, SvcPost, SvcPostSeq

LEMMA PipeNext ==
  ASSUME Inv, OrderOk, PipeOk, [Next]_vars
  PROVE  PipeOk'
<1>1. CASE Away
  BY <1>1 DEF Away, PipeOk
<1> QED BY <1>1, PipeRun, PipeMem, PipeSvc, DataSteps

LEMMA ModFacts ==
  ASSUME NEW x \in Nat, NEW l \in Nat \ {0}, x % l = 0
  PROVE  (x + l) % l = 0 /\ (x >= l => (x - l) % l = 0) /\ (x > 0 => x >= l) /\ 0 % l = 0
<1> DEFINE q == x \div l
<1>1. q \in Nat /\ x = l * q
  BY DivFacts
<1> HIDE DEF q
<1>2. \A y \in Nat, k \in Nat : y = l * k => y % l = 0
  <2> TAKE y \in Nat, k \in Nat
  <2> HAVE y = l * k
  <2>1. y \div l \in Nat /\ y = l * (y \div l) + (y % l) /\ y % l \in 0 .. l - 1
    BY DivFacts
  <2> DEFINE d == y \div l
             r == y % l
  <2>2. d \in Nat /\ l * k = l * d + r /\ r \in 0 .. l - 1 /\ l \in Nat /\ l > 0
    BY <2>1
  <2> HIDE DEF d, r
  <2>3. l * (k - d) = r
    BY <2>2
  <2>4. k - d \in Int /\ ~(k - d >= 1) /\ ~(k - d <= -1)
    <3> DEFINE e == k - d
    <3>1. e \in Int
      BY <2>2
    <3>2. l * e = r
      BY <2>3
    <3> HIDE DEF e
    <3>3. e >= 1 => l * e >= l
      BY <2>2, <3>1
    <3>4. e <= -1 => l * e <= -l
      BY <2>2, <3>1
    <3> QED BY <2>2, <3>1, <3>2, <3>3, <3>4 DEF e
  <2>5. k - d = 0
    BY <2>4
  <2>6. r = 0
    BY <2>2, <2>3, <2>5
  <2> QED BY <2>6 DEF r
<1>3. x + l = l * (q + 1) /\ q + 1 \in Nat /\ x + l \in Nat
  BY <1>1
<1>4. x > 0 => q >= 1
  BY <1>1
<1>5. x > 0 => x >= l
  <2>1. q >= 1 => l * q >= l
    BY <1>1
  <2> QED BY <1>1, <1>4, <2>1
<1>6. x >= l => x - l = l * (q - 1) /\ q - 1 \in Nat /\ x - l \in Nat
  <2>1. x >= l => q >= 1
    BY <1>1, <1>4
  <2> QED BY <1>1, <2>1
<1>7. 0 = l * 0
  OBVIOUS
<1> QED BY <1>2, <1>3, <1>5, <1>6, <1>7, SMTT(30)

\* Buffers of whole lines: every store is a line, and nothing stays in the hold register.
Aligned(c) == \A i \in 1 .. Len(c) : c[i].off = 0 /\ c[i].cnt % Lanes = 0

AlignOk ==
  ~Quiet /\ ~s.dir /\ Aligned(chain) =>
    /\ s.hold = <<>>
    /\ s.state # "S_DESC" => s.off = 0 /\ s.bp % Lanes = 0 /\ s.cnt % Lanes = 0

LEMMA AlignRun ==
  ASSUME Inv, OrderOk, WalkOk, AlignOk, Run
  PROVE  AlignOk'
<1> SUFFICES ASSUME ~Quiet', ~s'.dir, Aligned(chain)
             PROVE  s'.hold = <<>> /\ (s'.state # "S_DESC" => s'.off = 0 /\ s'.bp % Lanes = 0 /\ s'.cnt % Lanes = 0)
  BY DEF AlignOk, Run
<1>1. Lanes \in Nat \ {0}
  BY ScsiConstants
<1>2. CASE KStart
  BY <1>2 DEF KStart
<1>3. ASSUME ~KStart PROVE ~Quiet /\ ~s.dir /\ s.hold = <<>>
  <2>1. ~Start
    BY <1>3 DEF Run, ChanCase, Tagged, Start, KStay, KDesc, KNeed, KFetch, KStore, KLoad, KDrain, KNextDesc,
       KNextEnd, KDone, KCq, KIdx
  <2> QED BY <2>1 DEF Run, Moved, Tagged, Start, AlignOk
<1>4. CASE KDesc
  <2>1. ~Quiet /\ s.hold = <<>> /\ s.state = "S_DESC" /\ acc
    BY <1>3, <1>4 DEF KStart, KDesc
  <2>2. s'.hold = s.hold /\ s'.bp = 0 /\ s'.off = chain[s.nbdp].off /\ s'.cnt = chain[s.nbdp].cnt
        /\ s.nbdp \in 1 .. Len(chain)
    BY <1>4, <2>1 DEF KDesc, KeepPipe, Inv, CursorOk
  <2>3. 0 % Lanes = 0
    BY <1>1
  <2> QED BY <2>1, <2>2, <2>3 DEF Aligned
<1>5. ASSUME ~KStart, s.state # "S_DESC", KeepWalk, s'.hold = s.hold
      PROVE  s'.hold = <<>> /\ s'.off = 0 /\ s'.bp % Lanes = 0 /\ s'.cnt % Lanes = 0
  BY <1>3, <1>5 DEF AlignOk, KeepWalk
<1>6. CASE KStay
  BY <1>3, <1>5, <1>6 DEF KStart, KStay, KeepPipe
<1>7. CASE KNeed \/ KFetch \/ KDone \/ KCq \/ KIdx
  BY <1>5, <1>7 DEF KStart, KNeed, KFetch, KDone, KCq, KIdx, KeepPipe
<1>8. CASE KNextDesc
  BY <1>3, <1>8 DEF KStart, KNextDesc, KeepPipe
<1>9. CASE KNextEnd
  <2>1. ~s.dir
    BY <1>3, <1>9 DEF KStart, KNextEnd
  <2> QED BY <1>5, <1>9, <2>1 DEF KStart, KNextEnd, KeepPipe
<1>10. CASE KLoad \/ KDrain
  BY <1>3, <1>10 DEF KStart, KLoad, KDrain, OrderOk
<1>11. CASE KStore
  <2>1. ~Quiet /\ ~s.dir /\ s.hold = <<>> /\ s.state = "S_R_STORE"
    BY <1>3, <1>11 DEF KStart, KStore
  <2>2. s.off = 0 /\ s.bp % Lanes = 0 /\ s.cnt % Lanes = 0 /\ s.bp \in Nat /\ s.cnt \in Nat /\ s.cnt > 0
    BY <2>1 DEF AlignOk, WalkOk, RStates, Inv, RegsOk
  <2>3. s.cnt >= Lanes /\ (s.cnt - Lanes) % Lanes = 0 /\ (s.bp + Lanes) % Lanes = 0
    BY <1>1, <2>2, ModFacts
  <2>4. Take = Lanes
    <3>1. s.off + s.bp = s.bp /\ Lanes - (s.bp % Lanes) = Lanes
      BY <1>1, <2>2
    <3>2. Take = Min2(Lanes, s.cnt)
      BY <3>1 DEF Take, LineTake
    <3> QED BY <1>1, <2>2, <2>3, <3>2 DEF Min2
  <2>5. Len(s.hold) = 0 /\ Len(s.beat) = Lanes /\ NeedBeat
    <3>1. Len(s.hold) = 0 /\ NeedBeat
      BY <1>1, <2>1, <2>4 DEF NeedBeat
    <3>2. s.beat # <<>> /\ s.beat \in Seq(Byte) /\ Len(s.beat) \in {0, Lanes}
      BY <2>1, <3>1 DEF Inv, RegsOk
    <3> QED BY <3>1, <3>2
  <2>6. Rest \in Seq(Byte) /\ Len(Rest) = 0
    <3>1. Window \in Seq(Byte) /\ Len(Window) = Lanes
      <4>1. s.hold \in Seq(Byte) /\ s.beat \in Seq(Byte)
        BY DEF Inv, RegsOk
      <4>2. Window = s.hold \o s.beat /\ s.hold \o s.beat \in Seq(Byte) /\ Len(s.hold \o s.beat) = Len(s.hold) + Len(s.beat)
        BY <4>1, <2>5, SeqFacts DEF Window
      <4>3. Len(s.hold) + Len(s.beat) = Lanes
        BY <1>1, <2>5
      <4> QED BY <4>2, <4>3
    <3>2. Lanes + 0 <= Len(Window) /\ Lanes + 0 = Lanes /\ Lanes \in Nat /\ 0 \in Nat
      BY <1>1, <3>1
    <3> DEFINE w == Window
    <3>3. w \in Seq(Byte) /\ Lanes + 0 <= Len(w)
      BY <3>1, <3>2
    <3> HIDE DEF w
    <3>4. SubSeq(w, Lanes + 1, Lanes + 0) \in Seq(Byte) /\ Len(SubSeq(w, Lanes + 1, Lanes + 0)) = 0
      BY <3>2, <3>3, SliceFacts
    <3> QED BY <2>4, <3>1, <3>2, <3>4 DEF Rest, w
  <2>7. Rest = <<>>
    BY <2>6
  <2>8. s'.hold = Rest /\ s'.bp = s.bp + Lanes /\ s'.cnt = s.cnt - Lanes /\ s'.off = s.off
    BY <1>11, <2>4 DEF KStore
  <2> QED BY <2>2, <2>3, <2>7, <2>8
<1> QED BY <1>2, <1>4, <1>6, <1>7, <1>8, <1>9, <1>10, <1>11 DEF Run, ChanCase

LEMMA AlignNext ==
  ASSUME Inv, OrderOk, WalkOk, AlignOk, [Next]_vars
  PROVE  AlignOk'
<1>1. CASE Away
  BY <1>1 DEF Away, AlignOk
<1>2. CASE Svc
  BY <1>2 DEF Svc, rtl, AlignOk, Quiet
<1>3. CASE Mem
  <2>1. s' = s /\ (Quiet' <=> Quiet)
    BY <1>3 DEF Mem, Quiet
  <2>2. Aligned(chain') => Aligned(chain)
    BY <1>3, MemShape DEF Aligned
  <2> QED BY <2>1, <2>2 DEF AlignOk
<1> QED BY <1>1, <1>2, <1>3, AlignRun, DataSteps
-----------------------------------------------------------------------------
(* The buffers of a READ *)

\* bytes the guest's buffers have: a store is there before its response
Stord == s.xfer + (IF acc /\ s.state = "S_R_STORE" THEN Take ELSE 0)

\* The buffers hold what was staged, in order, as far as the channel has come; nothing
\* moves before the doorbell of this request.
LandedOk ==
  Here /\ ~s.dir =>
    /\ s.xfer > 0 => db.rd_seq = s.seq
    /\ \A i \in 1 .. Len(chain) : \A j \in 1 .. chain[i].cnt :
         At(chain, i) + j <= Stord => chain[i].buf[j] = rdbuf[At(chain, i) + j]

LEMMA StordNat ==
  ASSUME Inv
  PROVE  Stord \in Nat /\ s.xfer <= Stord /\ s.xfer \in Nat
BY TakeType DEF Inv, RegsOk, Stord

LEMMA StoreEffect ==
  ASSUME Inv, Mem, s.state = "S_R_STORE"
  PROVE  /\ \A i \in 1 .. Len(chain) : i # s.nbdp => chain'[i] = chain[i]
         /\ \A j \in 1 .. chain[s.nbdp].cnt :
              chain'[s.nbdp].buf[j] = IF j - s.bp \in 1 .. Take THEN Stored[j - s.bp] ELSE chain[s.nbdp].buf[j]
<1> DEFINE b == chain[s.nbdp].buf
           buf == [i \in 1 .. Len(b) |-> IF i - s.bp \in 1 .. Take THEN Stored[i - s.bp] ELSE b[i]]
<1>1. s.nbdp \in 1 .. Len(chain)
  BY DEF Inv, CursorOk, Quiet
<1>2. DOMAIN chain = 1 .. Len(chain) /\ IsDesc(chain[s.nbdp])
  BY <1>1 DEF Inv, ChainOk
<1>3. chain' = [chain EXCEPT ![s.nbdp].buf = buf]
  BY DEF Mem
<1>4. Len(b) = chain[s.nbdp].cnt
  BY <1>2 DEF IsDesc
<1>5. \A j \in 1 .. Len(b) : buf[j] = IF j - s.bp \in 1 .. Take THEN Stored[j - s.bp] ELSE b[j]
  OBVIOUS
<1> HIDE DEF buf
<1>6. chain' = [chain EXCEPT ![s.nbdp] = [chain[s.nbdp] EXCEPT !.buf = buf]]
  BY <1>3
<1>7. DOMAIN chain[s.nbdp] = {"off", "cnt", "buf"}
  BY <1>2 DEF IsDesc
<1>8. chain'[s.nbdp] = [chain[s.nbdp] EXCEPT !.buf = buf]
  BY <1>1, <1>2, <1>6
<1>9. chain'[s.nbdp].buf = buf
  BY <1>7, <1>8
<1>10. \A i \in 1 .. Len(chain) : i # s.nbdp => chain'[i] = chain[i]
  BY <1>2, <1>6
<1> QED BY <1>4, <1>5, <1>9, <1>10

LEMMA StoreArith ==
  ASSUME NEW at \in Nat, NEW b \in Nat, NEW t \in Nat, NEW c \in Nat, t <= c, NEW x, x = at + b
  PROVE  x + t \in Nat /\ x + t <= at + (b + c)
OBVIOUS

LEMMA StoreIndex ==
  ASSUME NEW at \in Nat, NEW b \in Nat, NEW t \in Nat, NEW j \in Nat, NEW x, x = at + b, j > b, at + j <= x + t
  PROVE  j - b \in 1 .. t /\ x + (j - b) = at + j
OBVIOUS

LEMMA LandedMem ==
  ASSUME Inv, OrderOk, WalkOk, PipeOk, LandedOk, Mem
  PROVE  LandedOk'
<1>1. s' = s /\ acc' = TRUE /\ UNCHANGED <<g, sh, db, rdbuf>> /\ (Here' <=> Here)
  BY DEF Mem, host, staging, Here
<1>2. CASE s.state # "S_R_STORE"
  <2>1. chain' = chain /\ Stord' = Stord
    BY <1>1, <1>2 DEF Mem, Stord
  <2> QED BY <1>1, <2>1 DEF LandedOk
<1>3. CASE s.state = "S_R_STORE"
  <2> SUFFICES ASSUME Here, ~s.dir PROVE LandedOk'
    BY <1>1 DEF LandedOk
  <2> DEFINE n == s.nbdp
             x == s.xfer
  <2>1. ~acc /\ ~Quiet
    BY <1>3 DEF Mem, Quiet
  <2>2. Stord = x /\ Stord' = x + Take
    <3>1. Take' = Take
      BY <1>1 DEF Take
    <3>2. x \in Nat
      BY DEF Inv, RegsOk
    <3> QED BY <1>1, <1>3, <2>1, <3>1, <3>2 DEF Stord
  <2>3. /\ n \in 1 .. Len(chain) /\ At(chain, n) \in Nat /\ x = At(chain, n) + s.bp
        /\ s.bp + s.cnt = chain[n].cnt /\ s.bp \in Nat /\ s.cnt \in Nat /\ x \in Nat
        /\ Take \in Nat /\ Take <= s.cnt
    BY <1>3, <2>1, WalkFacts, TakeType DEF Inv, RegsOk, CursorOk
  <2>4. /\ \A i \in 1 .. Len(chain) : i # n => chain'[i] = chain[i]
        /\ \A j \in 1 .. chain[n].cnt :
             chain'[n].buf[j] = IF j - s.bp \in 1 .. Take THEN Stored[j - s.bp] ELSE chain[n].buf[j]
    BY <1>3, StoreEffect
  <2>5. \A q \in 1 .. Take : Stored[q] = rdbuf[x + q]
    BY <1>3, WindowFacts
  <2>6. /\ Len(chain') = Len(chain) /\ \A i : At(chain', i) = At(chain, i)
        /\ \A i \in 1 .. Len(chain) : chain'[i].cnt = chain[i].cnt
    BY MemShape, MemSums
  <2>7. \A i \in 1 .. Len(chain) : \A j \in 1 .. chain[i].cnt :
          At(chain, i) + j <= x => chain[i].buf[j] = rdbuf[At(chain, i) + j]
    BY <2>2 DEF LandedOk
  <2>8. Len(chain) \in Nat /\ \A i \in 1 .. Len(chain) : chain[i].cnt \in Nat /\ At(chain, i) \in Nat
    BY AtFacts DEF Inv, ChainOk, IsDesc
  <2>9. \A i, k \in 1 .. Len(chain) : i < k => At(chain, i) + chain[i].cnt <= At(chain, k)
    BY AtFacts DEF Inv
  <2> HIDE DEF n, x
  <2>10. ASSUME NEW i \in 1 .. Len(chain), NEW j \in 1 .. chain[i].cnt, At(chain, i) + j <= x + Take
         PROVE  chain'[i].buf[j] = rdbuf[At(chain, i) + j]
    <3>1. CASE i = n
      <4>1. CASE j <= s.bp
        <5>1. At(chain, n) + j <= x /\ ~(j - s.bp \in 1 .. Take) /\ j \in 1 .. chain[n].cnt
          BY <2>3, <2>8, <3>1, <4>1, SMTT(30)
        <5> QED BY <2>4, <2>7, <3>1, <5>1
      <4>2. CASE j > s.bp
        <5> DEFINE q == j - s.bp
        <5>0. At(chain, n) + j <= x + Take /\ j \in Nat
          BY <2>8, <2>10, <3>1
        <5>1. q \in 1 .. Take /\ x + q = At(chain, n) + j
          <6>1. At(chain, n) \in Nat /\ s.bp \in Nat /\ Take \in Nat /\ x = At(chain, n) + s.bp
            BY <2>3
          <6> QED BY <4>2, <5>0, <6>1, StoreIndex, SMTT(30)
        <5>2. chain'[n].buf[j] = Stored[q]
          BY <2>4, <3>1, <5>1
        <5> QED BY <2>5, <3>1, <5>1, <5>2
      <4> QED BY <2>3, <2>8, <4>1, <4>2, SMTT(30)
    <3>2. CASE i < n
      <4> DEFINE at == At(chain, i)
                 an == At(chain, n)
                 ci == chain[i].cnt
      <4>1. at \in Nat /\ an \in Nat /\ ci \in Nat /\ at + ci <= an
        BY <2>3, <2>8, <2>9, <3>2
      <4>2. x = an + s.bp /\ s.bp \in Nat /\ j \in 1 .. ci
        BY <2>3
      <4>3. i # n
        BY <2>3, <3>2
      <4> HIDE DEF at, an, ci
      <4>4. at + j <= x
        BY <4>1, <4>2
      <4> QED BY <2>4, <2>7, <4>3, <4>4 DEF at
    <3>3. CASE i > n
      <4>1. At(chain, n) + chain[n].cnt <= At(chain, i)
        BY <2>3, <2>9, <3>3
      <4>2. x + Take <= At(chain, n) + chain[n].cnt /\ At(chain, n) + chain[n].cnt \in Nat /\ x + Take \in Nat
        <5>1. x + Take \in Nat /\ x + Take <= At(chain, n) + (s.bp + s.cnt)
          BY <2>3, StoreArith
        <5> DEFINE an == At(chain, n)
                   cn == chain[n].cnt
        <5>2. cn \in Nat /\ an \in Nat /\ s.bp + s.cnt = cn
          BY <2>3, <2>8
        <5>3. x + Take <= an + cn
          BY <5>1, <5>2
        <5> HIDE DEF an, cn
        <5>4. an + cn \in Nat
          BY <5>2
        <5> QED BY <5>1, <5>3, <5>4 DEF an, cn
      <4>3. j >= 1 /\ j \in Nat /\ At(chain, i) \in Nat
        BY <2>8
      <4>4. FALSE
        BY <2>10, <4>1, <4>2, <4>3
      <4> QED BY <4>4
    <3> QED BY <2>3, <2>8, <3>1, <3>2, <3>3
  <2>11. s.xfer > 0 => db.rd_seq = s.seq
    BY DEF LandedOk
  <2> QED BY <1>1, <2>2, <2>6, <2>10, <2>11 DEF LandedOk
<1> QED BY <1>2, <1>3

\* before the doorbell nothing is stored
LEMMA NothingStored ==
  ASSUME Inv, OrderOk, PipeOk, LandedOk, Here, ~s.dir, db.rd_seq # s.seq
  PROVE  Stord = 0 /\ s.xfer = 0 /\ (s.state = "S_R_STORE" => Take = 0)
<1>1. s.xfer = 0
  BY DEF LandedOk, Inv, RegsOk
<1>2. CASE s.state # "S_R_STORE"
  BY <1>1, <1>2 DEF Stord
<1>3. CASE s.state = "S_R_STORE"
  <2>1. ~Quiet
    BY <1>3 DEF Quiet
  <2>2. Len(s.hold) = 0 /\ Len(s.beat) = 0
    BY <2>1, PipeEmpty
  <2>3. Take \in Nat /\ Take <= Len(Window) /\ Len(Window) = IF NeedBeat THEN Len(s.hold) + Len(s.beat) ELSE Len(s.hold)
    BY <1>3, StoreFacts, WindowFacts DEF Inv
  <2>4. Len(Window) = 0
    BY <2>2, <2>3
  <2>5. Take = 0
    <3>1. Take \in Nat /\ Take <= 0
      BY <2>3, <2>4
    <3> QED BY <3>1
  <2> QED BY <1>1, <1>3, <2>5 DEF Stord
<1> QED BY <1>2, <1>3

LEMMA LandedSvc ==
  ASSUME Inv, OrderOk, PipeOk, LandedOk, Svc
  PROVE  LandedOk'
<1>1. UNCHANGED <<g, chain, sh, s, acc>> /\ (Here' <=> Here) /\ Stord' = Stord
  BY DEF Svc, rtl, Here, Stord, Take
<1>2. CASE rdbuf' = rdbuf /\ (db'.rd_seq = db.rd_seq \/ db'.rd_seq = sh.req_seq)
  BY <1>1, <1>2 DEF LandedOk, Here
<1>3. CASE SvcStage
  <2> SUFFICES ASSUME Here, ~s.dir PROVE LandedOk'
    BY <1>1 DEF LandedOk
  <2>1. db.rd_seq # s.seq
    BY <1>3 DEF SvcStage, Inv, ServicerOk, ShimOk, Here
  <2>2. Stord = 0 /\ s.xfer = 0
    BY <2>1, NothingStored
  <2>3. \A i \in 1 .. Len(chain) : At(chain, i) \in Nat /\ chain[i].cnt \in Nat
    BY AtFacts DEF Inv, ChainOk, IsDesc
  <2> QED BY <1>1, <2>2, <2>3 DEF LandedOk
<1>4. SvcStage \/ (rdbuf' = rdbuf /\ (db'.rd_seq = db.rd_seq \/ db'.rd_seq = sh.req_seq))
  <2>1. CASE SvcRing
    BY <2>1 DEF SvcRing, staging, Inv, ServicerOk
  <2>2. CASE SvcPoll
    BY <2>2 DEF SvcPoll, staging, Inv, ServicerOk
  <2> QED BY <2>1, <2>2 DEF Svc, Servicer, SvcDoorbell, SvcPost, SvcPostSeq, staging, host
<1> QED BY <1>2, <1>3, <1>4

LEMMA LandedRun ==
  ASSUME Inv, OrderOk, PipeOk, LandedOk, Run
  PROVE  LandedOk'
<1> SUFFICES ASSUME Here', ~s'.dir PROVE LandedOk'
  BY DEF LandedOk
<1>1. UNCHANGED <<g, chain, rdbuf, db>> /\ sh'.req_seq = sh.req_seq
  BY DEF Run
<1>2. \A i \in 1 .. Len(chain) : At(chain, i) \in Nat /\ chain[i].cnt \in Nat
  BY AtFacts DEF Inv, ChainOk, IsDesc
<1>3. CASE KStart
  <2>1. s'.xfer = 0 /\ Stord' = 0
    BY <1>3 DEF KStart, Stord
  <2> QED BY <1>1, <1>2, <2>1 DEF LandedOk
<1>4. CASE ~KStart
  <2>1. ~Start
    BY <1>4 DEF Run, ChanCase, Tagged, Start, KStay, KDesc, KNeed, KFetch, KStore, KLoad, KDrain, KNextDesc,
       KNextEnd, KDone, KCq, KIdx
  <2>2. s'.seq = s.seq /\ Here /\ ~s.dir
    BY <1>1, <2>1 DEF Run, Tagged, Here
  <2>3. s.xfer \in Nat /\ Take \in Nat /\ Stord \in Nat /\ s.xfer <= Stord
    BY StordNat, TakeType DEF Inv
  <2>4. Stord' <= Stord /\ Stord' \in Nat
    <3>1. CASE KStay
      <4>1. s'.xfer = s.xfer /\ s'.state = s.state /\ Take' = Take /\ (acc' => acc)
        BY <3>1 DEF KStay, KeepWalk, Take
      <4> QED BY <2>3, <4>1 DEF Stord
    <3>2. CASE KStore /\ ~KStay
      <4>1. s'.xfer = s.xfer + Take /\ acc /\ ~acc' /\ s.state = "S_R_STORE"
        BY <3>2 DEF KStore, Run, ChanCase, KStay
      <4> QED BY <2>3, <4>1 DEF Stord
    <3>3. CASE ~KStay /\ ~KStore
      <4>1. ~acc' /\ s'.xfer = s.xfer
        BY <1>4, <2>2, <3>3 DEF Run, ChanCase, KDesc, KNeed, KFetch, KLoad, KDrain, KNextDesc,
           KNextEnd, KDone, KCq, KIdx, KeepWalk, OrderOk
      <4> QED BY <2>3, <4>1 DEF Stord
    <3> QED BY <3>1, <3>2, <3>3
  <2>5. \A i \in 1 .. Len(chain) : \A j \in 1 .. chain[i].cnt :
          At(chain, i) + j <= Stord' => chain[i].buf[j] = rdbuf[At(chain, i) + j]
    <3> SUFFICES ASSUME NEW i \in 1 .. Len(chain), NEW j \in 1 .. chain[i].cnt, At(chain, i) + j <= Stord'
                 PROVE  chain[i].buf[j] = rdbuf[At(chain, i) + j]
      OBVIOUS
    <3>1. At(chain, i) + j <= Stord
      <4>1. At(chain, i) \in Nat /\ j \in Nat
        BY <1>2
      <4> QED BY <2>3, <2>4, <4>1
    <3> QED BY <2>2, <3>1 DEF LandedOk
  <2>6. s'.xfer > 0 => db.rd_seq = s.seq
    <3> SUFFICES ASSUME db.rd_seq # s.seq PROVE ~(s'.xfer > 0)
      OBVIOUS
    <3>2. CASE KStore
      <4>1. s'.xfer = s.xfer + Take /\ s.xfer = 0 /\ Take = 0
        BY <2>2, <3>2, NothingStored DEF KStore
      <4> QED BY <4>1
    <3>3. CASE ~KStore
      <4>1. s'.xfer = s.xfer /\ s.xfer = 0
        BY <1>4, <2>2, <3>3, NothingStored DEF Run, ChanCase, KStay, KDesc, KNeed, KFetch, KLoad, KDrain, KNextDesc,
           KNextEnd, KDone, KCq, KIdx, KeepWalk, OrderOk
      <4> QED BY <4>1
    <3> QED BY <3>2, <3>3
  <2> QED BY <1>1, <2>2, <2>5, <2>6 DEF LandedOk
<1> QED BY <1>3, <1>4

LEMMA LandedNext ==
  ASSUME Inv, OrderOk, WalkOk, PipeOk, LandedOk, [Next]_vars
  PROVE  LandedOk'
<1>1. CASE Away
  BY <1>1 DEF Away, LandedOk
<1> QED BY <1>1, LandedRun, LandedMem, LandedSvc, DataSteps
-----------------------------------------------------------------------------
(* The command: the servicer's account of it, and the guest's *)

Left == Cmd.total - Len(g.past)
Moves == Cmd.kind \in {"read", "write"}

\* The servicer is where the guest is in the command's data: not begun, or after the chunks
\* the guest has taken.
Fresh == g.past = <<>> /\ ~a.active
Going == /\ a.active /\ a.cmd = Len(cmds) /\ a.total = Cmd.total /\ a.pos = Len(g.past) /\ a.pos < a.total
         /\ (a.to_dev <=> Cmd.kind = "write") /\ Moves

\* What an answer says: all the data is moved; this chunk is, and there is more; no target.
AnsweredOk == a.status = "ok" /\ ~a.active /\ (Moves /\ Left > 0 => Here /\ Left <= s.xfer)
AnsweredPause ==
  /\ a.status = "pause" /\ a.active /\ a.cmd = Len(cmds) /\ a.total = Cmd.total
  /\ a.pos = Len(g.past) + Cap(chain) /\ a.pos < a.total /\ (a.to_dev <=> Cmd.kind = "write") /\ Moves
  /\ Here /\ Cap(chain) <= s.xfer
Answer == AnsweredOk \/ AnsweredPause \/ (a.status = "timeout" /\ ~a.active)

ProgressOk ==
  /\ g.pc \in {"idle", "reset"} => ~a.active
  /\ g.pc \in {"dma", "cmd", "paused"} \/ (g.pc = "wait" /\ a.last # sh.req_seq) => Fresh \/ Going
  /\ g.pc = "wait" => sh.req_cdb = Len(cmds)
  /\ g.pc = "wait" /\ a.last = sh.req_seq /\ a.pc \in {"stage", "ring", "wait"} => Going
  /\ a.pc \in {"stage", "ring"} => ~a.to_dev
  /\ g.pc = "wait" /\ a.last = sh.req_seq /\ a.pc \in {"post", "seq", "idle"} => Answer
  /\ a.pc \in {"seq", "idle"} => rsp.status = a.status
  /\ g.pc = "wait" /\ ~sh.bsy => sh.status = rsp.status

\* The channel runs in the direction of the command.
DirOk ==
  /\ g.pc = "cmd" \/ (g.pc = "wait" /\ sh.bsy) => (Cmd.kind = "read" => ~sh.dir) /\ (Cmd.kind = "write" => sh.dir)
  /\ Here => (Cmd.kind = "read" => ~s.dir) /\ (Cmd.kind = "write" => s.dir)

\* The servicer works for a guest that waits; an answered request is finished with.
LEMMA WaitFacts ==
  ASSUME Inv
  PROVE  /\ a.pc # "idle" \/ a.last # sh.req_seq => g.pc = "wait" /\ sh.bsy /\ Unanswered
         /\ g.pc \in {"wait", "reset"} /\ ~sh.bsy => a.pc = "idle" /\ a.last = sh.req_seq
         /\ a.pc # "idle" => a.last = sh.req_seq /\ a.seq = sh.req_seq
         /\ s.go \/ ~Quiet => g.pc = "wait" /\ sh.bsy
<1>1. rsp.seq \in Nat /\ a.last \in Nat /\ sh.req_seq \in Nat /\ rsp.seq <= a.last /\ a.last <= sh.req_seq
  BY DEF Inv, ServicerOk, ShimOk
<1>2. a.pc # "idle" \/ a.last # sh.req_seq => Unanswered
  BY <1>1 DEF Inv, ServicerOk, Unanswered
<1>3. Unanswered => sh.req_seq # sh.done_seq
  BY DEF Inv, ServicerOk, Unanswered
<1>4. sh.req_seq # sh.done_seq => g.pc = "wait" /\ sh.bsy
  BY DEF Inv, DriverOk
<1>5. s.go \/ ~Quiet => sh.bsy
  BY DEF Inv, Handshake, ShimOk
<1>6. sh.bsy => g.pc = "wait"
  BY DEF Inv, DriverOk
<1>7. a.pc # "idle" => a.last = sh.req_seq /\ a.seq = sh.req_seq
  BY DEF Inv, ServicerOk
<1> QED BY <1>2, <1>3, <1>4, <1>5, <1>6, <1>7

LEMMA CmdFacts ==
  ASSUME Inv, g.pc \in {"dma", "cmd", "paused", "wait"}
  PROVE  Cmd \in Commands /\ Cmd.total \in Nat /\ Cmd.kind \in Kinds /\ Len(cmds) \in Nat /\ Left \in Int
<1>1. cmds \in Seq(Commands) /\ Len(cmds) > 0
  BY DEF Inv, CommandOk
<1>2. Cmd \in Commands /\ Len(cmds) \in Nat
  BY <1>1 DEF Cmd
<1>3. Cmd.total \in Nat /\ Cmd.kind \in Kinds
  BY <1>2, ScsiConstants
<1>4. Len(g.past) \in Nat
  BY DEF Inv, DriverOk
<1> QED BY <1>2, <1>3, <1>4 DEF Left

\* While a request is here the channel only moves on.
LEMMA HereRun ==
  ASSUME Inv, OrderOk, Run, Here
  PROVE  Here' /\ s'.xfer >= s.xfer /\ s'.xfer \in Nat /\ s.xfer \in Nat /\ s'.dir = s.dir /\ ~Start
<1>1. ~Start
  BY DEF Start, Here, OrderOk
<1>2. s'.seq = s.seq /\ s'.dir = s.dir /\ g' = g /\ sh'.req_seq = sh.req_seq
  BY <1>1 DEF Run, Tagged
<1>3. s.xfer \in Nat /\ Take \in Nat
  BY TakeType DEF Inv, RegsOk
<1>4. s'.xfer \in {s.xfer, s.xfer + Take}
  <2>1. ~KStart
    <3>1. KStart /\ ~Start => Quiet /\ ~Quiet'
      BY DEF KStart, Quiet
    <3>2. Quiet /\ ~Start => Quiet'
      BY DEF Run, Moved, Start
    <3> QED BY <1>1, <3>1, <3>2
  <2> QED BY <2>1 DEF Run, ChanCase, KStay, KDesc, KNeed, KFetch, KStore, KLoad, KDrain, KNextDesc,
       KNextEnd, KDone, KCq, KIdx, KeepWalk
<1>5. s'.xfer >= s.xfer /\ s'.xfer \in Nat
  BY <1>3, <1>4
<1> QED BY <1>1, <1>2, <1>3, <1>5 DEF Here

\* A read chain longer than the data is of whole lines (the driver's choice of buffers).
FitsOk == g.pc \in {"cmd", "wait"} /\ Cmd.kind = "read" /\ Cap(chain) > Left => Aligned(chain)

\* What is staged for the request is the command's data after the chunks the guest has.
StagedOk ==
  g.pc = "wait" /\ Cmd.kind = "read" /\ (db.rd_seq = sh.req_seq \/ a.pc = "ring") =>
     Len(rdbuf) >= Left /\ \A p \in 1 .. Left : rdbuf[p] = <<Len(cmds), Len(g.past) + p>>

\* the chunks the guest has
PastOk ==
  g.pc \in {"dma", "cmd", "wait", "paused"} /\ Cmd.kind = "read" =>
     Len(g.past) <= Cmd.total /\ \A p \in 1 .. Len(g.past) : g.past[p] = <<Len(cmds), p>>

\* A chain starves only when all the data has been stored.
OverOk ==
  Here /\ Cmd.kind = "read" /\ Unanswered /\ ~Quiet /\ s.state \in {"S_CQ", "S_IDX"} => s.xfer >= Left

Over(n) == n >= Left \/ n = Cap(chain)

\* An entry of the ring for the request: the channel is here, has moved the bytes the entry
\* counts, and they are the whole chain or all the data.
Posted(i) == i < s.cq_prod \/ s.state = "S_IDX" \/ (s.state = "S_CQ" /\ acc)
EntryOk ==
  g.pc = "wait" /\ Unanswered /\ Moves =>
    \A i \in db.cq_cons .. s.cq_prod : Posted(i) /\ cq[i % NCq].seq = sh.req_seq =>
              Here /\ cq[i % NCq].bytes <= s.xfer /\ Over(cq[i % NCq].bytes)
-----------------------------------------------------------------------------
(* What the guest and the servicer do in a step, field by field *)

GCommand == /\ g.pc = "idle" /\ g'.pc = "dma" /\ g'.past = <<>> /\ sh'.req_seq = sh.req_seq
GDma == /\ g.pc = "dma" /\ g'.pc = "cmd" /\ g'.past = g.past /\ cmds' = cmds /\ sh'.req_seq = sh.req_seq
        /\ \E ch \in Chains, dir \in BOOLEAN :
             /\ Fits(ch) /\ (sh'.dir <=> dir) /\ chain' = Built(ch, dir, Len(g.past), Len(cmds))
             /\ (Cmd.kind = "read" => ~dir) /\ (Cmd.kind = "write" => dir)
GSelect == /\ g.pc = "cmd" /\ g'.pc = "wait" /\ g'.past = g.past /\ cmds' = cmds /\ chain' = chain
           /\ sh'.req_seq = sh.req_seq + 1 /\ sh'.req_cdb = Len(cmds) /\ sh'.bsy /\ sh'.dir = sh.dir
GIsr == /\ g.pc \in {"wait", "reset"} /\ cmds' = cmds /\ sh'.req_seq = sh.req_seq
        /\ IF sh.status = "pause" THEN g'.pc = "paused" /\ g'.past = g.past \o Bytes(chain)
                                  ELSE g'.pc = "idle"
GResume == /\ g.pc = "paused" /\ g'.pc = "dma" /\ g'.past = g.past /\ cmds' = cmds /\ sh' = sh
GReset == g.pc = "idle" /\ g'.pc = "reset" /\ sh'.req_seq = sh.req_seq
Guest == GCommand \/ GDma \/ GSelect \/ GIsr \/ GResume \/ GReset

LEMMA GuestSteps ==
  ASSUME Inv, OrderOk, [Next]_vars
  PROVE  Run \/ (Away /\ Guest) \/ Mem \/ Svc
<1>1. CASE UNCHANGED vars
  BY <1>1 DEF vars, Svc, rtl, host, staging
<1>2. CASE Servicer
  <2>1. UNCHANGED rtl
    BY <1>2 DEF Servicer, SvcDoorbell, SvcStage, SvcRing, SvcPoll, SvcPost, SvcPostSeq
  <2> QED BY <1>2, <2>1, SMTT(30) DEF Svc
<1>3. DOMAIN g = {"pc", "past"}
  BY DEF Inv, DriverOk
<1>4. CASE GuestResume
  <2>1. GResume
    BY <1>3, <1>4 DEF GuestResume, GResume
  <2> QED BY <1>4, <2>1, AwayResume DEF Guest
<1>5. ASSUME NEW r \in BOOLEAN, GuestClock(r) PROVE Away /\ Guest
  <2>1. Away /\ ShimOk
    BY <1>5, AwayGuest DEF Inv
  <2>2. ~Complete
    <3>1. g.pc \in {"idle", "dma", "cmd", "reset"} \/ (g.pc = "wait" /\ sh.intrq)
      BY <1>5 DEF GuestClock, GuestCommand, GuestDma, GuestSelect, GuestIsr, GuestReset
    <3> QED BY <3>1 DEF Inv, DriverOk, Complete
  <2>3. ASSUME NEW c \in Commands, GuestCommand(c, r) PROVE GCommand
    <3> DEFINE m == [op |-> "cdb", val |-> Len(cmds) + 1]
    <3>1. ShimStep(m, FALSE) /\ m.op = "cdb"
      BY <2>3 DEF GuestCommand, Clock
    <3> HIDE DEF m
    <3>2. sh'.req_seq = sh.req_seq
      BY <2>1, <3>1, ShimFields
    <3> QED BY <1>3, <2>3, <3>2 DEF GuestCommand, GCommand
  <2>4. ASSUME NEW ch \in Chains, NEW dir \in BOOLEAN, NEW active \in BOOLEAN, GuestDma(ch, dir, active, r)
        PROVE GDma
    <3> DEFINE m == [op |-> "ctrl", active |-> active, dir |-> dir]
    <3>1. ShimStep(m, FALSE) /\ m.op = "ctrl" /\ m.dir = dir
      BY <2>4 DEF GuestDma, Clock
    <3> HIDE DEF m
    <3>2. sh'.req_seq = sh.req_seq /\ (sh'.dir <=> dir)
      BY <2>1, <2>2, <3>1, ShimFields
    <3>3. chain' = Built(ch, dir, Len(g.past), Len(cmds)) /\ Fits(ch)
          /\ (Cmd.kind = "read" => ~dir) /\ (Cmd.kind = "write" => dir)
      BY <2>4 DEF GuestDma, Built
    <3>4. g.pc = "dma" /\ g'.pc = "cmd" /\ g'.past = g.past /\ cmds' = cmds
      BY <1>3, <2>4 DEF GuestDma
    <3> QED BY <3>2, <3>3, <3>4 DEF GDma
  <2>5. ASSUME GuestSelect(r) PROVE GSelect
    <3> DEFINE m == [op |-> "seltx"]
    <3>1. ShimStep(m, FALSE) /\ m.op = "seltx"
      BY <2>5 DEF GuestSelect, Clock
    <3> HIDE DEF m
    <3>2. sh'.req_seq = sh.req_seq + 1 /\ sh'.req_cdb = sh.cdb /\ sh'.bsy /\ sh'.dir = sh.dir
      BY <2>1, <2>2, <3>1, ShimFields
    <3>3. sh.cdb = Len(cmds)
      BY DEF Inv, CommandOk
    <3> QED BY <1>3, <2>5, <3>2, <3>3 DEF GuestSelect, GSelect
  <2>6. ASSUME GuestIsr(r) PROVE GIsr
    <3> DEFINE m == [op |-> "status"]
    <3>1. ShimStep(m, FALSE) /\ m.op = "status"
      BY <2>6 DEF GuestIsr, Clock
    <3> HIDE DEF m
    <3>2. sh'.req_seq = sh.req_seq
      BY <2>1, <3>1, ShimFields
    <3> QED BY <1>3, <2>6, <3>2 DEF GuestIsr, GIsr
  <2>7. ASSUME GuestReset(r) PROVE GReset
    <3> DEFINE m == [op |-> "reset"]
    <3>1. ShimStep(m, FALSE) /\ m.op = "reset"
      BY <2>7 DEF GuestReset, Clock
    <3> HIDE DEF m
    <3>2. sh'.req_seq = sh.req_seq
      BY <2>1, <3>1, ShimFields
    <3> QED BY <1>3, <2>7, <3>2 DEF GuestReset, GReset
  <2> QED BY <1>5, <2>1, <2>3, <2>4, <2>5, <2>6, <2>7 DEF GuestClock, Guest
<1>6. ASSUME NEW r \in BOOLEAN, NEW tick \in BOOLEAN, Idle(r, tick) PROVE Run
  BY <1>6, RunStep
<1> QED BY <1>1, <1>2, <1>4, <1>5, <1>6 DEF Next

\* the doorbell: the command in progress goes on, or a new one is decoded
VDoorbell ==
  /\ sh.req_seq # a.last /\ a'.last = sh.req_seq /\ UNCHANGED <<db, rsp, rdbuf>>
  /\ \/ /\ a.active /\ a.pos < a.total /\ a'.active /\ a'.cmd = a.cmd /\ a'.pos = a.pos /\ a'.total = a.total
        /\ (a'.to_dev <=> a.to_dev) /\ a'.pc = (IF a.to_dev THEN "wait" ELSE "stage") /\ disk' = disk
     \/ /\ ~(a.active /\ a.pos < a.total)
        /\ LET c == cmds[sh.req_cdb]
               data == c.kind \in {"read", "write"} /\ c.total > 0
           IN  /\ a'.cmd = sh.req_cdb /\ a'.pos = 0 /\ a'.total = (IF data THEN c.total ELSE 0)
               /\ (a'.active <=> data) /\ (a'.to_dev <=> c.kind = "write")
               /\ a'.status = (IF c.kind = "timeout" THEN "timeout" ELSE "ok")
               /\ a'.pc = (IF ~data THEN "post" ELSE IF c.kind = "write" THEN "wait" ELSE "stage")
               /\ disk' = IF c.kind = "write" THEN [i \in 1 .. c.total |-> Junk] ELSE disk
VPoll ==
  /\ a.pc = "wait" /\ db.cq_cons # cqprod /\ db'.cq_cons = db.cq_cons + 1 /\ db'.rd_seq = db.rd_seq
  /\ UNCHANGED <<rsp, rdbuf>>
  /\ LET e == cq[db.cq_cons % NCq]
         pos == a.pos + Min2(e.bytes, a.total - a.pos)
         base == (a.pos \div Sector) * Sector
         whole == (Min2(e.bytes, a.total - a.pos) \div Sector) * Sector
     IN  \/ e.seq # a.seq /\ a' = a /\ disk' = disk
         \/ /\ e.seq = a.seq /\ a'.pos = pos /\ a'.pc = "post" /\ (a'.active <=> pos < a.total)
            /\ a'.status = (IF pos < a.total THEN "pause" ELSE "ok")
            /\ a'.last = a.last /\ a'.cmd = a.cmd /\ a'.total = a.total /\ (a'.to_dev <=> a.to_dev)
            /\ disk' = IF a.to_dev
                       THEN [i \in DOMAIN disk |-> IF i - base \in 1 .. whole THEN wrbuf[i - base] ELSE disk[i]]
                       ELSE disk
KeepAcct == UNCHANGED <<a.last, a.cmd, a.active, a.pos, a.total, a.to_dev, a.status>>
VStage == a.pc = "stage" /\ a'.pc = "ring" /\ KeepAcct /\ UNCHANGED <<db.rd_seq, db.cq_cons, rsp, disk>> /\ SvcStage
VRing == /\ a.pc = "ring" /\ a'.pc = "wait" /\ KeepAcct /\ db'.rd_seq = a.seq /\ UNCHANGED <<db.cq_cons, rsp, rdbuf, disk>>
VPost == a.pc = "post" /\ a'.pc = "seq" /\ KeepAcct /\ rsp'.status = a.status /\ rsp'.seq = rsp.seq /\ UNCHANGED <<db, rdbuf, disk>>
VPostSeq == a.pc = "seq" /\ a'.pc = "idle" /\ KeepAcct /\ rsp'.seq = a.seq /\ rsp'.status = rsp.status /\ UNCHANGED <<db, rdbuf, disk>>

LEMMA SvcSteps ==
  ASSUME Inv, Svc
  PROVE  /\ UNCHANGED <<rtl, cq, cqprod, wrbuf>>
         /\ VDoorbell \/ VStage \/ VRing \/ VPoll \/ VPost \/ VPostSeq \/ UNCHANGED <<a, db, rsp, rdbuf, disk>>
<1>1. /\ DOMAIN a = {"pc", "last", "seq", "cmd", "active", "pos", "total", "to_dev", "status"}
      /\ DOMAIN db = {"rd_beats", "rd_seq", "cq_cons"} /\ DOMAIN rsp = {"seq", "status"}
  BY DEF Inv, ServicerOk
<1>2. ASSUME SvcDoorbell PROVE VDoorbell
  <2> DEFINE c == cmds[sh.req_cdb]
             resume == a.active /\ a.pos < a.total
             data == c.kind \in {"read", "write"} /\ c.total > 0
             base == IF resume
                 THEN [a EXCEPT !.status = "ok"]
                 ELSE [a EXCEPT !.cmd = sh.req_cdb, !.pos = 0, !.total = IF data THEN c.total ELSE 0,
                                !.active = data, !.to_dev = c.kind = "write",
                                !.status = IF c.kind = "timeout" THEN "timeout" ELSE "ok"]
  <2>1. a' = [base EXCEPT !.last = sh.req_seq, !.seq = sh.req_seq,
                              !.pc = IF ~base.active THEN "post"
                                     ELSE IF base.to_dev THEN "wait" ELSE "stage"]
    BY <1>2 DEF SvcDoorbell
  <2>2. /\ sh.req_seq # a.last /\ UNCHANGED <<db, rsp, rdbuf>>
        /\ disk' = IF ~resume /\ c.kind = "write" THEN [i \in 1 .. c.total |-> Junk] ELSE disk
    BY <1>2 DEF SvcDoorbell, staging
  <2>3. CASE resume
    <3>1. base = [a EXCEPT !.status = "ok"]
      BY <2>3
    <3> HIDE DEF base
    <3> QED BY <1>1, <2>1, <2>2, <2>3, <3>1 DEF VDoorbell
  <2>4. CASE ~resume
    <3> HIDE DEF c
    <3> DEFINE tot == IF data THEN c.total ELSE 0
               st == IF c.kind = "timeout" THEN "timeout" ELSE "ok"
               w == c.kind = "write"
    <3>1. base = [a EXCEPT !.cmd = sh.req_cdb, !.pos = 0, !.total = tot, !.active = data, !.to_dev = w, !.status = st]
      BY <2>4
    <3> HIDE DEF base, data, tot, st, w
    <3>2. /\ DOMAIN base = DOMAIN a /\ base.cmd = sh.req_cdb /\ base.pos = 0 /\ base.total = tot
          /\ (base.active <=> data) /\ (base.to_dev <=> w) /\ base.status = st
      BY <1>1, <3>1
    <3>3. /\ a'.last = sh.req_seq /\ a'.cmd = sh.req_cdb /\ a'.pos = 0 /\ a'.total = tot /\ (a'.active <=> data)
          /\ (a'.to_dev <=> w) /\ a'.status = st /\ a'.pc = IF ~data THEN "post" ELSE IF w THEN "wait" ELSE "stage"
      BY <1>1, <2>1, <3>2
    <3> QED BY <2>2, <2>4, <3>3 DEF VDoorbell, c, data, tot, st, w
  <2> QED BY <2>3, <2>4
<1>3. ASSUME SvcPoll PROVE VPoll
  <2> DEFINE e == cq[db.cq_cons % NCq]
             pos == a.pos + Min2(e.bytes, a.total - a.pos)
  <2> DEFINE base == (a.pos \div Sector) * Sector
             whole == (Min2(e.bytes, a.total - a.pos) \div Sector) * Sector
             after == IF a.to_dev
                      THEN [i \in DOMAIN disk |-> IF i - base \in 1 .. whole THEN wrbuf[i - base] ELSE disk[i]]
                      ELSE disk
  <2>1. /\ a.pc = "wait" /\ db.cq_cons # cqprod /\ db' = [db EXCEPT !.cq_cons = @ + 1]
        /\ \/ e.seq # a.seq /\ a' = a /\ disk' = disk
           \/ /\ e.seq = a.seq /\ disk' = after
              /\ a' = [a EXCEPT !.pos = pos, !.pc = "post",
                                !.status = IF pos < a.total THEN "pause" ELSE "ok",
                                !.active = pos < a.total]
        /\ UNCHANGED <<rsp, rdbuf>>
    BY <1>3 DEF SvcPoll, staging
  <2> HIDE DEF e, pos, base, whole, after
  <2> DEFINE less == pos < a.total
  <2>2. db'.cq_cons = db.cq_cons + 1 /\ db'.rd_seq = db.rd_seq
    BY <1>1, <2>1
  <2>3. a' = [a EXCEPT !.pos = pos, !.pc = "post", !.status = IF pos < a.total THEN "pause" ELSE "ok",
                       !.active = pos < a.total] =>
        /\ a'.pos = pos /\ a'.pc = "post" /\ (a'.active <=> less)
        /\ a'.status = (IF less THEN "pause" ELSE "ok")
        /\ a'.last = a.last /\ a'.cmd = a.cmd /\ a'.total = a.total /\ (a'.to_dev <=> a.to_dev)
    BY <1>1
  <2> QED BY <2>1, <2>2, <2>3 DEF VPoll, e, pos, base, whole, after
<1>4. ASSUME SvcStage PROVE VStage
  BY <1>1, <1>4 DEF SvcStage, VStage, KeepAcct
<1>5. ASSUME SvcRing PROVE VRing
  BY <1>1, <1>5 DEF SvcRing, VRing, KeepAcct, staging
<1>6. ASSUME SvcPost PROVE VPost
  BY <1>1, <1>6 DEF SvcPost, VPost, KeepAcct, staging
<1>7. ASSUME SvcPostSeq PROVE VPostSeq
  BY <1>1, <1>7, SMTT(30) DEF SvcPostSeq, VPostSeq, KeepAcct, staging
<1>8. UNCHANGED <<rtl, cq, cqprod, wrbuf>>
  BY DEF Svc, staging, Servicer, SvcDoorbell, SvcStage, SvcRing, SvcPoll, SvcPost, SvcPostSeq
<1> QED BY <1>2, <1>3, <1>4, <1>5, <1>6, <1>7, <1>8 DEF Svc, Servicer, host, staging

LEMMA DirNext ==
  ASSUME Inv, OrderOk, DirOk, [Next]_vars
  PROVE  DirOk'
<1>1. CASE Run
  <2>1. UNCHANGED <<g, cmds>> /\ sh'.dir = sh.dir /\ (sh'.bsy => sh.bsy) /\ Cmd' = Cmd /\ sh'.req_seq = sh.req_seq
    BY <1>1 DEF Run, Cmd
  <2>2. CASE Start
    <3>1. (s'.dir <=> sh.dir) /\ g.pc = "wait" /\ sh.bsy
      BY <1>1, <2>2, WaitFacts DEF Start, Run, Tagged, OrderOk
    <3> QED BY <2>1, <3>1 DEF DirOk
  <2>3. CASE ~Start
    <3>1. s'.seq = s.seq /\ s'.dir = s.dir
      BY <1>1, <2>3 DEF Run, Tagged
    <3> QED BY <2>1, <3>1 DEF DirOk, Here
  <2> QED BY <2>2, <2>3
<1>2. CASE Svc \/ Mem
  BY <1>2 DEF Svc, Mem, rtl, DirOk, Here, Cmd
<1>3. CASE Away /\ Guest
  <2>1. ~Here'
    BY <1>3 DEF Away
  <2>2. CASE GDma
    <3>1. (Cmd.kind = "read" => ~sh'.dir) /\ (Cmd.kind = "write" => sh'.dir) /\ Cmd' = Cmd /\ g'.pc = "cmd"
      BY <2>2 DEF GDma, Cmd
    <3> QED BY <2>1, <3>1 DEF DirOk
  <2>3. CASE GSelect
    <3>1. Cmd' = Cmd /\ g.pc = "cmd" /\ sh'.dir = sh.dir
      BY <2>3 DEF GSelect, Cmd
    <3> QED BY <2>1, <3>1 DEF DirOk
  <2>4. CASE ~GDma /\ ~GSelect
    <3>1. g'.pc \notin {"cmd", "wait"}
      BY <1>3, <2>4 DEF Guest, GCommand, GIsr, GResume, GReset
    <3> QED BY <2>1, <3>1 DEF DirOk
  <2> QED BY <2>2, <2>3, <2>4
<1> QED BY <1>1, <1>2, <1>3, GuestSteps

LEMMA FitsNext ==
  ASSUME Inv, OrderOk, FitsOk, [Next]_vars
  PROVE  FitsOk'
<1>1. CASE Run \/ Svc
  BY <1>1 DEF Run, Svc, rtl, FitsOk, Cmd, Left
<1>2. CASE Mem
  <2>1. UNCHANGED <<g, cmds>> /\ Cmd' = Cmd /\ Left' = Left
    BY <1>2 DEF Mem, Cmd, Left
  <2>2. Cap(chain') = Cap(chain) /\ (Aligned(chain) => Aligned(chain'))
    BY <1>2, MemShape, MemSums DEF Aligned
  <2> QED BY <2>1, <2>2 DEF FitsOk
<1>3. CASE Away /\ Guest
  <2>1. CASE GDma
    <3>1. PICK ch \in Chains, dir \in BOOLEAN : Fits(ch) /\ chain' = Built(ch, dir, Len(g.past), Len(cmds))
      BY <2>1 DEF GDma
    <3>2. Len(g.past) \in Nat /\ Len(cmds) \in Nat /\ Cmd' = Cmd /\ Left' = Left
      BY <2>1 DEF Inv, DriverOk, CommandOk, GDma, Cmd, Left
    <3>3. Len(chain') = Len(ch) /\ \A i \in 1 .. Len(ch) : chain'[i].off = ch[i].off /\ chain'[i].cnt = ch[i].cnt
      BY <3>1, <3>2, ChainBuilt
    <3>4. cnts(chain') = [i \in 1 .. Len(ch) |-> ch[i].cnt]
      BY <3>3 DEF cnts
    <3>5. Cap(chain') = Capacity(ch)
      BY <3>3, <3>4 DEF Cap, Capacity
    <3>6. Cmd.kind = "read" /\ Capacity(ch) > Left => Aligned(chain')
      BY <3>1, <3>3 DEF Fits, Left, Aligned
    <3> QED BY <3>2, <3>5, <3>6 DEF FitsOk
  <2>2. CASE GSelect
    BY <2>2 DEF GSelect, FitsOk, Cmd, Left
  <2>3. CASE ~GDma /\ ~GSelect
    <3>1. g'.pc \notin {"cmd", "wait"}
      BY <1>3, <2>3 DEF Guest, GCommand, GIsr, GResume, GReset
    <3> QED BY <3>1 DEF FitsOk
  <2> QED BY <2>1, <2>2, <2>3
<1> QED BY <1>1, <1>2, <1>3, GuestSteps

\* An answer that is due stays true while the channel goes on.
LEMMA AnswerKept ==
  ASSUME Inv, g.pc = "wait", Answer, UNCHANGED <<g, cmds, a>>, Cap(chain') = Cap(chain),
         Here => Here' /\ s'.xfer >= s.xfer /\ s'.xfer \in Nat /\ s.xfer \in Nat
  PROVE  Answer'
<1>1. Cmd' = Cmd /\ Left' = Left /\ (Moves' <=> Moves) /\ Left \in Int /\ Cap(chain) \in Nat
  BY CmdFacts, AtFacts DEF Inv, Cmd, Left, Moves
<1>2. AnsweredOk => AnsweredOk'
  BY <1>1 DEF AnsweredOk
<1>3. AnsweredPause => AnsweredPause'
  BY <1>1 DEF AnsweredPause
<1> QED BY <1>2, <1>3 DEF Answer

LEMMA ProgressRun ==
  ASSUME Inv, OrderOk, ProgressOk, Run
  PROVE  ProgressOk'
<1>1. /\ UNCHANGED <<g, cmds, chain, rsp, a>> /\ sh'.req_seq = sh.req_seq /\ sh'.req_cdb = sh.req_cdb
      /\ sh'.status = (IF Complete THEN rsp.status ELSE sh.status) /\ (sh'.bsy <=> ~Complete /\ sh.bsy)
  BY DEF Run
<1>2. g.pc = "wait" /\ a.last = sh.req_seq /\ a.pc \in {"post", "seq", "idle"} => Answer'
  BY <1>1, HereRun, AnswerKept DEF ProgressOk
<1>3. (Fresh' <=> Fresh) /\ (Going' <=> Going)
  BY <1>1 DEF Fresh, Going, Cmd, Moves
<1> QED BY <1>1, <1>2, <1>3 DEF ProgressOk

LEMMA ProgressMem ==
  ASSUME Inv, ProgressOk, Mem
  PROVE  ProgressOk'
<1>1. UNCHANGED <<g, cmds, sh, s, rsp, a>>
  BY DEF Mem, host
<1>2. Cap(chain') = Cap(chain) /\ s.xfer \in Nat
  BY MemSums DEF Inv, RegsOk
<1>3. g.pc = "wait" /\ a.last = sh.req_seq /\ a.pc \in {"post", "seq", "idle"} => Answer'
  BY <1>1, <1>2, AnswerKept DEF ProgressOk, Here
<1>4. (Fresh' <=> Fresh) /\ (Going' <=> Going)
  BY <1>1 DEF Fresh, Going, Cmd, Moves
<1> QED BY <1>1, <1>3, <1>4 DEF ProgressOk

\* the chain's bytes, as many as its buffers hold
LEMMA ChainBytes ==
  ASSUME ChainOk
  PROVE  /\ Bytes(chain) = BytesTo(chain, Len(chain)) /\ Bytes(chain) \in Seq(Byte)
         /\ Len(Bytes(chain)) = Cap(chain)
<1>1. Bytes(chain) = BytesTo(chain, Len(chain)) /\ Len(chain) \in Nat
  BY DEF Bytes, BytesTo, ChainOk
<1>2. \A i \in 1 .. Len(chain) : /\ chain[i].cnt \in Nat /\ chain[i].buf \in Seq(Byte)
                                 /\ Len(chain[i].buf) = chain[i].cnt
  BY DEF ChainOk, IsDesc
<1>3. /\ BytesTo(chain, Len(chain)) \in Seq(Byte)
      /\ Len(BytesTo(chain, Len(chain))) = SumTo(cnts(chain), Len(chain))
  BY <1>1, <1>2, BytesType
<1> QED BY <1>1, <1>3 DEF Cap

LEMMA ProgressGuest ==
  ASSUME Inv, Inv', ProgressOk, Away, Guest
  PROVE  ProgressOk'
<1>1. UNCHANGED <<rsp, a>> /\ ~sh.bsy
  BY DEF Away
<1>2. a.pc = "idle" /\ a.last = sh.req_seq
  BY <1>1, WaitFacts
<1>3. a'.pc = "idle" /\ rsp'.status = a'.status
  BY <1>1, <1>2 DEF ProgressOk
<1>4. CASE GCommand
  <2>1. Fresh'
    BY <1>1, <1>4 DEF GCommand, Fresh, ProgressOk
  <2> QED BY <1>3, <1>4, <2>1 DEF GCommand, ProgressOk
<1>5. CASE GDma \/ GResume
  <2>1. (Fresh => Fresh') /\ (Going => Going')
    BY <1>1, <1>5 DEF GDma, GResume, Fresh, Going, Cmd, Moves
  <2> QED BY <1>3, <1>5, <2>1 DEF GDma, GResume, ProgressOk
<1>6. CASE GSelect
  <2>1. (Fresh => Fresh') /\ (Going => Going') /\ (Fresh \/ Going)
    BY <1>1, <1>6 DEF GSelect, Fresh, Going, Cmd, Moves, ProgressOk
  <2>2. sh'.req_seq # a'.last
    BY <1>1, <1>2, <1>6 DEF GSelect, Inv, ShimOk
  <2> QED BY <1>3, <1>6, <2>1, <2>2 DEF GSelect, ProgressOk
<1>7. CASE GReset
  BY <1>1, <1>3, <1>7 DEF GReset, ProgressOk
<1>8. CASE GIsr /\ sh.status # "pause"
  <2>1. CASE g.pc = "reset"
    BY <1>1, <1>3, <1>8, <2>1 DEF GIsr, ProgressOk
  <2>2. CASE g.pc = "wait"
    <3>1. Answer /\ a.status = sh.status
      BY <1>1, <1>2, <2>2 DEF ProgressOk
    <3>2. ~a.active
      BY <1>8, <3>1 DEF Answer, AnsweredOk, AnsweredPause
    <3> QED BY <1>1, <1>3, <1>8, <3>2 DEF GIsr, ProgressOk
  <2> QED BY <1>8, <2>1, <2>2 DEF GIsr
<1>9. CASE GIsr /\ sh.status = "pause"
  <2>1. g.pc = "wait" /\ cmds' = cmds /\ g'.pc = "paused" /\ g'.past = g.past \o Bytes(chain)
    BY <1>9 DEF GIsr, Inv, DriverOk
  <2>2. Answer /\ a.status = "pause"
    BY <1>1, <1>2, <1>9, <2>1 DEF ProgressOk
  <2>3. AnsweredPause
    BY <2>2 DEF Answer, AnsweredOk
  <2>4. Bytes(chain) \in Seq(Byte) /\ Len(Bytes(chain)) = Cap(chain) /\ g.past \in Seq(Byte)
    BY ChainBytes DEF Inv, DriverOk
  <2>5. Len(g.past \o Bytes(chain)) = Len(g.past) + Cap(chain)
    <3> DEFINE b == Bytes(chain)
    <3>1. b \in Seq(Byte) /\ Len(b) = Cap(chain)
      BY <2>4
    <3> HIDE DEF b
    <3>2. Len(g.past \o b) = Len(g.past) + Len(b)
      BY <2>4, <3>1, SeqFacts
    <3> QED BY <3>1, <3>2 DEF b
  <2>6. Going'
    BY <1>1, <2>1, <2>3, <2>5 DEF AnsweredPause, Going, Cmd, Moves
  <2> QED BY <1>3, <2>1, <2>6 DEF ProgressOk
<1> QED BY <1>4, <1>5, <1>6, <1>7, <1>8, <1>9 DEF Guest

LEMMA ProgressDoorbell ==
  ASSUME Inv, ProgressOk, UNCHANGED rtl, VDoorbell
  PROVE  ProgressOk'
<1>1. /\ g.pc = "wait" /\ sh.bsy /\ a'.last = sh.req_seq /\ UNCHANGED <<g, cmds, chain, sh, s, rsp>>
      /\ Cmd' = Cmd /\ (Moves' <=> Moves) /\ Left' = Left
  BY WaitFacts DEF VDoorbell, rtl, Cmd, Moves, Left
<1>2. (Fresh \/ Going) /\ sh.req_cdb = Len(cmds) /\ cmds[sh.req_cdb] = Cmd
  BY <1>1 DEF ProgressOk, VDoorbell, Cmd
<1>3. Cmd.total \in Nat /\ Cmd.kind \in Kinds /\ Len(cmds) \in Nat
  BY <1>1, CmdFacts
<1>4. CASE a.active /\ a.pos < a.total
  <2>1. Going
    BY <1>2, <1>4 DEF Fresh
  <2>2. Going' /\ a'.pc = (IF a.to_dev THEN "wait" ELSE "stage") /\ (a'.to_dev <=> a.to_dev)
    BY <1>1, <1>4, <2>1 DEF VDoorbell, Going
  <2> QED BY <1>1, <1>2, <2>2 DEF ProgressOk
<1>5. CASE ~(a.active /\ a.pos < a.total)
  <2>1. Len(g.past) = 0 /\ Left = Cmd.total
    BY <1>2, <1>3, <1>5 DEF Fresh, Going, Left
  <2> DEFINE data == Moves /\ Cmd.total > 0
  <2>2. /\ a'.cmd = sh.req_cdb /\ a'.pos = 0 /\ a'.total = (IF data THEN Cmd.total ELSE 0)
        /\ (a'.active <=> data) /\ (a'.to_dev <=> Cmd.kind = "write")
        /\ a'.status = (IF Cmd.kind = "timeout" THEN "timeout" ELSE "ok")
        /\ a'.pc = IF ~data THEN "post" ELSE IF Cmd.kind = "write" THEN "wait" ELSE "stage"
    BY <1>2, <1>5 DEF VDoorbell, Moves
  <2>3. CASE data
    <3>1. Going'
      BY <1>1, <1>2, <2>1, <2>2, <2>3 DEF Going
    <3>2. a'.pc \in {"wait", "stage"} /\ (a'.pc = "stage" => ~a'.to_dev)
      BY <2>2, <2>3
    <3> QED BY <1>1, <1>2, <3>1, <3>2 DEF ProgressOk
  <2>4. CASE ~data
    <3>1. Answer'
      <4>1. CASE Cmd.kind = "timeout"
        BY <2>2, <2>4, <4>1 DEF Answer
      <4>2. CASE Cmd.kind # "timeout"
        BY <1>1, <2>1, <2>2, <2>4, <4>2 DEF Answer, AnsweredOk
      <4> QED BY <4>1, <4>2
    <3>2. a'.pc = "post"
      BY <2>2, <2>4
    <3> QED BY <1>1, <1>2, <3>1, <3>2 DEF ProgressOk
  <2> QED BY <2>3, <2>4
<1> QED BY <1>4, <1>5

\* the entry at the head of the ring has been posted
LEMMA HeadPosted ==
  ASSUME Inv, db.cq_cons # cqprod
  PROVE  Posted(db.cq_cons) /\ db.cq_cons \in db.cq_cons .. s.cq_prod /\ db.cq_cons \in Nat
BY DEF Inv, RingOk, Posted

LEMMA PollArith ==
  ASSUME NEW bytes \in Nat, NEW pos \in Nat, NEW total \in Nat, pos < total
  PROVE  /\ bytes >= total - pos => pos + Min2(bytes, total - pos) = total
         /\ bytes < total - pos => pos + Min2(bytes, total - pos) = pos + bytes /\ pos + bytes < total
BY DEF Min2

LEMMA ProgressPoll ==
  ASSUME Inv, ProgressOk, EntryOk, UNCHANGED rtl, VPoll
  PROVE  ProgressOk'
<1>1. /\ g.pc = "wait" /\ sh.bsy /\ Unanswered /\ a.last = sh.req_seq /\ a.seq = sh.req_seq /\ a.pc = "wait"
      /\ UNCHANGED <<g, cmds, chain, sh, s, rsp>> /\ Cmd' = Cmd /\ (Moves' <=> Moves) /\ Left' = Left
      /\ (Here' <=> Here)
  BY WaitFacts DEF VPoll, rtl, Cmd, Moves, Left, Here
<1>2. Going /\ sh.req_cdb = Len(cmds)
  BY <1>1 DEF ProgressOk
<1> DEFINE e == cq[db.cq_cons % NCq]
           pos == a.pos + Min2(e.bytes, a.total - a.pos)
<1>3. CASE a' = a
  BY <1>1, <1>3 DEF ProgressOk, Going
<1>4. CASE /\ e.seq = a.seq /\ a'.pos = pos /\ a'.pc = "post" /\ (a'.active <=> pos < a.total)
           /\ a'.status = (IF pos < a.total THEN "pause" ELSE "ok")
           /\ a'.last = a.last /\ a'.cmd = a.cmd /\ a'.total = a.total /\ (a'.to_dev <=> a.to_dev)
  <2>1. Here /\ e.bytes <= s.xfer /\ Over(e.bytes)
    BY <1>1, <1>2, <1>4, HeadPosted DEF EntryOk, Going, VPoll
  <2>2. e.bytes \in Nat
    <3>1. NCq \in Nat \ {0} /\ db.cq_cons \in Nat
      BY ScsiConstants DEF Inv, RingOk
    <3>2. db.cq_cons % NCq \in 0 .. NCq - 1
      BY <3>1
    <3> QED BY <3>2 DEF Inv, StagingOk
  <2> DEFINE bytes == e.bytes
  <2>3. /\ bytes \in Nat /\ bytes <= s.xfer /\ (bytes >= Left \/ bytes = Cap(chain)) /\ pos = a.pos + Min2(bytes, a.total - a.pos)
        /\ s.xfer \in Nat /\ Cap(chain) \in Nat
    BY <2>1, <2>2, AtFacts DEF Over, Inv, RegsOk
  <2>4. a.pos \in Nat /\ a.total \in Nat /\ a.pos < a.total /\ Left = a.total - a.pos /\ a.pos = Len(g.past)
    BY <1>2 DEF Going, Left, Inv, ServicerOk
  <2> HIDE DEF bytes, pos, e
  <2>5. CASE bytes >= Left
    <3>1. pos = a.total /\ Left <= s.xfer
      BY <2>3, <2>4, <2>5, PollArith
    <3>2. a'.status = "ok" /\ ~a'.active
      BY <1>4, <2>4, <3>1
    <3>3. Answer'
      BY <1>1, <2>1, <3>1, <3>2 DEF Answer, AnsweredOk
    <3> QED BY <1>1, <1>2, <1>4, <3>3 DEF ProgressOk
  <2>6. CASE bytes < Left
    <3>4. bytes < a.total - a.pos /\ bytes = Cap(chain)
      <4>1. Left \in Int /\ ~(bytes >= Left)
        BY <2>3, <2>4, <2>6
      <4> QED BY <2>3, <2>4, <2>6, <4>1
    <3>5. pos = a.pos + bytes /\ a.pos + bytes < a.total
      BY <2>3, <2>4, <3>4, PollArith
    <3>1. pos = a.pos + Cap(chain) /\ pos < a.total /\ Cap(chain) <= s.xfer
      BY <2>3, <3>4, <3>5
    <3>2. a'.status = "pause" /\ a'.active
      BY <1>4, <3>1
    <3>3. Answer'
      BY <1>1, <1>2, <1>4, <2>1, <2>4, <3>1, <3>2 DEF Answer, AnsweredPause, Going
    <3> QED BY <1>1, <1>2, <1>4, <3>3 DEF ProgressOk
  <2>7. Left \in Int
    BY <2>4
  <2> QED BY <2>3, <2>5, <2>6, <2>7
<1> QED BY <1>3, <1>4 DEF VPoll

LEMMA ProgressSvc ==
  ASSUME Inv, ProgressOk, EntryOk, Svc
  PROVE  ProgressOk'
<1>1. UNCHANGED <<rtl, cq, cqprod>>
  BY SvcSteps
<1>2. UNCHANGED <<g, cmds, chain, sh, s>>
  BY <1>1 DEF rtl
<1>3. CASE UNCHANGED <<a, db, rsp, rdbuf, disk>>
  BY <1>2, <1>3 DEF ProgressOk, Fresh, Going, Answer, AnsweredOk, AnsweredPause, Here, Cmd, Moves, Left
<1>4. ASSUME KeepAcct
      PROVE (Fresh' <=> Fresh) /\ (Going' <=> Going) /\ (Answer' <=> Answer)
  BY <1>2, <1>4 DEF KeepAcct, Fresh, Going, Answer, AnsweredOk, AnsweredPause, Here, Cmd, Moves, Left
<1>5. a.pc # "idle" => g.pc = "wait" /\ sh.bsy /\ a.last = sh.req_seq
  BY WaitFacts
<1>6. CASE VStage
  BY <1>2, <1>4, <1>5, <1>6 DEF VStage, ProgressOk, KeepAcct
<1>7. CASE VRing
  BY <1>2, <1>4, <1>5, <1>7 DEF VRing, ProgressOk, KeepAcct
<1>8. CASE VPost
  BY <1>2, <1>4, <1>5, <1>8 DEF VPost, ProgressOk, KeepAcct
<1>9. CASE VPostSeq
  BY <1>2, <1>4, <1>5, <1>9 DEF VPostSeq, ProgressOk, KeepAcct
<1> QED BY <1>1, <1>3, <1>6, <1>7, <1>8, <1>9, SvcSteps, ProgressDoorbell, ProgressPoll

LEMMA ProgressNext ==
  ASSUME Inv, Inv', OrderOk, ProgressOk, EntryOk, [Next]_vars
  PROVE  ProgressOk'
BY GuestSteps, ProgressRun, ProgressMem, ProgressGuest, ProgressSvc

\* the elements of a concatenation
LEMMA JoinFacts ==
  ASSUME NEW x \in Seq(Byte), NEW y \in Seq(Byte)
  PROVE  /\ x \o y \in Seq(Byte) /\ Len(x \o y) = Len(x) + Len(y) /\ Len(x) \in Nat /\ Len(y) \in Nat
         /\ \A i \in 1 .. Len(x) : (x \o y)[i] = x[i]
         /\ \A j \in 1 .. Len(y) : (x \o y)[Len(x) + j] = y[j]
<1>1. /\ x \o y \in Seq(Byte) /\ Len(x \o y) = Len(x) + Len(y)
      /\ \A i \in 1 .. Len(x) + Len(y) : (x \o y)[i] = IF i <= Len(x) THEN x[i] ELSE y[i - Len(x)]
  BY ConcatProperties
<1> DEFINE z == x \o y
           m == Len(x)
           n == Len(y)
<1>2. m \in Nat /\ n \in Nat /\ \A i \in 1 .. m + n : z[i] = IF i <= m THEN x[i] ELSE y[i - m]
  BY <1>1
<1> HIDE DEF z, m, n
<1>3. \A i \in 1 .. m : z[i] = x[i]
  BY <1>2
<1>4. \A j \in 1 .. n : z[m + j] = y[j]
  <2> TAKE j \in 1 .. n
  <2>1. m + j \in 1 .. m + n /\ ~(m + j <= m) /\ (m + j) - m = j
    BY <1>2
  <2> QED BY <1>2, <2>1
<1> QED BY <1>1, <1>2, <1>3, <1>4 DEF z, m, n

LEMMA StagedStage ==
  ASSUME Inv, Inv', ProgressOk, UNCHANGED rtl, VStage
  PROVE  StagedOk'
<1>1. g.pc = "wait" /\ Going /\ UNCHANGED <<g, cmds>>
  BY WaitFacts DEF VStage, ProgressOk, rtl
<1> DEFINE n == a.total - a.pos
           d == Data(a.cmd, a.pos, a.total)
           beats == (Len(d) + Lanes - 1) \div Lanes
           pad == [i \in 1 .. beats * Lanes - Len(d) |-> Pad]
<1>2. rdbuf' = d \o pad
  BY DEF VStage, SvcStage
<1>3. n \in Nat /\ a.pos \in Nat /\ a.pos + n = a.total /\ Left = n /\ a.cmd = Len(cmds) /\ a.pos = Len(g.past) /\ a.cmd \in Nat
  <2>1. a.pos \in Nat /\ a.total \in Nat /\ a.pos <= a.total /\ a.cmd \in Nat
    BY DEF Inv, ServicerOk
  <2>2. a.total = Cmd.total /\ a.pos = Len(g.past) /\ a.cmd = Len(cmds)
    BY <1>1 DEF Going
  <2>3. Left = n
    BY <2>2 DEF Left
  <2>4. n \in Nat /\ a.pos + n = a.total
    BY <2>1
  <2> QED BY <2>1, <2>2, <2>3, <2>4
<1> HIDE DEF n
<1>4. d \in Seq(Byte) /\ Len(d) = n /\ \A j \in 1 .. n : d[j] = <<a.cmd, a.pos + j>>
  <2>1. /\ Data(a.cmd, a.pos, a.pos + n) \in Seq(Byte) /\ Len(Data(a.cmd, a.pos, a.pos + n)) = n
        /\ \A j \in 1 .. n : Data(a.cmd, a.pos, a.pos + n)[j] = <<a.cmd, a.pos + j>>
    BY <1>3, DataFacts, ZenonT(30)
  <2> QED BY <1>3, <2>1
<1> HIDE DEF d
<1>5. beats \in Nat /\ beats * Lanes \in Nat /\ beats * Lanes >= Len(d)
  <2>1. Lanes \in Nat \ {0}
    BY ScsiConstants
  <2>2. Len(d) \in Nat
    BY <1>4
  <2> QED BY <2>1, <2>2, CeilFacts
<1> HIDE DEF beats
<1>6. pad \in Seq(Byte)
  <2> DEFINE k == beats * Lanes - Len(d)
  <2>1. k \in Nat /\ Pad \in Byte
    BY <1>4, <1>5 DEF Pad, Byte
  <2>2. pad = [i \in 1 .. k |-> Pad]
    OBVIOUS
  <2> HIDE DEF k, pad
  <2> QED BY <2>1, <2>2
<1> HIDE DEF pad
<1>7. Len(d \o pad) = Len(d) + Len(pad) /\ \A i \in 1 .. Len(d) : (d \o pad)[i] = d[i]
  BY <1>4, <1>6, JoinFacts
<1>8. Len(rdbuf') >= n
  <2>1. Len(d) = n /\ Len(pad) \in Nat
    BY <1>4, <1>6
  <2> DEFINE x == Len(pad)
             y == Len(rdbuf')
  <2>2. y = n + x /\ x \in Nat
    BY <1>2, <1>7, <2>1
  <2> HIDE DEF x, y
  <2>3. y >= n
    BY <1>3, <2>2
  <2> QED BY <2>3 DEF y
<1>9. \A p \in 1 .. n : rdbuf'[p] = <<Len(cmds), Len(g.past) + p>>
  BY <1>2, <1>3, <1>4, <1>7
<1>10. Left' = Left
  BY <1>1 DEF Left, Cmd
<1> QED BY <1>1, <1>3, <1>8, <1>9, <1>10 DEF StagedOk

LEMMA StagedNext ==
  ASSUME Inv, Inv', OrderOk, ProgressOk, StagedOk, [Next]_vars
  PROVE  StagedOk'
<1>1. CASE Run
  BY <1>1 DEF Run, StagedOk, Cmd, Left
<1>2. CASE Mem
  BY <1>2 DEF Mem, StagedOk, Cmd, Left, staging, host
<1>3. CASE Away /\ Guest
  <2> SUFFICES ASSUME g'.pc = "wait" PROVE ~(db'.rd_seq = sh'.req_seq \/ a'.pc = "ring")
    BY DEF StagedOk
  <2>1. sh'.req_seq = sh.req_seq + 1 /\ UNCHANGED <<db, a>> /\ a.pc = "idle"
    BY <1>3, WaitFacts DEF Away
  <2>2. db.rd_seq <= a.last /\ a.last <= sh.req_seq /\ db.rd_seq \in Nat /\ a.last \in Nat /\ sh.req_seq \in Nat
    BY DEF Inv, ServicerOk, ShimOk
  <2> QED BY <2>1, <2>2
<1>4. CASE Svc
  <2>1. UNCHANGED <<rtl, g, cmds, sh>> /\ Cmd' = Cmd /\ Left' = Left
    BY <1>4, SvcSteps DEF rtl, Cmd, Left
  <2>2. CASE VStage
    BY <2>1, <2>2, StagedStage
  <2>3. CASE rdbuf' = rdbuf /\ (a'.pc = "ring" \/ db'.rd_seq = sh.req_seq => a.pc = "ring" \/ db.rd_seq = sh.req_seq)
    BY <2>1, <2>3 DEF StagedOk
  <2> QED BY <1>4, <2>2, <2>3, SvcSteps DEF VDoorbell, VRing, VPoll, VPost, VPostSeq
<1> QED BY <1>1, <1>2, <1>3, <1>4, GuestSteps

LEMMA OverArith ==
  ASSUME NEW xfer \in Nat, NEW hold \in Nat, NEW cnt \in Nat, NEW take \in Nat, NEW cap \in Nat, NEW left \in Int,
         take > hold, take <= cnt, xfer + cnt <= cap, xfer + hold >= left, cap > left => hold = 0
  PROVE  xfer >= left
OBVIOUS

\* A READ that waits for a beat with all the beats fetched has stored all the data.
LEMMA StarvedOver ==
  ASSUME Inv, OrderOk, WalkOk, PipeOk, AlignOk, FitsOk, StagedOk, Here, Cmd.kind = "read", s.state = "S_R_NEED", RdStalled, s.gen_ok
  PROVE  s.xfer >= Left
<1>1. ~Quiet /\ ~s.dir
  BY DEF Quiet, OrderOk, RStates
<1>2. Take > Len(s.hold) /\ s.beat = <<>> /\ s.fetch = s.avail
  BY DEF RdStalled, FetchOk, NeedBeat
<1>3. s.avail = db.rd_beats /\ db.rd_seq = s.seq
  BY <1>1 DEF Inv, FetchedOk
<1>4. Len(rdbuf) = s.fetch * Lanes
  BY <1>2, <1>3 DEF Inv, StagingOk
<1>5. s.fetch * Lanes = s.xfer + Len(s.hold) + Len(s.beat)
  BY <1>1 DEF PipeOk
<1>6. Len(rdbuf) >= Left
  BY <1>3 DEF StagedOk, Here
<1> DEFINE hold == Len(s.hold)
           beat == Len(s.beat)
           buf == Len(rdbuf)
<1>7. buf = s.xfer + hold + beat /\ beat = 0 /\ buf >= Left
  BY <1>2, <1>4, <1>5, <1>6
<1>8. hold \in Nat /\ s.xfer \in Nat /\ s.cnt \in Nat /\ Take \in Nat /\ Take <= s.cnt /\ Take > hold
  BY <1>2, TakeType DEF Inv, RegsOk
<1>9. Cap(chain) \in Nat /\ s.xfer + s.cnt <= Cap(chain) /\ Left \in Int
  BY <1>1, AtFacts, WalkFacts, CmdFacts DEF Inv, Here
<1>10. Cap(chain) > Left => hold = 0
  <2>1. Cap(chain) > Left => s.hold = <<>>
    BY <1>1 DEF FitsOk, AlignOk, Here
  <2> QED BY <2>1
<1> HIDE DEF hold, beat, buf
<1>11. s.xfer + hold >= Left
  BY <1>7, <1>8, <1>9
<1> DEFINE cap == Cap(chain)
           take == Take
           left == Left
<1>12. /\ cap \in Nat /\ take \in Nat /\ left \in Int /\ take > hold /\ take <= s.cnt /\ s.xfer + s.cnt <= cap
       /\ s.xfer + hold >= left /\ (cap > left => hold = 0)
  BY <1>8, <1>9, <1>10, <1>11
<1> HIDE DEF cap, take, left
<1>13. s.xfer >= left
  BY <1>8, <1>12, OverArith
<1> QED BY <1>13 DEF left

LEMMA OverNext ==
  ASSUME Inv, OrderOk, WalkOk, PipeOk, AlignOk, FitsOk, StagedOk, OverOk, [Next]_vars
  PROVE  OverOk'
<1>1. CASE Run
  <2> SUFFICES ASSUME Here', Cmd'.kind = "read", Unanswered', ~Quiet', s'.state \in {"S_CQ", "S_IDX"}
               PROVE  s'.xfer >= Left'
    BY DEF OverOk
  <2>1. Cmd' = Cmd /\ Left' = Left /\ Unanswered /\ g' = g /\ sh'.req_seq = sh.req_seq
    BY <1>1 DEF Run, Cmd, Left, Unanswered
  <2>2. ~Start
    BY <1>1 DEF Run, Tagged
  <2>3. Here
    BY <1>1, <2>1, <2>2 DEF Run, Tagged, Here
  <2>4. ~Quiet
    BY <1>1, <2>2 DEF Run, Moved, Start
  <2>5. ~Cancel
    BY <2>1, <2>4, CancelAnswered
  <2>6. CASE s.state = "S_R_NEED"
    <3>1. KNeed
      BY <1>1, <2>6 DEF Run, ChanCase, KStay, KStart, KDesc, KFetch, KStore, KLoad, KDrain, KNextDesc,
         KNextEnd, KDone, KCq, KIdx
    <3>2. RdStalled /\ s.gen_ok /\ s'.xfer = s.xfer
      BY <2>5, <3>1 DEF KNeed, KeepWalk
    <3> QED BY <2>1, <2>3, <2>6, <3>2, StarvedOver
  <2>7. CASE s.state # "S_R_NEED"
    <3>1. s.state \in {"S_CQ", "S_IDX"} /\ s'.xfer = s.xfer
      BY <1>1, <2>5, <2>7 DEF Run, ChanCase, KStay, KStart, KDesc, KNeed, KFetch, KStore, KLoad, KDrain, KNextDesc,
         KNextEnd, KDone, KCq, KIdx, KeepWalk, RStates, AfterDrain, Quiet
    <3> QED BY <2>1, <2>3, <2>4, <3>1 DEF OverOk
  <2> QED BY <2>6, <2>7
<1>2. CASE Mem
  BY <1>2 DEF Mem, host, OverOk, Here, Cmd, Left, Unanswered, Quiet
<1>3. CASE Away
  BY <1>3 DEF Away, OverOk
<1>4. CASE Svc
  <2>1. UNCHANGED <<g, cmds, sh, s>> /\ (Unanswered' => Unanswered)
    BY <1>4, AnswerStep DEF Svc, rtl
  <2> QED BY <2>1 DEF OverOk, Here, Cmd, Left, Quiet
<1> QED BY <1>1, <1>2, <1>3, <1>4, GuestSteps

\* entries of the ring that are fewer than NCq apart have different slots
LEMMA ModApart ==
  ASSUME NEW n \in Nat \ {0}, NEW i \in Nat, NEW j \in Nat, i < j, j - i < n
  PROVE  i % n # j % n
<1> SUFFICES ASSUME i % n = j % n PROVE FALSE
  OBVIOUS
<1> DEFINE p == i \div n
           q == j \div n
           r == i % n
           k == q - p
<1>1. p \in Nat /\ q \in Nat /\ i = n * p + r /\ j = n * q + r /\ r \in 0 .. n - 1
  BY DivFacts
<1> HIDE DEF p, q, r
<1>2. k \in Int /\ n * k = n * q - n * p
  BY <1>1
<1>3. n * k = j - i
  BY <1>1, <1>2
<1> HIDE DEF k
<1>4. CASE k <= 0
  <2>1. n * k <= 0
    BY <1>2, <1>4
  <2> QED BY <1>3, <2>1
<1>5. CASE k >= 1
  <2>1. n * k >= n
    BY <1>2, <1>5
  <2> QED BY <1>3, <2>1
<1> QED BY <1>2, <1>4, <1>5

\* a clock of the channel adds no entry that has not been posted before
LEMMA PostedRun ==
  ASSUME Inv, Run, NEW i \in db'.cq_cons .. s'.cq_prod, Posted(i)'
  PROVE  i \in db.cq_cons .. s.cq_prod /\ Posted(i) /\ i \in Nat
<1>1. db' = db /\ s.cq_prod \in Nat /\ db.cq_cons \in Nat
  BY DEF Run, Inv, RingOk
<1>2. CASE KStay
  BY <1>1, <1>2 DEF KStay, KeepPost, Posted
<1>3. CASE KCq
  BY <1>1, <1>3 DEF KCq, KeepPost, Posted
<1>4. CASE KIdx /\ acc' = FALSE
  <2>1. s'.cq_prod = s.cq_prod + 1 /\ s'.state # "S_IDX" /\ s.state = "S_IDX"
    BY <1>4 DEF KIdx
  <2> QED BY <1>1, <1>4, <2>1 DEF Posted
<1>5. CASE ~KStay /\ ~KCq /\ ~KIdx
  <2>1. acc' = FALSE /\ s'.state # "S_IDX" /\ s'.cq_prod = s.cq_prod
    BY <1>5 DEF Run, ChanCase, KStart, KDesc, KNeed, KFetch, KStore, KLoad, KDrain, KNextDesc,
       KNextEnd, KDone, KeepPost, RStates, AfterDrain
  <2> QED BY <1>1, <2>1 DEF Posted
<1> QED BY <1>2, <1>3, <1>4, <1>5 DEF Run, ChanCase

LEMMA EntryRun ==
  ASSUME Inv, OrderOk, EntryOk, Run
  PROVE  EntryOk'
<1> SUFFICES ASSUME g'.pc = "wait", Unanswered', Moves', NEW i \in db'.cq_cons .. s'.cq_prod, Posted(i)', cq'[i % NCq].seq = sh'.req_seq
             PROVE  Here' /\ cq'[i % NCq].bytes <= s'.xfer /\ Over(cq[i % NCq].bytes)'
  BY DEF EntryOk
<1>1. UNCHANGED <<g, cmds, chain, cq, db, rsp>> /\ sh'.req_seq = sh.req_seq
  BY DEF Run
<1>2. Moves /\ Unanswered /\ Left' = Left
  BY <1>1 DEF Moves, Cmd, Unanswered, Left
<1>3. s.cq_prod \in Nat /\ db.cq_cons \in Nat
  BY DEF Inv, RingOk
<1>4. i \in db.cq_cons .. s.cq_prod /\ Posted(i)
  BY PostedRun
<1>5. Here /\ cq[i % NCq].bytes <= s.xfer /\ Over(cq[i % NCq].bytes)
  BY <1>1, <1>2, <1>4 DEF EntryOk
<1>6. cq[i % NCq].bytes \in Nat
  <2>1. NCq \in Nat \ {0} /\ i \in Nat
    BY <1>3, <1>4, ScsiConstants
  <2>2. i % NCq \in 0 .. NCq - 1
    BY <2>1
  <2> QED BY <2>2 DEF Inv, StagingOk
<1>7. Here' /\ s'.xfer >= s.xfer /\ s'.xfer \in Nat /\ s.xfer \in Nat
  BY <1>5, HereRun
<1> QED BY <1>1, <1>2, <1>5, <1>6, <1>7 DEF Over

LEMMA EntryMem ==
  ASSUME Inv, OrderOk, PostOk, DirOk, OverOk, EntryOk, Mem
  PROVE  EntryOk'
<1> SUFFICES ASSUME g'.pc = "wait", Unanswered', Moves', NEW i \in db'.cq_cons .. s'.cq_prod, Posted(i)', cq'[i % NCq].seq = sh'.req_seq
             PROVE  Here' /\ cq'[i % NCq].bytes <= s'.xfer /\ Over(cq[i % NCq].bytes)'
  BY SMTT(30) DEF EntryOk
<1>1. UNCHANGED <<g, cmds, sh, s, db, rsp>> /\ Cap(chain') = Cap(chain)
  BY MemSums DEF Mem, host
<1>2. Moves /\ Unanswered /\ Left' = Left /\ (Here' <=> Here)
  BY <1>1 DEF Moves, Cmd, Unanswered, Left, Here
<1>3. s.cq_prod \in Nat /\ db.cq_cons \in Nat /\ i \in db.cq_cons .. s.cq_prod /\ i \in Nat
  BY <1>1 DEF Inv, RingOk
<1>4. CASE s.state # "S_CQ"
  <2>1. cq' = cq /\ Posted(i)
    BY <1>1, <1>4 DEF Mem, staging, Posted
  <2> QED BY <1>1, <1>2, <1>3, <2>1 DEF EntryOk, Over
<1>5. CASE s.state = "S_CQ"
  <2>1. cq' = [cq EXCEPT ![s.cq_prod % NCq] = [seq |-> s.seq, flags |-> s.flags, bytes |-> s.xfer]]
    BY <1>5 DEF Mem
  <2>2. s.cq_prod - db.cq_cons < NCq
    BY <1>5 DEF Mem, SReq
  <2>3. NCq \in Nat \ {0}
    BY ScsiConstants
  <2>4. CASE i < s.cq_prod
    <3>1. s.cq_prod - i < NCq
      BY <1>3, <2>2, <2>3
    <3>2. i % NCq # s.cq_prod % NCq
      BY <1>3, <2>3, <2>4, <3>1, ModApart
    <3>3. cq'[i % NCq] = cq[i % NCq]
      BY <2>1, <3>2
    <3>4. Posted(i)
      BY <2>4 DEF Posted
    <3> QED BY <1>1, <1>2, <1>3, <3>3, <3>4 DEF EntryOk, Over
  <2>5. CASE i = s.cq_prod
    <3>1. s.cq_prod % NCq \in 0 .. NCq - 1 /\ DOMAIN cq = 0 .. NCq - 1
      BY <1>3, <2>3 DEF Inv, StagingOk
    <3>2. cq'[i % NCq].seq = s.seq /\ cq'[i % NCq].bytes = s.xfer
      BY <2>1, <2>5, <3>1
    <3>3. Here
      BY <1>1, <3>2 DEF Here
    <3>4. Over(s.xfer)
      <4>1. CASE Quiet
        BY <1>2, <3>3, <4>1 DEF PostOk, Over
      <4>2. CASE ~Quiet
        <5>1. ~s.dir /\ Cmd.kind = "read"
          BY <1>2, <1>5, <3>3, <4>2 DEF OrderOk, DirOk, Moves
        <5> QED BY <1>2, <1>5, <3>3, <4>2, <5>1 DEF OverOk, Over
      <4> QED BY <4>1, <4>2
    <3>5. s.xfer \in Nat
      BY DEF Inv, RegsOk
    <3> QED BY <1>1, <1>2, <3>2, <3>3, <3>4, <3>5 DEF Over
  <2> QED BY <1>3, <2>4, <2>5
<1> QED BY <1>4, <1>5

LEMMA EntryNext ==
  ASSUME Inv, Inv', OrderOk, PostOk, DirOk, OverOk, EntryOk, [Next]_vars
  PROVE  EntryOk'
<1>1. CASE Svc
  <2>1. UNCHANGED <<g, cmds, chain, sh, s, acc, cq>> /\ (Unanswered' => Unanswered)
    BY <1>1, AnswerStep, SvcSteps DEF rtl
  <2>2. db'.cq_cons = db.cq_cons \/ db'.cq_cons = db.cq_cons + 1
    BY <1>1, SvcSteps DEF VDoorbell, VStage, VRing, VPoll, VPost, VPostSeq
  <2>3. db.cq_cons \in Nat /\ s.cq_prod \in Nat
    BY DEF Inv, RingOk
  <2>4. db'.cq_cons .. s.cq_prod \subseteq db.cq_cons .. s.cq_prod
    BY <2>2, <2>3
  <2> QED BY <2>1, <2>4 DEF EntryOk, Posted, Here, Over, Moves, Cmd, Left
<1>2. CASE Away
  <2> SUFFICES ASSUME g'.pc = "wait", NEW i \in db'.cq_cons .. s'.cq_prod
               PROVE  cq'[i % NCq].seq # sh'.req_seq
    BY DEF EntryOk
  <2>1. cq' = cq /\ sh'.req_seq = sh.req_seq + 1 /\ sh.req_seq \in Nat
    BY <1>2 DEF Away, Inv, ShimOk
  <2>2. i \in Nat /\ NCq \in Nat \ {0}
    <3>1. db'.cq_cons \in Nat /\ s'.cq_prod \in Nat
      BY DEF Inv, RingOk
    <3> QED BY <3>1, ScsiConstants
  <2>3. i % NCq \in 0 .. NCq - 1
    BY <2>2
  <2>4. cq[i % NCq].seq \in 0 .. sh.req_seq
    BY <2>3 DEF OrderOk
  <2> QED BY <2>1, <2>4
<1> QED BY <1>1, <1>2, EntryRun, EntryMem, GuestSteps
-----------------------------------------------------------------------------
(* What the guest has *)

\* The bytes of a chain are those of its buffers: where a buffer has the bytes of h from its
\* place on, the chain has the bytes of h.
LEMMA ChainContent ==
  ASSUME ChainOk, NEW h, NEW n \in Nat,
         \A i \in 1 .. Len(chain) : \A j \in 1 .. chain[i].cnt :
            At(chain, i) + j <= n => chain[i].buf[j] = h[At(chain, i) + j]
  PROVE  \A p \in 1 .. Cap(chain) : p <= n => Bytes(chain)[p] = h[p]
<1> DEFINE len(m) == SumTo(cnts(chain), m)
           A(m) == \A p \in 1 .. len(m) : p <= n => BytesTo(chain, m)[p] = h[p]
           S == {m \in Nat : m <= Len(chain) => A(m)}
<1>1. Len(chain) \in Nat /\ \A i \in 1 .. Len(chain) : IsDesc(chain[i])
  BY DEF ChainOk
<1>2. \A m \in 0 .. Len(chain) : BytesTo(chain, m) \in Seq(Byte) /\ Len(BytesTo(chain, m)) = len(m)
  BY <1>1, BytesType DEF IsDesc
<1>3. 0 \in S
  <2>1. len(0) = 0
    BY SumToFacts
  <2> HIDE DEF len
  <2>2. A(0)
    BY <2>1
  <2> HIDE DEF A
  <2> QED BY <2>2
<1>4. \A m \in Nat : m \in S => m + 1 \in S
  <2> HIDE DEF A
  <2> SUFFICES ASSUME NEW m \in Nat, m + 1 <= Len(chain), A(m)
               PROVE  A(m + 1)
    <3> DEFINE l == Len(chain)
    <3>1. l \in Nat /\ S = {m \in Nat : m <= l => A(m)}
      BY <1>1
    <3> HIDE DEF l, S
    <3>2. \A m \in Nat : m + 1 <= l => m <= l
      BY <3>1
    <3> QED BY <3>1, <3>2 DEF l
  <2> USE DEF A
  <2> DEFINE x == BytesTo(chain, m)
             y == chain[m + 1].buf
             k == At(chain, m + 1)
  <2>1. m + 1 \in 1 .. Len(chain) /\ m \in 0 .. Len(chain) /\ m + 1 - 1 = m
    BY <1>1
  <2>2. x \in Seq(Byte) /\ Len(x) = k /\ y \in Seq(Byte) /\ Len(y) = chain[m + 1].cnt
    BY <1>1, <1>2, <2>1 DEF IsDesc, At
  <2>3. BytesTo(chain, m + 1) = x \o y
    BY BytesToFacts
  <2>4. \A j \in 1 .. Len(y) : k + j <= n => y[j] = h[k + j]
    BY <2>1, <2>2
  <2>5. \A p \in 1 .. k : p <= n => x[p] = h[p]
    BY <2>1 DEF At
  <2>6. len(m + 1) = Len(x \o y)
    BY <1>2, <2>1, <2>3
  <2> HIDE DEF x, y, k, len
  <2> DEFINE z == x \o y
             u == Len(x)
             v == Len(y)
  <2>7. /\ Len(z) = u + v /\ u \in Nat /\ v \in Nat /\ (\A i \in 1 .. u : z[i] = x[i]) /\ (\A j \in 1 .. v : z[u + j] = y[j])
        /\ (\A j \in 1 .. v : u + j <= n => y[j] = h[u + j]) /\ (\A p \in 1 .. u : p <= n => x[p] = h[p])
        /\ len(m + 1) = u + v
    BY <2>2, <2>4, <2>5, <2>6, JoinFacts
  <2> HIDE DEF z, u, v
  <2>8. ASSUME NEW p \in 1 .. u + v, p <= n PROVE z[p] = h[p]
    <3>1. CASE p <= u
      BY <2>7, <2>8, <3>1
    <3>2. CASE p > u
      <4>1. p - u \in 1 .. v /\ u + (p - u) = p
        BY <2>7, <3>2
      <4>2. z[u + (p - u)] = y[p - u] /\ (u + (p - u) <= n => y[p - u] = h[u + (p - u)])
        BY <2>7, <4>1
      <4> QED BY <2>8, <4>1, <4>2
    <3>3. p \in Int /\ u \in Int
      BY <2>7
    <3> QED BY <3>1, <3>2, <3>3
  <2>9. BytesTo(chain, m + 1) = z
    BY <2>3 DEF z
  <2> QED BY <2>7, <2>8, <2>9
<1> HIDE DEF S
<1>5. Len(chain) \in S
  BY <1>1, <1>3, <1>4, NatSetInduction
<1>6. A(Len(chain))
  BY <1>1, <1>5 DEF S
<1> HIDE DEF A
<1>7. Bytes(chain) = BytesTo(chain, Len(chain)) /\ len(Len(chain)) = Cap(chain)
  BY DEF Bytes, BytesTo, Cap
<1> QED BY <1>6, <1>7 DEF A

\* With n bytes of the chain stored the guest has the command's data up to there.
LEMMA Delivery ==
  ASSUME Inv, DirOk, LandedOk, StagedOk, PastOk, g.pc = "wait", Cmd.kind = "read",
         NEW n \in Nat, n <= Left, n <= Cap(chain), n > 0 => Here /\ n <= s.xfer
  PROVE  /\ Delivered \in Seq(Byte) /\ Len(Delivered) = Len(g.past) + Cap(chain)
         /\ \A p \in 1 .. Len(g.past) + n : Delivered[p] = <<Len(cmds), p>>
<1> DEFINE x == g.past
           y == Bytes(chain)
           k == Len(x)
           c == Cap(chain)
<1>1. x \in Seq(Byte) /\ y \in Seq(Byte) /\ Len(y) = c /\ c \in Nat /\ k \in Nat
  BY ChainBytes, AtFacts DEF Inv, DriverOk
<1>2. \A p \in 1 .. k : x[p] = <<Len(cmds), p>>
  BY DEF PastOk
<1>3. \A p \in 1 .. n : y[p] = <<Len(cmds), k + p>>
  <2> SUFFICES ASSUME NEW p \in 1 .. n PROVE y[p] = <<Len(cmds), k + p>>
    OBVIOUS
  <2>1. n > 0 /\ Here /\ n <= s.xfer
    OBVIOUS
  <2>2. ~s.dir
    BY <2>1 DEF DirOk
  <2>3. s.xfer \in Nat /\ Stord \in Nat /\ s.xfer <= Stord
    BY StordNat
  <2>4. s.xfer > 0
    BY <2>1, <2>3
  <2>5. db.rd_seq = sh.req_seq
    BY <2>1, <2>2, <2>4 DEF LandedOk, Here
  <2>6. \A i \in 1 .. Len(chain) : \A j \in 1 .. chain[i].cnt :
          At(chain, i) + j <= Stord => chain[i].buf[j] = rdbuf[At(chain, i) + j]
    BY <2>1, <2>2 DEF LandedOk
  <2>7. \A q \in 1 .. c : q <= Stord => y[q] = rdbuf[q]
    BY <2>3, <2>6, ChainContent DEF Inv
  <2>8. p \in 1 .. c /\ p <= Stord
    BY <1>1, <2>1, <2>3
  <2>9. y[p] = rdbuf[p]
    BY <2>7, <2>8
  <2>10. p \in 1 .. Left
    BY CmdFacts
  <2>11. rdbuf[p] = <<Len(cmds), k + p>>
    BY <2>5, <2>10 DEF StagedOk
  <2> QED BY <2>9, <2>11
<1>4. Delivered = x \o y
  BY DEF Delivered
<1> HIDE DEF x, y
<1> DEFINE z == x \o y
           K == Len(cmds)
<1>5. /\ z \in Seq(Byte) /\ Len(z) = k + c
      /\ (\A i \in 1 .. k : z[i] = x[i]) /\ (\A j \in 1 .. c : z[k + j] = y[j])
  <2> DEFINE v == Len(y)
  <2>1. /\ z \in Seq(Byte) /\ Len(z) = k + v
        /\ (\A i \in 1 .. k : z[i] = x[i]) /\ (\A j \in 1 .. v : z[k + j] = y[j])
    BY <1>1, JoinFacts
  <2>2. v = c
    BY <1>1
  <2> HIDE DEF v, z, k, c
  <2> QED BY <2>1, <2>2
<1> HIDE DEF z, k, c, K
<1>6. ASSUME NEW p \in 1 .. k + n PROVE z[p] = <<K, p>>
  <2>1. CASE p <= k
    BY <1>1, <1>2, <1>5, <2>1 DEF K
  <2>2. CASE p > k
    <3>1. p - k \in 1 .. n /\ k + (p - k) = p /\ p - k \in 1 .. c
      BY <1>1, <2>2 DEF c
    <3>2. z[k + (p - k)] = y[p - k] /\ y[p - k] = <<K, k + (p - k)>>
      BY <1>3, <1>5, <3>1 DEF K
    <3> QED BY <3>1, <3>2
  <2>3. p \in Int /\ k \in Int
    BY <1>1
  <2> QED BY <2>1, <2>2, <2>3
<1> QED BY <1>4, <1>5, <1>6 DEF z, k, c, K, x

LEMMA PastNext ==
  ASSUME Inv, Inv', OrderOk, ProgressOk, DirOk, LandedOk, StagedOk, PastOk, [Next]_vars
  PROVE  PastOk'
<1>1. CASE Run \/ Mem \/ Svc
  BY <1>1 DEF Run, Mem, Svc, rtl, PastOk, Cmd
<1>2. CASE Away /\ Guest
  <2>1. CASE GDma \/ GSelect \/ GResume
    BY <2>1 DEF GDma, GSelect, GResume, PastOk, Cmd
  <2>2. CASE GReset
    BY <2>2 DEF GReset, PastOk
  <2>3. CASE GCommand
    <3>1. g'.past = <<>> /\ Cmd'.total \in Nat
      <4>1. \A c \in Commands : c.total \in Nat
        BY ScsiConstants
      <4>2. cmds' \in Seq(Commands) /\ Len(cmds') > 0
        BY <2>3 DEF GCommand, Inv, CommandOk
      <4> QED BY <2>3, <4>1, <4>2 DEF GCommand, Cmd
    <3> QED BY <3>1 DEF PastOk
  <2>4. CASE GIsr /\ sh.status # "pause"
    BY <2>4 DEF GIsr, PastOk
  <2>5. CASE GIsr /\ sh.status = "pause"
    <3> SUFFICES ASSUME Cmd'.kind = "read"
                 PROVE  Len(g'.past) <= Cmd'.total /\ \A p \in 1 .. Len(g'.past) : g'.past[p] = <<Len(cmds'), p>>
      BY DEF PastOk
    <3>1. g.pc = "wait" /\ cmds' = cmds /\ Cmd' = Cmd /\ g'.past = g.past \o Bytes(chain)
      BY <2>5 DEF GIsr, Inv, DriverOk, Cmd
    <3>2. a.pc = "idle" /\ a.last = sh.req_seq /\ ~sh.bsy
      BY <1>2, <3>1, WaitFacts DEF Away
    <3>3. AnsweredPause
      BY <2>5, <3>1, <3>2 DEF ProgressOk, Answer, AnsweredOk
    <3> DEFINE c == Cap(chain)
               k == Len(g.past)
    <3>4. c \in Nat /\ k \in Nat /\ Cmd.total \in Nat /\ Left = Cmd.total - k /\ k + c < Cmd.total /\ Here /\ c <= s.xfer
      BY <3>1, <3>3, AtFacts, CmdFacts DEF AnsweredPause, Inv, DriverOk, Left
    <3> HIDE DEF c, k
    <3>5. c <= Left
      BY <3>4
    <3>6. /\ Delivered \in Seq(Byte) /\ Len(Delivered) = k + c
          /\ \A p \in 1 .. k + c : Delivered[p] = <<Len(cmds), p>>
      <4>1. c <= Cap(chain)
        BY <3>4 DEF c
      <4>2. /\ Delivered \in Seq(Byte) /\ Len(Delivered) = Len(g.past) + Cap(chain)
            /\ \A p \in 1 .. Len(g.past) + c : Delivered[p] = <<Len(cmds), p>>
        BY <3>1, <3>4, <3>5, <4>1, Delivery
      <4> QED BY <4>2 DEF c, k
    <3>7. g'.past = Delivered
      BY <3>1 DEF Delivered
    <3>8. Len(g'.past) = k + c /\ \A p \in 1 .. k + c : g'.past[p] = <<Len(cmds), p>>
      BY <3>6, <3>7
    <3>9. Len(g'.past) <= Cmd.total
      BY <3>4, <3>8
    <3> QED BY <3>1, <3>8, <3>9
  <2> QED BY <1>2, <2>1, <2>2, <2>3, <2>4, <2>5 DEF Guest
<1> QED BY <1>1, <1>2, GuestSteps
-----------------------------------------------------------------------------
(* The theorem on READs *)

DataInv == /\ OrderOk /\ ShortOk /\ WalkOk /\ PostOk /\ PipeOk /\ AlignOk /\ LandedOk /\ DirOk /\ FitsOk
           /\ ProgressOk /\ StagedOk /\ OverOk /\ EntryOk /\ PastOk

LEMMA DataInit ==
  Init => DataInv
<1> SUFFICES ASSUME Init PROVE DataInv
  OBVIOUS
<1>1. Quiet /\ g.pc = "idle" /\ g.past = <<>> /\ ~a.active /\ a.pc = "idle" /\ chain = <<>>
      /\ rsp.status = a.status
  BY DEF Init, Quiet, ChanReset
<1>2. OrderOk
  BY OrderInit
<1>3. ShortOk
  BY <1>1, ScsiConstants DEF ShortOk
<1>4. WalkOk /\ PostOk /\ PipeOk /\ AlignOk /\ LandedOk /\ DirOk /\ FitsOk
  BY <1>1 DEF WalkOk, PostOk, PipeOk, AlignOk, LandedOk, DirOk, FitsOk, Here
<1>5. ProgressOk
  BY <1>1 DEF ProgressOk
<1>6. StagedOk /\ OverOk /\ EntryOk /\ PastOk
  BY <1>1 DEF StagedOk, OverOk, EntryOk, PastOk
<1> QED BY <1>2, <1>3, <1>4, <1>5, <1>6 DEF DataInv

LEMMA DataNext ==
  ASSUME ShortChains, Inv, Inv', DataInv, [Next]_vars
  PROVE  DataInv'
<1> USE DEF DataInv
<1>1. OrderOk'
  BY DataSteps
<1>2. ShortOk' /\ WalkOk' /\ PostOk' /\ PipeOk' /\ AlignOk' /\ LandedOk'
  BY ShortNext, WalkNext, PostNext, PipeNext, AlignNext, LandedNext
<1>3. DirOk' /\ FitsOk' /\ ProgressOk' /\ StagedOk'
  BY DirNext, FitsNext, ProgressNext, StagedNext
<1>4. OverOk' /\ EntryOk' /\ PastOk'
  BY OverNext, EntryNext, PastNext
<1> QED BY <1>1, <1>2, <1>3, <1>4

LEMMA Landed ==
  ASSUME Inv, DataInv
  PROVE  ReadLanded
<1> USE DEF DataInv
<1> SUFFICES ASSUME Interrupt("read", "ok")
             PROVE  Len(Delivered) >= Cmd.total /\ SubSeq(Delivered, 1, Cmd.total) = Data(Len(cmds), 0, Cmd.total)
  BY DEF ReadLanded
<1>1. g.pc = "wait" /\ sh.intrq /\ sh.status = "ok" /\ Cmd.kind = "read"
  BY DEF Interrupt
<1>2. ~sh.bsy /\ a.pc = "idle" /\ a.last = sh.req_seq /\ Quiet
  BY <1>1, WaitFacts DEF Inv, DriverOk
<1>3. AnsweredOk
  BY <1>1, <1>2 DEF ProgressOk, Answer, AnsweredPause
<1> DEFINE k == Len(g.past)
           n == Left
           c == Cap(chain)
           t == Cmd.total
           K == Len(cmds)
           D == Delivered
<1>4. k \in Nat /\ t \in Nat /\ k <= t /\ n = t - k /\ n \in Nat /\ c \in Nat /\ K \in Nat
  <2>1. k \in Nat /\ t \in Nat /\ k <= t /\ c \in Nat /\ K \in Nat
    BY <1>1, CmdFacts, AtFacts DEF PastOk, Inv, DriverOk
  <2>2. n = t - k
    BY DEF Left
  <2> HIDE DEF n, k, t
  <2> QED BY <2>1, <2>2
<1>5. n > 0 => Here /\ n <= s.xfer
  BY <1>1, <1>3 DEF AnsweredOk, Moves
<1>6. Here => s.xfer <= c /\ s.xfer \in Nat
  BY <1>2 DEF PostOk, Inv, RegsOk
<1>7. n <= c /\ n <= Left
  <2> HIDE DEF n, c
  <2>1. n <= c
    BY <1>4, <1>5, <1>6
  <2> QED BY <1>4, <2>1 DEF n
<1>8. D \in Seq(Byte) /\ Len(D) = k + c /\ \A p \in 1 .. k + n : D[p] = <<K, p>>
  <2> HIDE DEF n
  <2> QED BY <1>1, <1>4, <1>5, <1>7, Delivery
<1> HIDE DEF k, n, c, t, D, K
<1>9. k + n = t /\ k + c >= t
  BY <1>4, <1>7
<1>10. \A p \in 1 .. t : D[p] = <<K, p>>
  BY <1>8, <1>9
<1>11. 0 + t <= Len(D) /\ 0 + t = t /\ 0 + 1 = 1
  BY <1>4, <1>8, <1>9
<1>12. SubSeq(D, 1, t) \in Seq(Byte) /\ Len(SubSeq(D, 1, t)) = t /\ \A q \in 1 .. t : SubSeq(D, 1, t)[q] = D[0 + q]
  <2>1. /\ SubSeq(D, 0 + 1, 0 + t) \in Seq(Byte) /\ Len(SubSeq(D, 0 + 1, 0 + t)) = t
        /\ \A q \in 1 .. t : SubSeq(D, 0 + 1, 0 + t)[q] = D[0 + q]
    BY <1>4, <1>8, <1>11, SliceFacts
  <2> QED BY <1>11, <2>1
<1>13. Data(K, 0, t) \in Seq(Byte) /\ Len(Data(K, 0, t)) = t /\ \A j \in 1 .. t : Data(K, 0, t)[j] = <<K, 0 + j>>
  <2>1. /\ Data(K, 0, 0 + t) \in Seq(Byte) /\ Len(Data(K, 0, 0 + t)) = t
        /\ \A j \in 1 .. t : Data(K, 0, 0 + t)[j] = <<K, 0 + j>>
    BY <1>4, DataFacts
  <2> QED BY <1>11, <2>1
<1> DEFINE u == SubSeq(D, 1, t)
           v == Data(K, 0, t)
<1>14. u \in Seq(Byte) /\ v \in Seq(Byte) /\ Len(u) = Len(v) /\ \A q \in 1 .. Len(u) : u[q] = v[q]
  <2>1. \A q \in 1 .. t : 0 + q = q
    BY <1>4
  <2>2. u \in Seq(Byte) /\ Len(u) = t /\ \A q \in 1 .. t : u[q] = D[0 + q]
    BY <1>12
  <2>3. v \in Seq(Byte) /\ Len(v) = t /\ \A q \in 1 .. t : v[q] = <<K, 0 + q>>
    BY <1>13
  <2> HIDE DEF u, v
  <2>4. \A q \in 1 .. t : u[q] = v[q]
    BY <1>10, <2>1, <2>2, <2>3
  <2> QED BY <2>2, <2>3, <2>4
<1> HIDE DEF u, v
<1>15. u = v
  BY <1>14, SeqEqual
<1>16. Len(D) >= t
  BY <1>8, <1>9
<1> QED BY <1>15, <1>16 DEF u, v, D, K, t

\* For every size of beat, disk block and completion ring, and for all commands and chains the
\* guest may choose (chains no longer than the engine's limit of NdescMax + 1 descriptors):
\* when the guest is told that a READ succeeded, its buffers, over all the chunks of the
\* command, hold the disk's bytes in order.
THEOREM ReadsLand ==
  ASSUME ShortChains
  PROVE  Spec => []ReadLanded
<1>1. Init => Inv /\ DataInv
  BY InvInit, DataInit
<1>2. Inv /\ DataInv /\ [Next]_vars => (Inv /\ DataInv)'
  BY InvNext, DataNext
<1>3. Inv /\ DataInv => ReadLanded
  BY Landed
<1> QED BY <1>1, <1>2, <1>3, PTL DEF Spec
-----------------------------------------------------------------------------
(* WRITEs.  Buffers, hold, beat, staging, disk. *)

\* All chains fit the staging buffer, and a WRITE command writes whole blocks.
SmallChains == \A ch \in Chains : Capacity(ch) <= NBeats * Lanes
WholeBlocks == \A c \in Commands : c.kind = "write" => c.total % Sector = 0

CapOk == Cap(chain) <= NBeats * Lanes

\* byte p of what this chain carries
Sent(p) == <<Len(cmds), Len(g.past) + p>>
Writes == g.pc = "wait" /\ Cmd.kind = "write"
W == s.wptr * Lanes                  \* bytes of the beats drained

FillOk ==
  g.pc \in {"cmd", "wait"} /\ Cmd.kind = "write" =>
    \A i \in 1 .. Len(chain) : \A j \in 1 .. chain[i].cnt : chain[i].buf[j] = Sent(At(chain, i) + j)

\* The gathered bytes are in staging, in the beat to be drained or in the hold register.
PackOk ==
  ~Quiet /\ s.dir =>
    /\ s.state # "S_W_DRAIN" => s.beat = <<>>
    /\ s.state = "S_W_DRAIN" => W < s.xfer
    /\ s.flush => s.hold = <<>> /\ W + Len(s.beat) >= s.xfer
    /\ ~s.flush => W + Len(s.beat) + Len(s.hold) = s.xfer
    /\ s.state = "S_DONE" => W >= s.xfer

\* Staging has every drained beat, the one being drained from the moment DRAM has it.
DrainOk ==
  /\ wrbuf \in Seq(Byte)
  /\ ~Quiet /\ s.dir =>
       /\ Len(wrbuf) >= W
       /\ acc /\ s.state = "S_W_DRAIN" =>
            Len(wrbuf) >= W + Lanes /\ \A q \in 1 .. Lanes : wrbuf[W + q] = s.beat[q]

GatherOk ==
  Here /\ Writes =>
    /\ \A p \in 1 .. W : p <= s.xfer => wrbuf[p] = Sent(p)
    /\ Quiet => s.xfer <= W
    /\ ~Quiet => \A q \in 1 .. Len(s.beat) : W + q <= s.xfer => s.beat[q] = Sent(W + q)
    /\ ~Quiet => \A q \in 1 .. Len(s.hold) : s.hold[q] = Sent(W + Len(s.beat) + q)
    /\ ~Quiet /\ acc /\ s.state = "S_W_LOAD" => \A q \in 1 .. Take : ld.bytes[q] = Sent(s.xfer + q)

\* The entry of a WRITE is the end of its chain.
EndOk ==
  Writes /\ Unanswered =>
    \A i \in db.cq_cons .. s.cq_prod : Posted(i) /\ cq[i % NCq].seq = sh.req_seq => Quiet

\* A chunk that is not the last one is of whole blocks.
SectorOk ==
  /\ g.pc \in {"dma", "cmd", "wait", "paused"} /\ Cmd.kind = "write" => Len(g.past) % Sector = 0
  /\ g.pc \in {"cmd", "wait"} /\ Cmd.kind = "write" => Cap(chain) % Sector = 0 \/ Cap(chain) >= Left

\* the first n of the t bytes of command k are on the disk
OnDisk(n, k, t) == disk = [i \in 1 .. t |-> disk[i]] /\ \A p \in 1 .. n : disk[p] = <<k, p>>

DiskOk ==
  /\ a.active /\ a.to_dev => OnDisk(a.pos, a.cmd, a.total)
  /\ Writes /\ a.last = sh.req_seq /\ a.pc \in {"post", "seq", "idle"} /\ a.status = "ok" =>
       OnDisk(Cmd.total, Len(cmds), Cmd.total)

LEMMA CapNext ==
  ASSUME SmallChains, Inv, CapOk, [Next]_vars
  PROVE  CapOk'
<1>1. NBeats * Lanes \in Nat
  <2>1. NBeats \in Nat /\ Lanes \in Nat
    BY ScsiConstants
  <2> QED BY <2>1
<1>2. CASE chain' = chain
  BY <1>2 DEF CapOk
<1>3. CASE chain' = <<>>
  <2>1. Cap(chain') = 0
    <3>1. Len(chain') = 0
      BY <1>3
    <3> QED BY <3>1, SumToFacts DEF Cap
  <2> QED BY <1>1, <2>1 DEF CapOk
<1>4. CASE Mem
  BY <1>4, MemSums DEF CapOk
<1>5. CASE \E ch \in Chains : Len(chain') = Len(ch) /\ cnts(chain') = cnts(ch)
  BY <1>5 DEF CapOk, Cap, SmallChains, Capacity, cnts
<1> QED BY <1>2, <1>3, <1>4, <1>5, ChainSteps

\* While a WRITE runs the channel does not store.
LEMMA NoStore ==
  ASSUME Inv, OrderOk, DirOk, ~Quiet, Cmd.kind = "write"
  PROVE  s.dir /\ s.state \notin RStates \cup {"S_CQ", "S_IDX"} /\ Here /\ ~Cancel
<1>1. Here
  BY WaitFacts DEF Inv, Handshake, Here
<1>2. s.dir
  BY <1>1 DEF DirOk
<1>3. s.state \notin RStates \cup {"S_CQ", "S_IDX"}
  BY <1>2 DEF OrderOk
<1> QED BY <1>1, <1>2, <1>3 DEF OrderOk, Cancel, Abort, RdStalled, RStates

LEMMA FillNext ==
  ASSUME Inv, OrderOk, DirOk, FillOk, [Next]_vars
  PROVE  FillOk'
<1>1. CASE Run \/ Svc
  BY <1>1 DEF Run, Svc, rtl, FillOk, Cmd, Sent
<1>2. CASE Mem
  <2> SUFFICES ASSUME Cmd'.kind = "write" PROVE FillOk'
    BY DEF FillOk
  <2>1. UNCHANGED <<g, cmds>> /\ Cmd' = Cmd
    BY <1>2 DEF Mem, Cmd
  <2>2. s.state # "S_R_STORE"
    BY <2>1, NoStore DEF Quiet, RStates
  <2>3. chain' = chain
    BY <1>2, <2>2 DEF Mem
  <2> QED BY <2>1, <2>3 DEF FillOk, Sent
<1>3. CASE Away /\ Guest
  <2>1. CASE GDma
    <3> SUFFICES ASSUME Cmd'.kind = "write", NEW i \in 1 .. Len(chain'), NEW j \in 1 .. chain'[i].cnt
                 PROVE  chain'[i].buf[j] = Sent(At(chain, i) + j)'
      BY DEF FillOk
    <3>1. PICK ch \in Chains, dir \in BOOLEAN : chain' = Built(ch, dir, Len(g.past), Len(cmds)) /\ (Cmd.kind = "write" => dir)
      BY <2>1 DEF GDma
    <3>2. Len(g.past) \in Nat /\ Len(cmds) \in Nat /\ Cmd' = Cmd /\ UNCHANGED cmds /\ g'.past = g.past
      BY <2>1 DEF Inv, DriverOk, CommandOk, GDma, Cmd
    <3> DEFINE p == Len(g.past)
    <3>3. /\ Len(chain') = Len(ch) /\ Len(ch) \in Nat
          /\ \A m \in 1 .. Len(ch) :
               /\ chain'[m].cnt = ch[m].cnt /\ ch[m].cnt \in Nat
               /\ \A q \in 1 .. ch[m].cnt : chain'[m].buf[q] = <<Len(cmds), p + SumTo(cnts(ch), m - 1) + q>>
      <4> DEFINE new == Built(ch, dir, p, Len(cmds))
      <4>1. dir /\ chain' = new
        BY <3>1, <3>2
      <4>2. /\ Len(new) = Len(ch) /\ Len(ch) \in Nat
            /\ \A m \in 1 .. Len(ch) :
                 /\ IsDesc(new[m]) /\ new[m].cnt = ch[m].cnt
                 /\ dir => \A q \in 1 .. ch[m].cnt : new[m].buf[q] = <<Len(cmds), p + SumTo(cnts(ch), m - 1) + q>>
        BY <3>2, ChainBuilt, SMTT(30)
      <4> HIDE DEF new, p
      <4>3. \A m \in 1 .. Len(ch) : new[m].cnt \in Nat
        BY <4>2 DEF IsDesc
      <4> QED BY <4>1, <4>2, <4>3
    <3>4. i \in 1 .. Len(ch) /\ j \in 1 .. ch[i].cnt /\ chain'[i].buf[j] = <<Len(cmds), p + SumTo(cnts(ch), i - 1) + j>>
      BY <3>3
    <3>5. cnts(chain') = cnts(ch)
      BY <3>3 DEF cnts
    <3>6. At(chain', i) = SumTo(cnts(ch), i - 1)
      BY <3>5 DEF At
    <3>7. SumTo(cnts(ch), i - 1) \in Nat
      <4> DEFINE f == cnts(ch)
      <4>1. \A m \in 1 .. Len(ch) : f[m] \in Nat
        BY <3>3 DEF cnts
      <4> HIDE DEF f
      <4>2. \A m \in 0 .. Len(ch) : SumTo(f, m) \in Nat
        BY <3>3, <4>1, SumNat
      <4>3. i - 1 \in 0 .. Len(ch)
        BY <3>3, <3>4
      <4> QED BY <4>2, <4>3 DEF f
    <3>8. p + SumTo(cnts(ch), i - 1) + j = p + (SumTo(cnts(ch), i - 1) + j)
      <4> DEFINE x == SumTo(cnts(ch), i - 1)
      <4>1. x \in Nat /\ p \in Nat /\ j \in Nat
        BY <3>2, <3>4, <3>7
      <4> HIDE DEF x, p
      <4>2. p + x + j = p + (x + j)
        BY <4>1
      <4> QED BY <4>2 DEF x
    <3> QED BY <3>2, <3>4, <3>6, <3>8 DEF Sent
  <2>2. CASE GSelect
    BY <2>2 DEF GSelect, FillOk, Cmd, Sent
  <2>3. CASE ~GDma /\ ~GSelect
    <3>1. g'.pc \notin {"cmd", "wait"}
      BY <1>3, <2>3 DEF Guest, GCommand, GIsr, GResume, GReset
    <3> QED BY <3>1 DEF FillOk
  <2> QED BY <2>1, <2>2, <2>3
<1> QED BY <1>1, <1>2, <1>3, GuestSteps

\* The steps of a channel that runs in the direction of a WRITE
LEMMA WriteSteps ==
  ASSUME Inv, OrderOk, Run, ~Quiet', s'.dir
  PROVE  \/ Start /\ KStart
         \/ ~Start /\ ~Quiet /\ s.dir /\ s.state \notin RStates /\ (KStay \/ (acc' = FALSE /\ (KDesc \/ KLoad \/ KDrain \/ KNextDesc \/ KNextEnd)))
<1>1. CASE Start
  <2>1. s'.state = "S_DESC" /\ s.state = "S_IDLE"
    BY <1>1 DEF Run, Tagged, Start
  <2>2. KStart
    BY <2>1 DEF Run, ChanCase, KStay, KDesc, KNeed, KFetch, KStore, KLoad, KDrain, KNextDesc, KNextEnd, KDone, KCq, KIdx
  <2> QED BY <1>1, <2>2
<1>2. CASE ~Start
  <2>1. ~Quiet /\ s.dir
    BY <1>2 DEF Run, Moved, Tagged, Start
  <2>2. s.state \notin RStates /\ s.state \notin {"S_CQ", "S_IDX", "S_IDLE"}
    BY <2>1 DEF OrderOk, Quiet
  <2>3. ~KNeed /\ ~KFetch /\ ~KStore /\ ~KStart /\ ~KCq /\ ~KIdx
    BY <2>2 DEF KNeed, KFetch, KStore, KStart, KCq, KIdx, RStates
  <2>4. ~KDone
    BY DEF KDone, Quiet
  <2> QED BY <1>2, <2>1, <2>2, <2>3, <2>4 DEF Run, ChanCase
<1> QED BY <1>1, <1>2

LEMMA WNat ==
  ASSUME Inv
  PROVE  /\ W \in Nat /\ Lanes \in Nat \ {0}
         /\ s'.wptr = s.wptr => W' = W
         /\ s'.wptr = s.wptr + 1 => W' = W + Lanes
         /\ s'.wptr = 0 => W' = 0
<1>1. Lanes \in Nat \ {0} /\ s.wptr \in Nat
  <2>1. Lanes \in Nat \ {0} /\ NBeats \in Nat
    BY ScsiConstants
  <2> QED BY <2>1 DEF Inv, RegsOk
<1>2. W \in Nat
  BY <1>1 DEF W
<1>3. (s.wptr + 1) * Lanes = s.wptr * Lanes + Lanes /\ 0 * Lanes = 0
  BY <1>1
<1> QED BY <1>1, <1>2, <1>3 DEF W

\* A beat that is drained has room in the staging buffer.
LEMMA DrainRoom ==
  ASSUME Inv, WalkOk, CapOk, PackOk, ~Quiet, s.dir, s.state = "S_W_DRAIN"
  PROVE  s.wptr # NBeats
<1>1. W < s.xfer /\ s.xfer <= Cap(chain) /\ Cap(chain) <= NBeats * Lanes
  BY WalkFacts DEF PackOk, CapOk
<1>2. W \in Nat /\ s.xfer \in Nat /\ Cap(chain) \in Nat
  BY WNat, AtFacts DEF Inv, RegsOk
<1>3. NBeats * Lanes \in Nat
  <2>1. NBeats \in Nat /\ Lanes \in Nat
    BY ScsiConstants
  <2> QED BY <2>1
<1> DEFINE m == NBeats * Lanes
<1>4. m \in Nat /\ Cap(chain) <= m
  BY <1>1, <1>3
<1> HIDE DEF m
<1>5. W # m
  BY <1>1, <1>2, <1>4
<1> QED BY <1>5 DEF W, m

LEMMA PackRun ==
  ASSUME Inv, OrderOk, WalkOk, CapOk, PackOk, Run
  PROVE  PackOk'
<1> SUFFICES ASSUME ~Quiet', s'.dir PROVE PackOk'
  BY DEF PackOk
<1> DEFINE h == Len(s.hold)
           b == Len(s.beat)
           x == s.xfer
           w == W
           l == Lanes
<1>1. h \in Nat /\ b \in {0, l} /\ x \in Nat /\ w \in Nat /\ l \in Nat \ {0} /\ (b = 0 <=> s.beat = <<>>) /\ (h = 0 <=> s.hold = <<>>)
      /\ h < l
  BY WNat DEF Inv, RegsOk
<1>2. CASE Start /\ KStart
  <2>1. W' = 0 /\ Len(s'.beat) = 0 /\ Len(s'.hold) = 0 /\ s'.xfer = 0 /\ ~s'.flush /\ s'.state = "S_DESC" /\ s'.beat = <<>>
    BY <1>2, WNat DEF KStart
  <2> QED BY <2>1 DEF PackOk
<1>3. CASE ~Start /\ ~Quiet /\ s.dir /\ s.state \notin RStates /\ (KStay \/ (acc' = FALSE /\ (KDesc \/ KLoad \/ KDrain \/ KNextDesc \/ KNextEnd)))
  <2>1. /\ s.state # "S_W_DRAIN" => b = 0
        /\ s.state = "S_W_DRAIN" => w < x /\ b = l
        /\ s.flush => h = 0 /\ w + b >= x
        /\ ~s.flush => w + b + h = x
        /\ s.state = "S_DONE" => w >= x
    BY <1>1, <1>3 DEF PackOk, Inv, RegsOk
  <2>2. CASE KStay \/ KDesc \/ KNextDesc
    <3>1. /\ UNCHANGED <<s.hold, s.beat, s.xfer, s.flush>> /\ W' = W
          /\ (s'.state = "S_W_DRAIN" <=> s.state = "S_W_DRAIN") /\ (s'.state = "S_DONE" => s.state = "S_DONE")
      BY <2>2, WNat DEF KStay, KDesc, KNextDesc, KeepPipe, KeepWalk, RStates
    <3> QED BY <1>3, <3>1 DEF PackOk
  <2>3. CASE KLoad
    <3> DEFINE all == s.hold \o ld.bytes
               n == Len(all)
    <3>1. acc /\ s.state = "S_W_LOAD" /\ ~s.flush
      BY <1>3, <2>3 DEF KLoad, WalkOk
    <3>2. ld.bytes \in Seq(Byte) /\ Len(ld.bytes) = Take /\ s.hold \in Seq(Byte) /\ Take \in Nat
      BY <3>1, TakeType DEF Inv, LoadOk, RegsOk
    <3>3. all \in Seq(Byte) /\ n = h + Take
      <4>1. all \in Seq(Byte) /\ n = Len(s.hold) + Len(ld.bytes)
        BY <3>2, JoinFacts
      <4> QED BY <3>2, <4>1
    <3>4. s'.xfer = x + Take /\ ~s'.flush /\ W' = w
      BY <2>3, <3>1, WNat DEF KLoad
    <3>5. CASE n >= Lanes
      <4>1. s'.state = "S_W_DRAIN" /\ s'.beat = SubSeq(all, 1, Lanes) /\ s'.hold = SubSeq(all, Lanes + 1, Len(all))
        BY <2>3, <3>5 DEF KLoad
      <4>2. Len(s'.beat) = l /\ Len(s'.hold) = n - l
        <5> HIDE DEF all
        <5>1. n \in Nat /\ n >= Lanes /\ Lanes \in Nat
          BY <1>1, <3>3, <3>5
        <5>2. 1 \in 1 .. n + 1 /\ Lanes \in 0 .. n /\ 1 <= Lanes + 1 /\ Lanes + 1 \in 1 .. n + 1 /\ n \in 0 .. n /\ Lanes + 1 <= n + 1
          <6> HIDE DEF n
          <6> QED BY <5>1
        <5>3. Len(SubSeq(all, 1, Lanes)) = Lanes - 1 + 1 /\ Len(SubSeq(all, Lanes + 1, n)) = n - (Lanes + 1) + 1
          BY <3>3, <5>2, SeqFacts
        <5>4. Lanes - 1 + 1 = Lanes /\ n - (Lanes + 1) + 1 = n - Lanes
          BY <1>1, <5>1
        <5> QED BY <4>1, <5>3, <5>4
      <4> HIDE DEF h, b, x, w, l, n, all
      <4> DEFINE t == Take
      <4>3. n = h + t /\ t \in Nat /\ s'.xfer = x + t /\ Len(s'.beat) = l /\ Len(s'.hold) = n - l /\ w + b + h = x /\ b = 0
        BY <2>1, <3>1, <3>2, <3>3, <3>4, <4>2
      <4> HIDE DEF t
      <4>4. W' + Len(s'.beat) + Len(s'.hold) = s'.xfer /\ W' < s'.xfer
        <5> DEFINE h2 == Len(s'.hold)
                   b2 == Len(s'.beat)
        <5>1. h2 = n - l /\ b2 = l /\ n >= l
          BY <3>5, <4>3 DEF l
        <5> HIDE DEF h2, b2
        <5>2. w + b2 + h2 = x + t /\ w < x + t
          BY <1>1, <4>3, <5>1
        <5> QED BY <3>4, <4>3, <5>2 DEF h2, b2
      <4> QED BY <3>4, <4>1, <4>4 DEF PackOk
    <3>6. CASE ~(n >= Lanes)
      <4>1. s'.state \in {"S_NEXT", "S_W_LOAD"} /\ s'.beat = s.beat /\ s'.hold = all
        BY <2>3, <3>6 DEF KLoad
      <4>2. s.beat = <<>> /\ b = 0 /\ Len(s'.beat) = 0 /\ Len(s'.hold) = n
        BY <1>1, <2>1, <3>1, <4>1
      <4> DEFINE t == Take
      <4> HIDE DEF h, b, x, w, l, n, all, t
      <4>3. n = h + t /\ t \in Nat /\ s'.xfer = x + t /\ w + b + h = x /\ b = 0
        BY <2>1, <3>1, <3>2, <3>3, <3>4, <4>2 DEF t
      <4>4. w + 0 + n = x + t
        BY <1>1, <4>3
      <4> QED BY <3>4, <4>1, <4>2, <4>3, <4>4 DEF PackOk
    <3> QED BY <3>5, <3>6
  <2>4. CASE KDrain
    <3>1. s.state = "S_W_DRAIN" /\ s.wptr # NBeats
      BY <1>3, <2>4, DrainRoom DEF KDrain
    <3>2. W' = w + l /\ Len(s'.beat) = 0 /\ s'.beat = <<>> /\ UNCHANGED <<s.xfer, s.hold, s.flush>> /\ s'.state = AfterDrain
      BY <2>4, <3>1, WNat DEF KDrain, KeepWalk
    <3>3. s'.state # "S_W_DRAIN" /\ (s'.state = "S_DONE" => s.flush)
      BY <3>2 DEF AfterDrain
    <3> HIDE DEF h, b, x, w, l
    <3>4. b = l
      BY <2>1, <3>1
    <3>5. /\ s.flush => h = 0 /\ w + l + 0 >= x /\ w + l >= x
          /\ ~s.flush => w + l + 0 + h = x
      BY <1>1, <2>1, <3>4
    <3> QED BY <1>1, <3>2, <3>3, <3>5 DEF PackOk, h, x
  <2>5. CASE KNextEnd
    <3>1. s.state = "S_NEXT" /\ s'.xfer = x /\ ~s.flush
      BY <1>3, <2>5 DEF KNextEnd, KeepWalk, WalkOk
    <3>2. CASE /\ s'.state = "S_W_DRAIN" /\ ChainEnd /\ s.dir /\ s.hold # <<>> /\ s'.beat = PadBeat(s.hold)
               /\ s'.hold = <<>> /\ s'.flush /\ UNCHANGED <<s.fetch, s.wptr>> /\ KeepPost
      <4>1. Len(s'.beat) = l
        BY <3>2, PadFacts DEF Inv, RegsOk
      <4>2. W' = w
        BY <3>2, WNat
      <4> HIDE DEF h, b, x, w, l
      <4>3. w + l >= x /\ w < x
        BY <1>1, <2>1, <3>1, <3>2 DEF h
      <4> QED BY <3>1, <3>2, <4>1, <4>2, <4>3 DEF PackOk
    <3>3. CASE /\ s'.state = "S_DONE" /\ ChainEnd /\ (s.dir => s.hold = <<>>) /\ KeepPipe /\ KeepPost
      <4>1. W' = w /\ UNCHANGED <<s.hold, s.beat, s.flush>> /\ h = 0 /\ s.beat = <<>> /\ b = 0
        BY <1>1, <1>3, <2>1, <3>1, <3>3, WNat DEF KeepPipe
      <4> HIDE DEF h, b, x, w, l
      <4>2. w + b + h = x /\ w >= x
        BY <1>1, <2>1, <3>1, <4>1
      <4> QED BY <3>1, <3>3, <4>1, <4>2 DEF PackOk, h, b
    <3>4. ~(s'.state = "S_CQ" /\ s'.flags = "aborted")
      BY DEF Quiet
    <3> QED BY <2>5, <3>2, <3>3, <3>4 DEF KNextEnd
  <2> QED BY <1>3, <2>2, <2>3, <2>4, <2>5
<1> QED BY <1>2, <1>3, WriteSteps

LEMMA PackNext ==
  ASSUME Inv, OrderOk, WalkOk, CapOk, PackOk, [Next]_vars
  PROVE  PackOk'
<1>1. CASE Away
  BY <1>1 DEF Away, PackOk
<1>2. CASE Svc \/ Mem
  BY <1>2 DEF Svc, Mem, rtl, PackOk, Quiet, W
<1> QED BY <1>1, <1>2, PackRun, DataSteps

\* what a drain leaves in staging: the beats before it, and the beat
LEMMA DrainEffect ==
  ASSUME Inv, OrderOk, DrainOk, Mem, s.state = "S_W_DRAIN"
  PROVE  /\ ~Quiet /\ s.dir /\ wrbuf' \in Seq(Byte) /\ Len(wrbuf') = W + Lanes
         /\ \A p \in 1 .. W : wrbuf'[p] = wrbuf[p]
         /\ \A q \in 1 .. Lanes : wrbuf'[W + q] = s.beat[q]
<1>1. ~Quiet /\ s.dir
  BY DEF Quiet, OrderOk
<1>2. wrbuf \in Seq(Byte) /\ Len(wrbuf) >= W /\ W \in Nat /\ Lanes \in Nat
  BY <1>1, WNat DEF DrainOk
<1>3. s.beat \in Seq(Byte) /\ Len(s.beat) = Lanes
  BY DEF Inv, RegsOk
<1> DEFINE x == SubSeq(wrbuf, 1, W)
<1>4. wrbuf' = x \o s.beat
  BY DEF Mem, W
<1>5. x \in Seq(Byte) /\ Len(x) = W /\ \A q \in 1 .. W : x[q] = wrbuf[q]
  <2> DEFINE w == W
             n == Len(wrbuf)
  <2>1. n \in Nat /\ w \in Nat /\ n >= w
    BY <1>2
  <2> HIDE DEF w, n
  <2>2. 0 + w <= n /\ 0 + w = w /\ 0 + 1 = 1 /\ 0 \in Nat
    BY <2>1
  <2>3. 0 + w <= Len(wrbuf)
    BY <2>2 DEF n
  <2>4. /\ SubSeq(wrbuf, 0 + 1, 0 + w) \in Seq(Byte) /\ Len(SubSeq(wrbuf, 0 + 1, 0 + w)) = w
        /\ \A q \in 1 .. w : SubSeq(wrbuf, 0 + 1, 0 + w)[q] = wrbuf[0 + q]
    BY <1>2, <2>1, <2>2, <2>3, SliceFacts
  <2>5. \A q \in 1 .. w : 0 + q = q
    BY <2>1
  <2>6. /\ SubSeq(wrbuf, 1, w) \in Seq(Byte) /\ Len(SubSeq(wrbuf, 1, w)) = w
        /\ \A q \in 1 .. w : SubSeq(wrbuf, 1, w)[q] = wrbuf[q]
    BY <2>2, <2>4, <2>5
  <2> QED BY <2>6 DEF w
<1> HIDE DEF x
<1>6. /\ x \o s.beat \in Seq(Byte) /\ Len(x \o s.beat) = Len(x) + Len(s.beat)
      /\ \A i \in 1 .. Len(x) : (x \o s.beat)[i] = x[i]
      /\ \A j \in 1 .. Len(s.beat) : (x \o s.beat)[Len(x) + j] = s.beat[j]
  BY <1>3, <1>5, JoinFacts
<1> QED BY <1>1, <1>3, <1>4, <1>5, <1>6

LEMMA DrainNext ==
  ASSUME Inv, OrderOk, WalkOk, CapOk, PackOk, DrainOk, [Next]_vars
  PROVE  DrainOk'
<1>1. CASE Away
  BY <1>1 DEF Away, DrainOk
<1>2. CASE Svc
  BY <1>2, SvcSteps DEF rtl, DrainOk, Quiet, W
<1>3. CASE Mem
  <2>1. s' = s /\ (Quiet' <=> Quiet) /\ W' = W
    BY <1>3 DEF Mem, Quiet, W
  <2>2. CASE s.state = "S_W_DRAIN"
    <3>1. /\ wrbuf' \in Seq(Byte) /\ Len(wrbuf') = W + Lanes /\ (\A q \in 1 .. Lanes : wrbuf'[W + q] = s.beat[q])
          /\ W \in Nat /\ Lanes \in Nat
      BY <1>3, <2>2, DrainEffect, WNat
    <3>2. Len(wrbuf') >= W /\ Len(wrbuf') >= W + Lanes
      <4> DEFINE n == Len(wrbuf')
                 w == W
      <4>1. n = w + Lanes /\ w \in Nat
        BY <3>1
      <4> HIDE DEF n, w
      <4>2. n >= w /\ n >= w + Lanes
        BY <3>1, <4>1
      <4> QED BY <4>2 DEF n, w
    <3> QED BY <2>1, <3>1, <3>2 DEF DrainOk
  <2>3. CASE s.state # "S_W_DRAIN"
    <3>1. wrbuf' = wrbuf
      BY <1>3, <2>3 DEF Mem, staging
    <3> QED BY <2>1, <2>3, <3>1 DEF DrainOk
  <2> QED BY <2>2, <2>3
<1>4. CASE Run
  <2>1. wrbuf' = wrbuf
    BY <1>4 DEF Run
  <2> SUFFICES ASSUME ~Quiet', s'.dir PROVE DrainOk'
    BY <2>1 DEF DrainOk
  <2>2. wrbuf \in Seq(Byte) /\ Len(wrbuf) \in Nat
    BY DEF DrainOk
  <2>3. CASE Start /\ KStart
    <3>1. W' = 0 /\ s'.state = "S_DESC"
      BY <2>3, WNat DEF KStart
    <3> QED BY <2>1, <2>2, <3>1 DEF DrainOk
  <2>4. CASE ~Quiet /\ s.dir /\ KStay
    <3>1. W' = W /\ s'.state = s.state /\ s'.beat = s.beat /\ (acc' => acc)
      BY <2>4, WNat DEF KStay, KeepPipe
    <3> QED BY <2>1, <2>4, <3>1 DEF DrainOk
  <2>5. CASE ~Quiet /\ s.dir /\ acc' = FALSE /\ KDrain
    <3>1. s.state = "S_W_DRAIN" /\ s.wptr # NBeats
      BY <2>5, DrainRoom DEF KDrain
    <3>2. W' = W + Lanes /\ acc
      BY <2>5, <3>1, WNat DEF KDrain
    <3> QED BY <2>1, <2>5, <3>1, <3>2 DEF DrainOk
  <2>6. CASE ~Quiet /\ s.dir /\ acc' = FALSE /\ (KDesc \/ KLoad \/ KNextDesc \/ KNextEnd)
    <3>1. W' = W
      BY <2>6, WNat DEF KDesc, KLoad, KNextDesc, KNextEnd, KeepPipe
    <3> QED BY <2>1, <2>6, <3>1 DEF DrainOk
  <2> QED BY <1>4, <2>3, <2>4, <2>5, <2>6, WriteSteps
<1> QED BY <1>1, <1>2, <1>3, <1>4, DataSteps

\* a load: the hold register and the bytes of the line are the next bytes of the chain
LEMMA GatherAll ==
  ASSUME Inv, WalkOk, PackOk, GatherOk, Here, Writes, ~Quiet, s.dir, s.state = "S_W_LOAD", acc
  PROVE  /\ s.hold \o ld.bytes \in Seq(Byte) /\ Len(s.hold \o ld.bytes) \in Nat
         /\ \A q \in 1 .. Len(s.hold \o ld.bytes) : (s.hold \o ld.bytes)[q] = Sent(W + q)
         /\ W <= s.xfer /\ s.beat = <<>>
<1> DEFINE x == s.hold
           y == ld.bytes
           z == x \o y
           h == Len(x)
           t == Len(y)
           w == W
<1>1. x \in Seq(Byte) /\ y \in Seq(Byte) /\ h \in Nat /\ t \in Nat /\ w \in Nat /\ t = Take /\ s.xfer \in Nat
  BY WNat, SMTT(30) DEF Inv, LoadOk, RegsOk
<1>2. ~s.flush /\ s.beat = <<>> /\ Len(s.beat) = 0 /\ W + Len(s.beat) + Len(s.hold) = s.xfer
  BY DEF WalkOk, PackOk
<1>3. \A q \in 1 .. t : y[q] = Sent(s.xfer + q)
  BY <1>1 DEF GatherOk
<1>4. \A q \in 1 .. h : x[q] = Sent(W + Len(s.beat) + q)
  BY DEF GatherOk
<1>5. /\ z \in Seq(Byte) /\ Len(z) = h + t
      /\ (\A i \in 1 .. h : z[i] = x[i]) /\ (\A j \in 1 .. t : z[h + j] = y[j])
  BY <1>1, JoinFacts
<1>6. w + 0 + h = s.xfer /\ \A q \in 1 .. h : x[q] = Sent(w + 0 + q)
  BY <1>2, <1>4
<1> HIDE DEF x, y, z, h, t, w
<1>7. w <= s.xfer /\ s.xfer = w + h
  BY <1>1, <1>6
<1>8. ASSUME NEW q \in 1 .. h + t PROVE z[q] = Sent(w + q)
  <2>1. CASE q <= h
    <3>1. q \in 1 .. h /\ w + 0 + q = w + q
      BY <1>1, <2>1
    <3> QED BY <1>5, <1>6, <3>1
  <2>2. CASE q > h
    <3>1. q - h \in 1 .. t /\ h + (q - h) = q /\ s.xfer + (q - h) = w + q
      BY <1>1, <1>7, <2>2
    <3>2. z[h + (q - h)] = y[q - h] /\ y[q - h] = Sent(s.xfer + (q - h))
      BY <1>3, <1>5, <3>1
    <3> QED BY <3>1, <3>2
  <2>3. q \in Int /\ h \in Int
    BY <1>1
  <2> QED BY <2>1, <2>2, <2>3
<1>9. Len(z) \in Nat
  BY <1>1, <1>5
<1> QED BY <1>2, <1>5, <1>7, <1>8, <1>9 DEF x, y, z, w

LEMMA GatherLoad ==
  ASSUME Inv, WalkOk, PackOk, GatherOk, Here, Writes, ~Quiet, s.dir, KLoad, acc' = FALSE, ~Quiet', UNCHANGED <<g, cmds, wrbuf>>
  PROVE  GatherOk'
<1> DEFINE z == s.hold \o ld.bytes
           n == Len(z)
           w == W
           l == Lanes
<1>1. s.state = "S_W_LOAD" /\ acc
  BY DEF KLoad
<1>2. /\ z \in Seq(Byte) /\ n \in Nat /\ (\A q \in 1 .. n : z[q] = Sent(w + q))
      /\ w <= s.xfer /\ s.beat = <<>>
  BY <1>1, GatherAll
<1>3. W' = w /\ w \in Nat /\ l \in Nat \ {0} /\ s.xfer \in Nat /\ s'.xfer = s.xfer + Take /\ Take \in Nat
  BY WNat, TakeType DEF KLoad, Inv, RegsOk
<1>4. \A p \in 1 .. w : wrbuf[p] = Sent(p)
  BY <1>2, <1>3 DEF GatherOk
<1>5. \A p : Sent(p)' = Sent(p)
  BY DEF Sent
<1>6. CASE n >= l
  <2>1. s'.state = "S_W_DRAIN" /\ s'.beat = SubSeq(z, 1, l) /\ s'.hold = SubSeq(z, l + 1, n)
    BY <1>6 DEF KLoad
  <2> HIDE DEF z
  <2>2. z \in Seq(Byte) /\ n = Len(z)
    BY <1>2
  <2> DEFINE m == n - l
  <2>3. 0 + l <= n /\ 0 + l = l /\ 0 + 1 = 1 /\ l + m = n /\ m \in Nat /\ l + m <= n /\ n \in Nat /\ l \in Nat
    <3>1. n \in Nat /\ l \in Nat /\ n >= l
      BY <1>2, <1>3, <1>6
    <3> HIDE DEF n, l
    <3> QED BY <3>1
  <2> HIDE DEF n, m, l, w
  <2>4. 0 + l <= Len(z) /\ l + m <= Len(z) /\ 0 \in Nat
    BY <2>2, <2>3
  <2>5. Len(SubSeq(z, 0 + 1, 0 + l)) = l /\ \A q \in 1 .. l : SubSeq(z, 0 + 1, 0 + l)[q] = z[0 + q]
    BY <2>2, <2>3, <2>4, SliceFacts
  <2>6. Len(SubSeq(z, l + 1, l + m)) = m /\ \A q \in 1 .. m : SubSeq(z, l + 1, l + m)[q] = z[l + q]
    BY <2>2, <2>3, <2>4, SliceFacts
  <2>7. Len(s'.beat) = l /\ \A q \in 1 .. l : s'.beat[q] = Sent(w + q)
    <3>1. \A q \in 1 .. l : 0 + q = q /\ q \in 1 .. n
      BY <2>3
    <3> QED BY <1>2, <2>1, <2>3, <2>5, <3>1
  <2>8. Len(s'.hold) = m /\ \A q \in 1 .. m : s'.hold[q] = Sent(w + l + q)
    <3>1. \A q \in 1 .. m : l + q \in 1 .. n /\ w + (l + q) = w + l + q
      BY <1>3, <2>3
    <3>2. \A q \in 1 .. m : z[l + q] = Sent(w + l + q)
      BY <1>2, <3>1
    <3> QED BY <2>1, <2>3, <2>6, <3>2
  <2> QED BY <1>3, <1>4, <1>5, <2>1, <2>7, <2>8 DEF GatherOk
<1>7. CASE ~(n >= l)
  <2>0. s'.beat = s.beat /\ s'.hold = z
    BY <1>7 DEF KLoad
  <2>1. s'.beat = <<>> /\ s'.hold = z /\ Len(s'.beat) = 0
    <3>1. s'.beat = <<>>
      BY <1>2, <2>0
    <3> QED BY <2>0, <3>1
  <2> HIDE DEF z, w
  <2>2. \A q \in 1 .. n : w + 0 + q = w + q
    BY <1>2, <1>3
  <2> QED BY <1>2, <1>3, <1>4, <1>5, <2>1, <2>2 DEF GatherOk
<1> QED BY <1>6, <1>7

LEMMA GatherDrain ==
  ASSUME Inv, WalkOk, CapOk, PackOk, DrainOk, GatherOk, Here, Writes, ~Quiet, s.dir, KDrain, acc' = FALSE, ~Quiet',
         UNCHANGED <<g, cmds, wrbuf>>
  PROVE  GatherOk'
<1>1. s.state = "S_W_DRAIN" /\ s.wptr # NBeats
  BY DrainRoom DEF KDrain
<1> DEFINE w == W
           l == Lanes
<1>2. acc /\ W' = w + l /\ w \in Nat /\ l \in Nat \ {0} /\ s.xfer \in Nat /\ s'.xfer = s.xfer /\ Len(s.beat) = l
  BY <1>1, WNat DEF KDrain, KeepWalk, Inv, RegsOk
<1>3. s'.beat = <<>> /\ Len(s'.beat) = 0 /\ s'.hold = s.hold
  BY DEF KDrain
<1>4. \A q \in 1 .. l : wrbuf[w + q] = s.beat[q]
  BY <1>1, <1>2 DEF DrainOk
<1>5. /\ \A p \in 1 .. w : p <= s.xfer => wrbuf[p] = Sent(p)
      /\ \A q \in 1 .. l : w + q <= s.xfer => s.beat[q] = Sent(w + q)
      /\ \A q \in 1 .. Len(s.hold) : s.hold[q] = Sent(w + l + q)
  BY <1>2 DEF GatherOk
<1>6. \A p : Sent(p)' = Sent(p)
  BY DEF Sent
<1> HIDE DEF w, l
<1>7. ASSUME NEW p \in 1 .. w + l, p <= s.xfer PROVE wrbuf[p] = Sent(p)
  <2>1. CASE p <= w
    BY <1>2, <1>5, <1>7, <2>1
  <2>2. CASE p > w
    <3>1. p - w \in 1 .. l /\ w + (p - w) = p
      BY <1>2, <2>2
    <3>2. wrbuf[w + (p - w)] = s.beat[p - w] /\ (w + (p - w) <= s.xfer => s.beat[p - w] = Sent(w + (p - w)))
      BY <1>4, <1>5, <3>1
    <3> QED BY <1>7, <3>1, <3>2
  <2>3. p \in Int /\ w \in Int
    BY <1>2
  <2> QED BY <2>1, <2>2, <2>3
<1>8. \A q \in 1 .. Len(s.hold) : w + l + 0 + q = w + l + q
  BY <1>2
<1> QED BY <1>2, <1>3, <1>5, <1>6, <1>7, <1>8 DEF GatherOk

\* padding leaves the bytes of the beat
LEMMA PadKeeps ==
  ASSUME NEW b \in Seq(Byte), Len(b) < Lanes
  PROVE  \A q \in 1 .. Len(b) : PadBeat(b)[q] = b[q]
<1> DEFINE n == Lanes - Len(b)
           p == [i \in 1 .. n |-> Pad]
<1>1. Lanes \in Nat /\ Len(b) \in Nat /\ n \in Nat
  BY ScsiConstants
<1>2. Pad \in Byte
  BY DEF Pad, Byte
<1>3. PadBeat(b) = b \o p
  BY DEF PadBeat
<1> HIDE DEF n
<1>4. p \in Seq(Byte)
  BY <1>1, <1>2
<1> HIDE DEF p
<1> QED BY <1>3, <1>4, JoinFacts

LEMMA GatherRun ==
  ASSUME Inv, OrderOk, DirOk, WalkOk, CapOk, PackOk, DrainOk, GatherOk, Run
  PROVE  GatherOk'
<1> SUFFICES ASSUME Here', Writes' PROVE GatherOk'
  BY DEF GatherOk
<1>1. UNCHANGED <<g, cmds, wrbuf>> /\ sh'.req_seq = sh.req_seq /\ Cmd' = Cmd /\ Writes /\ \A p : Sent(p)' = Sent(p)
  BY DEF Run, Cmd, Writes, Sent
<1>2. CASE Start
  <2>1. ~Quiet' /\ KStart
    <3>1. s'.state = "S_DESC" /\ s.state = "S_IDLE"
      BY <1>2 DEF Run, Tagged, Start
    <3>2. KStart
      BY <3>1 DEF Run, ChanCase, KStay, KDesc, KNeed, KFetch, KStore, KLoad, KDrain, KNextDesc, KNextEnd, KDone, KCq, KIdx
    <3> QED BY <3>1, <3>2 DEF Quiet
  <2>2. W' = 0 /\ Len(s'.beat) = 0 /\ Len(s'.hold) = 0 /\ s'.state = "S_DESC"
    BY <2>1, WNat DEF KStart
  <2> QED BY <2>1, <2>2 DEF GatherOk
<1>3. CASE ~Start
  <2>1. Here
    BY <1>1, <1>3 DEF Run, Tagged, Here
  <2>2. CASE Quiet
    <3>1. Quiet'
      BY <1>3, <2>2 DEF Run, Moved, Start
    <3>2. s'.xfer = s.xfer /\ W' = W
      BY <1>3, <2>2, <3>1, WNat DEF Run, ChanCase, KStay, Quiet, KStart, KNeed, KDesc, KFetch, KStore, KLoad, KDrain, KNextDesc,
         KNextEnd, KDone, KCq, KIdx, KeepWalk, KeepPipe
    <3> QED BY <1>1, <2>1, <2>2, <3>1, <3>2 DEF GatherOk
  <2>3. CASE ~Quiet /\ Quiet'
    <3>1. s.dir /\ s.state \notin RStates \cup {"S_CQ", "S_IDX"} /\ ~Cancel
      BY <1>1, <2>3, NoStore DEF Writes
    <3>2. KDone
      BY <2>3, <3>1 DEF Run, ChanCase, KStay, Quiet, KStart, KNeed, KDesc, KFetch, KStore, KLoad, KDrain, KNextDesc,
         KNextEnd, KCq, KIdx, RStates, AfterDrain
    <3>3. s'.xfer = s.xfer /\ W' = W /\ W >= s.xfer
      BY <2>3, <3>1, <3>2, WNat DEF KDone, KeepWalk, KeepPipe, PackOk
    <3>4. s.xfer \in Nat /\ W \in Nat
      BY WNat DEF Inv, RegsOk
    <3> QED BY <1>1, <2>1, <2>3, <3>3, <3>4 DEF GatherOk
  <2>4. CASE ~Quiet /\ ~Quiet'
    <3>1. s.dir /\ s.state \notin RStates /\ s'.dir
      <4>1. s.dir /\ s.state \notin RStates
        BY <1>1, <2>4, NoStore DEF Writes
      <4> QED BY <1>3, <4>1 DEF Run, Tagged
    <3>2. \/ KStay \/ (acc' = FALSE /\ (KDesc \/ KNextDesc)) \/ (acc' = FALSE /\ KLoad)
          \/ (acc' = FALSE /\ KDrain) \/ (acc' = FALSE /\ KNextEnd)
      <4>1. KStay \/ (acc' = FALSE /\ (KDesc \/ KLoad \/ KDrain \/ KNextDesc \/ KNextEnd))
        BY <1>3, <2>4, <3>1, WriteSteps
      <4> QED BY <4>1
    <3>3. CASE KStay
      <4>1. W' = W /\ UNCHANGED <<s.state, s.beat, s.hold, s.xfer>> /\ Take' = Take /\ (acc' => acc /\ ld' = ld)
        BY <3>3, WNat DEF KStay, KeepPipe, KeepWalk, Take
      <4> QED BY <1>1, <2>1, <2>4, <4>1 DEF GatherOk
    <3>4. CASE acc' = FALSE /\ (KDesc \/ KNextDesc)
      <4>1. W' = W /\ UNCHANGED <<s.beat, s.hold, s.xfer>>
        BY <3>4, WNat DEF KDesc, KNextDesc, KeepPipe
      <4> QED BY <1>1, <2>1, <2>4, <3>4, <4>1 DEF GatherOk
    <3>5. CASE acc' = FALSE /\ KLoad
      BY <1>1, <2>1, <2>4, <3>1, <3>5, GatherLoad
    <3>6. CASE acc' = FALSE /\ KDrain
      BY <1>1, <2>1, <2>4, <3>1, <3>6, GatherDrain
    <3>7. CASE acc' = FALSE /\ KNextEnd
      <4>1. s'.xfer = s.xfer /\ s.state = "S_NEXT" /\ s.beat = <<>> /\ ~s.flush /\ Len(s.beat) = 0
        BY <2>4, <3>1, <3>7 DEF KNextEnd, KeepWalk, PackOk, WalkOk
      <4>2. CASE KeepPipe
        <5>1. W' = W /\ UNCHANGED <<s.beat, s.hold>>
          BY <4>2, WNat DEF KeepPipe
        <5> QED BY <1>1, <2>1, <2>4, <3>7, <4>1, <5>1 DEF GatherOk
      <4>3. CASE s'.beat = PadBeat(s.hold) /\ s'.hold = <<>> /\ UNCHANGED s.wptr
        <5> DEFINE h == Len(s.hold)
                   w == W
                   b == s'.beat
        <5>1. W' = w /\ w \in Nat /\ Len(s'.hold) = 0 /\ s.hold \in Seq(Byte) /\ h \in Nat /\ h < Lanes
          BY <4>3, WNat DEF Inv, RegsOk
        <5>2. w + Len(s.beat) + h = s.xfer /\ \A q \in 1 .. h : s.hold[q] = Sent(w + Len(s.beat) + q)
          BY <1>1, <2>1, <2>4, <3>1, <4>1 DEF PackOk, GatherOk
        <5>3. w + 0 + h = s.xfer /\ \A q \in 1 .. h : s.hold[q] = Sent(w + 0 + q)
          BY <4>1, <5>2
        <5>4. Len(b) = Lanes /\ \A q \in 1 .. h : b[q] = s.hold[q]
          BY <4>3, <5>1, PadFacts, PadKeeps
        <5>5. Lanes \in Nat
          BY ScsiConstants
        <5> HIDE DEF h, w, b
        <5>6. ASSUME NEW q \in 1 .. Lanes, w + q <= s.xfer PROVE b[q] = Sent(w + q)
          <6>1. q \in 1 .. h /\ w + 0 + q = w + q
            BY <5>1, <5>3, <5>5, <5>6
          <6> QED BY <5>3, <5>4, <6>1
        <5> QED BY <1>1, <2>1, <2>4, <3>7, <4>1, <5>1, <5>4, <5>6 DEF GatherOk, b, w
      <4>4. KeepPipe \/ (s'.beat = PadBeat(s.hold) /\ s'.hold = <<>> /\ UNCHANGED s.wptr)
        BY <3>7 DEF KNextEnd
      <4> QED BY <4>2, <4>3, <4>4
    <3> QED BY <3>2, <3>3, <3>4, <3>5, <3>6, <3>7
  <2> QED BY <2>2, <2>3, <2>4
<1> QED BY <1>2, <1>3

\* a load of a line: the next bytes of the chain
LEMMA LoadEffect ==
  ASSUME Inv, OrderOk, DirOk, WalkOk, FillOk, Writes, Mem, s.state = "S_W_LOAD"
  PROVE  \A q \in 1 .. Take : ld'.bytes[q] = Sent(s.xfer + q)
<1> DEFINE d == chain[s.nbdp]
           n == Take
           b == SubSeq(d.buf, s.bp + 1, s.bp + n)
<1>1. ~Quiet
  BY DEF Quiet
<1>2. s.nbdp \in 1 .. Len(chain) /\ At(chain, s.nbdp) \in Nat /\ s.xfer = At(chain, s.nbdp) + s.bp
  BY <1>1, WalkFacts
<1>3. IsDesc(d) /\ s.bp + s.cnt = d.cnt /\ s.bp \in Nat /\ s.cnt \in Nat
  BY <1>1, <1>2 DEF Inv, CursorOk, ChainOk, RegsOk
<1>4. n \in Nat /\ n <= s.cnt
  BY TakeType DEF Inv, RegsOk
<1>5. d.buf \in Seq(Byte) /\ Len(d.buf) = d.cnt /\ d.cnt \in Nat
  BY <1>3 DEF IsDesc
<1>6. ld'.bytes = b
  <2>1. ld' = [ld EXCEPT !.bytes = b]
    BY DEF Mem
  <2> HIDE DEF b
  <2> QED BY <2>1 DEF Inv, LoadOk
<1>7. \A j \in 1 .. d.cnt : d.buf[j] = Sent(At(chain, s.nbdp) + j)
  BY <1>2 DEF FillOk, Writes
<1> DEFINE at == At(chain, s.nbdp)
<1> HIDE DEF d, n, at
<1>8. s.bp + n <= d.cnt
  BY <1>3, <1>4, <1>5
<1>9. \A q \in 1 .. n : b[q] = d.buf[s.bp + q]
  BY <1>3, <1>4, <1>5, <1>8, SliceFacts, SMTT(30)
<1>10. ASSUME NEW q \in 1 .. n PROVE b[q] = Sent(s.xfer + q)
  <2>1. s.bp + q \in 1 .. d.cnt /\ at \in Nat /\ s.xfer = at + s.bp
    BY <1>2, <1>3, <1>4, <1>5, <1>8, SMTT(30) DEF at
  <2>2. at + (s.bp + q) = s.xfer + q
    BY <1>3, <1>4, <2>1
  <2>3. d.buf[s.bp + q] = Sent(at + (s.bp + q))
    BY <1>7, <2>1 DEF at
  <2> QED BY <1>9, <2>2, <2>3
<1> QED BY <1>6, <1>10 DEF n

LEMMA GatherMem ==
  ASSUME Inv, OrderOk, DirOk, WalkOk, PackOk, FillOk, DrainOk, GatherOk, Mem
  PROVE  GatherOk'
<1> SUFFICES ASSUME Here', Writes' PROVE GatherOk'
  BY DEF GatherOk
<1>1. UNCHANGED <<g, cmds, sh, s>> /\ acc' = TRUE
  BY DEF Mem
<1>2. /\ Here /\ Writes /\ W' = W /\ (Quiet' <=> Quiet) /\ Take' = Take
      /\ \A p : Sent(p)' = Sent(p)
  BY <1>1 DEF Here, Writes, Cmd, W, Quiet, Take, Sent
<1>3. CASE s.state = "S_W_DRAIN"
  <2>1. \A p \in 1 .. W : wrbuf'[p] = wrbuf[p]
    BY <1>3, DrainEffect
  <2> QED BY <1>1, <1>2, <1>3, <2>1 DEF GatherOk
<1>4. CASE s.state = "S_W_LOAD"
  <2>1. \A q \in 1 .. Take : ld'.bytes[q] = Sent(s.xfer + q)
    BY <1>2, <1>4, LoadEffect
  <2>2. wrbuf' = wrbuf
    BY <1>4 DEF Mem, staging
  <2> QED BY <1>1, <1>2, <2>1, <2>2 DEF GatherOk
<1>5. CASE s.state \notin {"S_W_DRAIN", "S_W_LOAD"}
  <2>1. wrbuf' = wrbuf
    BY <1>5 DEF Mem, staging
  <2> QED BY <1>1, <1>2, <1>5, <2>1 DEF GatherOk
<1> QED BY <1>3, <1>4, <1>5

LEMMA GatherNext ==
  ASSUME Inv, OrderOk, DirOk, WalkOk, CapOk, PackOk, FillOk, DrainOk, GatherOk, [Next]_vars
  PROVE  GatherOk'
<1>1. CASE Away
  BY <1>1 DEF Away, GatherOk
<1>2. CASE Svc
  <2>1. UNCHANGED rtl /\ wrbuf' = wrbuf
    BY <1>2, SvcSteps DEF Svc
  <2> QED BY <2>1 DEF rtl, GatherOk, Here, Writes, Cmd, W, Quiet, Take, Sent
<1> QED BY <1>1, <1>2, GatherRun, GatherMem, DataSteps

LEMMA EndNext ==
  ASSUME Inv, Inv', OrderOk, DirOk, EntryOk, EndOk, [Next]_vars
  PROVE  EndOk'
<1>1. CASE Svc
  <2>1. UNCHANGED <<g, cmds, chain, sh, s, acc, cq>> /\ (Unanswered' => Unanswered)
    BY <1>1, AnswerStep, SvcSteps DEF rtl
  <2>2. db'.cq_cons = db.cq_cons \/ db'.cq_cons = db.cq_cons + 1
    BY <1>1, SvcSteps DEF VDoorbell, VStage, VRing, VPoll, VPost, VPostSeq
  <2>3. db.cq_cons \in Nat /\ s.cq_prod \in Nat
    BY DEF Inv, RingOk
  <2>4. db'.cq_cons .. s.cq_prod \subseteq db.cq_cons .. s.cq_prod
    BY <2>2, <2>3
  <2> QED BY <2>1, <2>4 DEF EndOk, Posted, Writes, Cmd, Quiet
<1>2. CASE Away
  BY <1>2 DEF Away, EndOk
<1>3. CASE Mem
  <2> SUFFICES ASSUME Writes', Unanswered', NEW i \in db'.cq_cons .. s'.cq_prod, Posted(i)', cq'[i % NCq].seq = sh'.req_seq
               PROVE  Quiet'
    BY DEF EndOk
  <2>1. UNCHANGED <<g, cmds, sh, s, db, rsp>>
    BY <1>3 DEF Mem, host
  <2>2. Writes /\ Unanswered /\ (Quiet' <=> Quiet)
    BY <2>1 DEF Writes, Cmd, Unanswered, Quiet
  <2>3. CASE s.state = "S_CQ"
    BY <2>2, <2>3, NoStore DEF Writes
  <2>4. CASE s.state # "S_CQ"
    <3>1. cq' = cq /\ Posted(i)
      BY <1>3, <2>1, <2>4 DEF Mem, staging, Posted
    <3> QED BY <2>1, <2>2, <3>1 DEF EndOk
  <2> QED BY <2>3, <2>4
<1>4. CASE Run
  <2> SUFFICES ASSUME Writes', Unanswered', NEW i \in db'.cq_cons .. s'.cq_prod, Posted(i)', cq'[i % NCq].seq = sh'.req_seq
               PROVE  Quiet'
    BY DEF EndOk
  <2>1. UNCHANGED <<g, cmds, cq, db, rsp>> /\ sh'.req_seq = sh.req_seq
    BY <1>4 DEF Run
  <2>2. Writes /\ Unanswered /\ Moves
    BY <2>1 DEF Writes, Cmd, Unanswered, Moves
  <2>3. i \in db.cq_cons .. s.cq_prod /\ Posted(i)
    BY <1>4, PostedRun
  <2>4. Quiet /\ Here
    BY <2>1, <2>2, <2>3 DEF EndOk, EntryOk, Writes
  <2>5. ~Start
    BY <1>4, <2>4, HereRun
  <2> QED BY <1>4, <2>4, <2>5 DEF Run, Moved, Start
<1> QED BY <1>1, <1>2, <1>3, <1>4, GuestSteps

LEMMA MultipleMod ==
  ASSUME NEW x \in Nat, NEW l \in Nat \ {0}, NEW k \in Int, x = l * k
  PROVE  x % l = 0
<1> DEFINE d == x \div l
           r == x % l
           e == k - d
<1>1. d \in Nat /\ x = l * d + r /\ r \in 0 .. l - 1
  BY DivFacts
<1> HIDE DEF d, r
<1>2. e \in Int /\ l * e = l * k - l * d
  BY <1>1
<1>3. l * e = r
  BY <1>1, <1>2
<1> HIDE DEF e
<1>4. e >= 1 => l * e >= l
  BY <1>2
<1>5. e <= -1 => l * e <= -l
  BY <1>2
<1>6. e = 0
  BY <1>1, <1>2, <1>3, <1>4, <1>5
<1>7. r = 0
  BY <1>3, <1>6
<1> QED BY <1>7 DEF r

\* whole blocks: sums, differences, and rounding down
LEMMA BlockFacts ==
  ASSUME NEW x \in Nat, NEW y \in Nat, NEW l \in Nat \ {0}, x % l = 0, y % l = 0
  PROVE  (x + y) % l = 0 /\ (x >= y => (x - y) % l = 0) /\ (x \div l) * l = x
<1> DEFINE p == x \div l
           q == y \div l
<1>1. p \in Nat /\ x = l * p + 0 /\ q \in Nat /\ y = l * q + 0
  BY DivFacts
<1> HIDE DEF p, q
<1>2. x + y = l * (p + q) /\ p + q \in Int /\ x + y \in Nat
  BY <1>1
<1>3. x - y = l * (p - q) /\ p - q \in Int /\ (x >= y => x - y \in Nat)
  BY <1>1
<1>4. p * l = x
  BY <1>1
<1>5. (x + y) % l = 0
  BY <1>2, MultipleMod
<1>6. x >= y => (x - y) % l = 0
  BY <1>3, MultipleMod
<1> QED BY <1>4, <1>5, <1>6 DEF p

LEMMA SectorNext ==
  ASSUME Inv, OrderOk, ProgressOk, SectorOk, [Next]_vars
  PROVE  SectorOk'
<1>1. CASE Run \/ Svc
  BY <1>1 DEF Run, Svc, rtl, SectorOk, Cmd, Left
<1>2. CASE Mem
  <2>1. UNCHANGED <<g, cmds>> /\ Cmd' = Cmd /\ Left' = Left
    BY <1>2 DEF Mem, Cmd, Left
  <2>2. Cap(chain') = Cap(chain)
    BY <1>2, MemSums
  <2> QED BY <2>1, <2>2 DEF SectorOk
<1>3. CASE Away /\ Guest
  <2>1. CASE GDma
    <3>1. PICK ch \in Chains, dir \in BOOLEAN : Fits(ch) /\ chain' = Built(ch, dir, Len(g.past), Len(cmds))
      BY <2>1 DEF GDma
    <3>2. Len(g.past) \in Nat /\ Len(cmds) \in Nat /\ Cmd' = Cmd /\ Left' = Left
      BY <2>1 DEF Inv, DriverOk, CommandOk, GDma, Cmd, Left
    <3>3. Len(chain') = Len(ch) /\ \A i \in 1 .. Len(ch) : chain'[i].off = ch[i].off /\ chain'[i].cnt = ch[i].cnt
      BY <3>1, <3>2, ChainBuilt
    <3>4. cnts(chain') = [i \in 1 .. Len(ch) |-> ch[i].cnt]
      BY <3>3 DEF cnts
    <3>5. Cap(chain') = Capacity(ch)
      BY <3>3, <3>4 DEF Cap, Capacity
    <3>6. Cmd.kind = "write" => Capacity(ch) % Sector = 0 \/ Capacity(ch) >= Left
      BY <3>1 DEF Fits, Left
    <3> QED BY <2>1, <3>2, <3>5, <3>6 DEF SectorOk, GDma
  <2>2. CASE GSelect \/ GResume
    BY <2>2 DEF GSelect, GResume, SectorOk, Cmd, Left
  <2>3. CASE GReset
    BY <2>3 DEF GReset, SectorOk
  <2>4. CASE GCommand
    <3>1. Sector \in Nat \ {0}
      BY ScsiConstants
    <3>2. Len(g'.past) = 0 /\ 0 % Sector = 0
      BY <2>4, <3>1 DEF GCommand
    <3> QED BY <2>4, <3>2 DEF GCommand, SectorOk
  <2>5. CASE GIsr /\ sh.status # "pause"
    BY <2>5 DEF GIsr, SectorOk
  <2>6. CASE GIsr /\ sh.status = "pause"
    <3> SUFFICES ASSUME Cmd'.kind = "write" PROVE Len(g'.past) % Sector = 0
      BY <2>6 DEF GIsr, SectorOk
    <3>1. g.pc = "wait" /\ cmds' = cmds /\ g'.past = g.past \o Bytes(chain) /\ ~sh.bsy
      BY <1>3, <2>6 DEF GIsr, Inv, DriverOk, Away
    <3>2. Cmd.kind = "write" /\ a.pc = "idle" /\ a.last = sh.req_seq
      BY <3>1, WaitFacts DEF Cmd
    <3>3. AnsweredPause
      BY <2>6, <3>1, <3>2 DEF ProgressOk, Answer, AnsweredOk
    <3> DEFINE b == Bytes(chain)
               k == Len(g.past)
               c == Cap(chain)
    <3>4. b \in Seq(Byte) /\ Len(b) = c /\ g.past \in Seq(Byte) /\ c \in Nat /\ k \in Nat
      BY ChainBytes, AtFacts DEF Inv, DriverOk
    <3>5. Cmd.total \in Nat /\ a.pos = k + c /\ a.pos < Cmd.total /\ Left = Cmd.total - k
      BY <3>1, <3>3, CmdFacts DEF AnsweredPause, Left
    <3>6. Sector \in Nat \ {0} /\ k % Sector = 0 /\ (c % Sector = 0 \/ c >= Left)
      BY <3>1, <3>2, ScsiConstants DEF SectorOk
    <3> HIDE DEF b, k, c
    <3>7. ~(c >= Left)
      BY <3>4, <3>5
    <3>8. (k + c) % Sector = 0
      BY <3>4, <3>6, <3>7, BlockFacts
    <3>9. Len(g.past \o b) = Len(g.past) + Len(b)
      BY <3>4, SeqFacts
    <3>10. Len(g'.past) = k + c
      BY <3>1, <3>4, <3>9 DEF b, k
    <3> QED BY <3>8, <3>10
  <2> QED BY <1>3, <2>1, <2>2, <2>3, <2>4, <2>5, <2>6 DEF Guest
<1> QED BY <1>1, <1>2, <1>3, GuestSteps

\* the servicer's write: n bytes after the pos bytes there
LEMMA DiskWrite ==
  ASSUME NEW k, NEW pos \in Nat, NEW n \in Nat, NEW total \in Nat, pos + n <= total, NEW D, NEW E, NEW w,
         \A p \in 1 .. pos : D[p] = <<k, p>>, \A q \in 1 .. n : w[q] = <<k, pos + q>>,
         \A i \in 1 .. total : E[i] = IF i - pos \in 1 .. n THEN w[i - pos] ELSE D[i]
  PROVE  \A p \in 1 .. pos + n : E[p] = <<k, p>>
<1> TAKE p \in 1 .. pos + n
<1>1. p \in 1 .. total
  OBVIOUS
<1>2. CASE p <= pos
  <2>1. p \in 1 .. pos /\ p - pos \notin 1 .. n
    BY <1>2
  <2> QED BY <1>1, <2>1
<1>3. CASE p > pos
  <2>1. p - pos \in 1 .. n /\ pos + (p - pos) = p
    BY <1>3
  <2>2. w[p - pos] = <<k, pos + (p - pos)>>
    BY <2>1
  <2>3. E[p] = w[p - pos]
    BY <1>1, <2>1
  <2> QED BY <2>1, <2>2, <2>3
<1> QED BY <1>2, <1>3

LEMMA DiskDoorbell ==
  ASSUME Inv, ProgressOk, DiskOk, UNCHANGED rtl, VDoorbell
  PROVE  DiskOk'
<1>1. UNCHANGED <<g, cmds, sh>> /\ Cmd' = Cmd /\ (Writes' <=> Writes)
  BY DEF rtl, Cmd, Writes
<1>2. g.pc = "wait" /\ sh.req_cdb = Len(cmds)
  BY WaitFacts DEF VDoorbell, ProgressOk
<1>3. Cmd.total \in Nat
  BY <1>2, CmdFacts
<1>4. CASE /\ a.active /\ a'.active /\ a'.cmd = a.cmd /\ a'.pos = a.pos /\ a'.total = a.total
           /\ (a'.to_dev <=> a.to_dev) /\ a'.pc \in {"wait", "stage"} /\ disk' = disk
  BY <1>4 DEF DiskOk, OnDisk
<1> DEFINE data == Cmd.kind \in {"read", "write"} /\ Cmd.total > 0
<1>5. CASE /\ a'.cmd = Len(cmds) /\ a'.pos = 0 /\ a'.total = (IF data THEN Cmd.total ELSE 0)
           /\ (a'.active <=> data) /\ (a'.to_dev <=> Cmd.kind = "write")
           /\ a'.pc = (IF ~data THEN "post" ELSE IF Cmd.kind = "write" THEN "wait" ELSE "stage")
           /\ disk' = IF Cmd.kind = "write" THEN [i \in 1 .. Cmd.total |-> Junk] ELSE disk
  <2>1. CASE Cmd.kind # "write"
    BY <1>1, <1>5, <2>1 DEF DiskOk, Writes
  <2>2. CASE Cmd.kind = "write"
    <3>1. disk' = [i \in 1 .. Cmd.total |-> disk'[i]]
      BY <1>5, <2>2
    <3>2. a'.active => a'.total = Cmd.total /\ a'.pos = 0
      BY <1>5, <2>2
    <3>3. a'.pc = "post" => Cmd.total = 0
      BY <1>3, <1>5, <2>2
    <3>4. \A p \in 1 .. 0 : FALSE
      OBVIOUS
    <3>5. a'.active => OnDisk(a.pos, a.cmd, a.total)'
      BY <3>1, <3>2, <3>4 DEF OnDisk
    <3>6. a'.pc = "post" => OnDisk(Cmd.total, Len(cmds), Cmd.total)'
      BY <1>1, <3>1, <3>3, <3>4 DEF OnDisk
    <3>7. a'.pc \in {"post", "seq", "idle"} => a'.pc = "post"
      BY <1>5
    <3> QED BY <3>5, <3>6, <3>7 DEF DiskOk
  <2> QED BY <2>1, <2>2
<1> QED BY <1>2, <1>4, <1>5 DEF VDoorbell, Cmd

LEMMA DiskPoll ==
  ASSUME WholeBlocks, Inv, ProgressOk, EntryOk, EndOk, GatherOk, SectorOk, DiskOk, UNCHANGED rtl, UNCHANGED wrbuf, VPoll
  PROVE  DiskOk'
<1>1. /\ g.pc = "wait" /\ Unanswered /\ a.last = sh.req_seq /\ a.seq = sh.req_seq /\ a.pc = "wait"
      /\ UNCHANGED <<g, cmds, sh>> /\ Cmd' = Cmd /\ (Writes' <=> Writes)
  BY WaitFacts DEF VPoll, rtl, Cmd, Writes
<1>2. Going
  BY <1>1 DEF ProgressOk
<1> DEFINE e == cq[db.cq_cons % NCq]
           moved == Min2(e.bytes, a.total - a.pos)
           base == (a.pos \div Sector) * Sector
           whole == (moved \div Sector) * Sector
<1>3. CASE a' = a /\ disk' = disk
  BY <1>1, <1>3 DEF DiskOk, OnDisk
<1>4. CASE /\ e.seq = a.seq /\ a'.pos = a.pos + moved /\ a'.pc = "post"
           /\ a'.last = a.last /\ a'.cmd = a.cmd /\ a'.total = a.total /\ (a'.to_dev <=> a.to_dev)
           /\ (a'.active <=> a.pos + moved < a.total) /\ a'.status = (IF a.pos + moved < a.total THEN "pause" ELSE "ok")
           /\ disk' = IF a.to_dev
                      THEN [i \in DOMAIN disk |-> IF i - base \in 1 .. whole THEN wrbuf[i - base] ELSE disk[i]]
                      ELSE disk
  <2>1. CASE ~a.to_dev
    BY <1>1, <1>2, <1>4, <2>1 DEF DiskOk, Going, Writes
  <2>2. CASE a.to_dev
    <3>1. Writes /\ Moves /\ Cmd.kind = "write"
      BY <1>1, <1>2, <2>2 DEF Going, Writes
    <3>2. Posted(db.cq_cons) /\ db.cq_cons \in db.cq_cons .. s.cq_prod /\ e.seq = sh.req_seq
      BY <1>1, <1>4, HeadPosted DEF VPoll
    <3>3. Here /\ e.bytes <= s.xfer /\ Over(e.bytes) /\ Quiet
      BY <1>1, <3>1, <3>2 DEF EntryOk, EndOk
    <3>4. s.xfer <= W /\ \A p \in 1 .. W : p <= s.xfer => wrbuf[p] = Sent(p)
      BY <3>1, <3>3 DEF GatherOk
    <3>5. e.bytes \in Nat
      <4>1. NCq \in Nat \ {0} /\ db.cq_cons \in Nat
        BY ScsiConstants DEF Inv, RingOk
      <4>2. db.cq_cons % NCq \in 0 .. NCq - 1
        BY <4>1
      <4> QED BY <4>2 DEF Inv, StagingOk
    <3> DEFINE bytes == e.bytes
               pos == a.pos
               total == a.total
               c == Cap(chain)
               x == s.xfer
               w == W
               k == Len(cmds)
    <3>6. /\ bytes \in Nat /\ bytes <= x /\ (bytes >= Left \/ bytes = c) /\ x \in Nat /\ c \in Nat /\ w \in Nat /\ x <= w
          /\ moved = Min2(bytes, total - pos)
      BY <3>3, <3>4, <3>5, AtFacts, WNat DEF Over, Inv, RegsOk
    <3>7. /\ pos \in Nat /\ total \in Nat /\ pos < total /\ pos = Len(g.past) /\ a.cmd = k /\ total = Cmd.total
          /\ Left = total - pos
      BY <1>2 DEF Going, Left, Inv, ServicerOk
    <3>8. Sector \in Nat \ {0} /\ pos % Sector = 0 /\ total % Sector = 0 /\ (c % Sector = 0 \/ c >= Left)
      <4>1. Cmd \in Commands
        BY <1>1, CmdFacts
      <4> QED BY <1>1, <3>1, <3>7, <4>1, ScsiConstants DEF SectorOk, WholeBlocks
    <3>9. \A p \in 1 .. w : p <= x => wrbuf[p] = <<k, pos + p>>
      BY <3>4, <3>7 DEF Sent
    <3>10. OnDisk(pos, k, total)
      BY <1>2, <2>2, <3>7 DEF DiskOk, Going
    <3> HIDE DEF bytes, pos, total, c, x, w, k, moved
    <3>11. moved \in Nat /\ moved <= x /\ pos + moved <= total /\ (moved = total - pos \/ moved = c)
           /\ (moved # total - pos => ~(c >= Left))
      <4>1. CASE bytes >= total - pos
        <5>1. moved = total - pos
          BY <3>6, <3>7, <4>1 DEF Min2
        <5> QED BY <3>6, <3>7, <4>1, <5>1, SMTT(30)
      <4>2. CASE bytes < total - pos
        <5>1. moved = bytes /\ bytes = c
          BY <3>6, <3>7, <4>2 DEF Min2
        <5> QED BY <3>6, <3>7, <4>2, <5>1, SMTT(30)
      <4> QED BY <3>6, <3>7, <4>1, <4>2
    <3>12. moved % Sector = 0
      <4>1. CASE moved = total - pos
        <5>1. total \in Nat /\ pos \in Nat /\ total >= pos
          BY <3>7
        <5>2. (total - pos) % Sector = 0
          BY <3>8, <5>1, BlockFacts
        <5> QED BY <4>1, <5>2
      <4>2. CASE moved # total - pos
        BY <3>8, <3>11, <4>2
      <4> QED BY <4>1, <4>2
    <3>13. (pos \div Sector) * Sector = pos /\ (moved \div Sector) * Sector = moved
      BY <3>7, <3>8, <3>11, <3>12, BlockFacts, ZenonT(30)
    <3>14. base = pos /\ whole = moved
      BY <3>13 DEF pos
    <3> HIDE DEF base, whole
    <3>15. disk' = [i \in DOMAIN disk |-> IF i - pos \in 1 .. moved THEN wrbuf[i - pos] ELSE disk[i]]
      BY <1>4, <2>2, <3>14
    <3>16. \A q \in 1 .. moved : wrbuf[q] = <<k, pos + q>>
      <4>1. \A q \in 1 .. moved : q \in 1 .. w /\ q <= x
        BY <3>6, <3>11
      <4> QED BY <3>9, <4>1
    <3>17. disk = [i \in 1 .. total |-> disk[i]] /\ \A p \in 1 .. pos : disk[p] = <<k, p>>
      BY <3>10 DEF OnDisk
    <3>18. disk' = [i \in 1 .. total |-> disk'[i]] /\ \A p \in 1 .. pos + moved : disk'[p] = <<k, p>>
      <4> DEFINE D == disk
                 E == disk'
                 v == wrbuf
      <4>1. /\ D = [i \in 1 .. total |-> D[i]] /\ (\A p \in 1 .. pos : D[p] = <<k, p>>)
            /\ \A q \in 1 .. moved : v[q] = <<k, pos + q>>
        BY <3>16, <3>17
      <4>2. E = [i \in DOMAIN D |-> IF i - pos \in 1 .. moved THEN v[i - pos] ELSE D[i]]
        BY <3>15
      <4>3. pos \in Nat /\ moved \in Nat /\ total \in Nat /\ pos + moved <= total
        BY <3>7, <3>11
      <4> HIDE DEF D, E, v
      <4>4. DOMAIN D = 1 .. total
        BY <4>1
      <4>5. E = [i \in 1 .. total |-> E[i]]
        BY <4>2, <4>4
      <4>6. \A i \in 1 .. total : E[i] = IF i - pos \in 1 .. moved THEN v[i - pos] ELSE D[i]
        BY <4>2, <4>4
      <4>7. \A p \in 1 .. pos : D[p] = <<k, p>>
        BY <4>1
      <4>8. \A q \in 1 .. moved : v[q] = <<k, pos + q>>
        BY <4>1
      <4>9. \A p \in 1 .. pos + moved : E[p] = <<k, p>>
        BY <4>3, <4>6, <4>7, <4>8, DiskWrite
      <4> QED BY <4>5, <4>9 DEF E
    <3>19. OnDisk(a.pos, a.cmd, a.total)'
      BY <1>4, <3>7, <3>18 DEF OnDisk, pos, total
    <3>20. a'.status = "ok" => pos + moved = total
      BY <1>4, <3>7, <3>11 DEF pos, total
    <3>21. a'.status = "ok" => OnDisk(Cmd.total, Len(cmds), Cmd.total)'
      BY <1>1, <3>7, <3>18, <3>20 DEF OnDisk, k
    <3> QED BY <3>19, <3>21 DEF DiskOk
  <2> QED BY <2>1, <2>2
<1> QED BY <1>3, <1>4 DEF VPoll

LEMMA DiskNext ==
  ASSUME WholeBlocks, Inv, OrderOk, ProgressOk, EntryOk, EndOk, GatherOk, SectorOk, DiskOk, [Next]_vars
  PROVE  DiskOk'
<1>1. CASE Run
  BY <1>1 DEF Run, DiskOk, OnDisk, Writes, Cmd
<1>2. CASE Mem
  BY <1>2 DEF Mem, host, DiskOk, OnDisk, Writes, Cmd
<1>3. CASE Away
  <2>1. UNCHANGED <<a, disk>> /\ (g'.pc = "wait" => sh'.req_seq = sh.req_seq + 1)
    BY <1>3 DEF Away
  <2>2. a.last <= sh.req_seq /\ a.last \in Nat /\ sh.req_seq \in Nat
    BY DEF Inv, ServicerOk, ShimOk
  <2>3. g'.pc = "wait" => a'.last # sh'.req_seq
    BY <2>1, <2>2
  <2> QED BY <2>1, <2>3 DEF DiskOk, OnDisk, Writes
<1>4. CASE Svc
  <2>1. UNCHANGED rtl /\ UNCHANGED wrbuf /\ UNCHANGED <<g, cmds, sh>> /\ Cmd' = Cmd /\ (Writes' <=> Writes)
    BY <1>4, SvcSteps DEF rtl, Cmd, Writes
  <2>2. CASE UNCHANGED <<a, db, rsp, rdbuf, disk>>
    BY <2>1, <2>2 DEF DiskOk, OnDisk
  <2>3. CASE VStage \/ VRing \/ VPost \/ VPostSeq
    <3>1. KeepAcct /\ disk' = disk /\ (a'.pc \in {"post", "seq", "idle"} => a.pc \in {"post", "seq", "idle"})
      BY <2>3 DEF VStage, VRing, VPost, VPostSeq
    <3> QED BY <2>1, <3>1 DEF DiskOk, OnDisk, KeepAcct
  <2> QED BY <1>4, <2>1, <2>2, <2>3, SvcSteps, DiskDoorbell, DiskPoll
<1> QED BY <1>1, <1>2, <1>3, <1>4, GuestSteps
-----------------------------------------------------------------------------
(* The theorem on WRITEs *)

WriteInv == CapOk /\ FillOk /\ PackOk /\ DrainOk /\ GatherOk /\ EndOk /\ SectorOk /\ DiskOk

LEMMA WriteInit ==
  Init => WriteInv
<1> SUFFICES ASSUME Init PROVE WriteInv
  OBVIOUS
<1>1. Quiet /\ g.pc = "idle" /\ ~a.active /\ chain = <<>> /\ wrbuf = <<>>
  BY DEF Init, Quiet, ChanReset
<1>2. CapOk
  <2>1. NBeats * Lanes \in Nat
    <3>1. NBeats \in Nat /\ Lanes \in Nat
      BY ScsiConstants
    <3> QED BY <3>1
  <2>2. Len(chain) = 0
    BY <1>1
  <2>3. Cap(chain) = 0
    BY <2>2, SumToFacts DEF Cap
  <2> QED BY <2>1, <2>3 DEF CapOk
<1>3. wrbuf \in Seq(Byte)
  BY <1>1
<1>4. FillOk /\ PackOk /\ DrainOk /\ GatherOk
  BY <1>1, <1>3 DEF FillOk, PackOk, DrainOk, GatherOk, Here
<1>5. EndOk /\ SectorOk /\ DiskOk
  BY <1>1 DEF EndOk, SectorOk, DiskOk, Writes
<1> QED BY <1>2, <1>4, <1>5 DEF WriteInv

LEMMA WriteNext ==
  ASSUME SmallChains, WholeBlocks, Inv, Inv', DataInv, WriteInv, [Next]_vars
  PROVE  WriteInv'
<1> USE DEF DataInv, WriteInv
<1>1. CapOk' /\ FillOk' /\ PackOk' /\ DrainOk' /\ GatherOk'
  BY CapNext, FillNext, PackNext, DrainNext, GatherNext
<1>2. EndOk' /\ SectorOk' /\ DiskOk'
  BY EndNext, SectorNext, DiskNext
<1> QED BY <1>1, <1>2

LEMMA OnDiskAnswered ==
  ASSUME Inv, DataInv, WriteInv
  PROVE  WriteOnDisk
<1> SUFFICES ASSUME Interrupt("write", "ok") PROVE disk = Data(Len(cmds), 0, Cmd.total)
  BY DEF WriteOnDisk
<1>1. g.pc = "wait" /\ sh.intrq /\ sh.status = "ok" /\ Cmd.kind = "write"
  BY DEF Interrupt
<1>2. ~sh.bsy /\ a.pc = "idle" /\ a.last = sh.req_seq
  BY <1>1, WaitFacts DEF Inv, DriverOk
<1>3. a.status = "ok"
  BY <1>1, <1>2 DEF DataInv, ProgressOk
<1>4. OnDisk(Cmd.total, Len(cmds), Cmd.total)
  BY <1>1, <1>2, <1>3 DEF WriteInv, DiskOk, Writes
<1> DEFINE t == Cmd.total
           k == Len(cmds)
<1>5. t \in Nat
  BY <1>1, CmdFacts
<1>6. disk = [i \in 1 .. t |-> disk[i]] /\ \A p \in 1 .. t : disk[p] = <<k, p>>
  BY <1>4 DEF OnDisk
<1> HIDE DEF t, k
<1>7. t - 0 = t /\ \A i \in 1 .. t : 0 + i = i
  BY <1>5
<1>8. Data(k, 0, t) = [i \in 1 .. t |-> <<k, i>>]
  <2>1. Data(k, 0, t) = [i \in 1 .. t |-> <<k, 0 + i>>]
    BY <1>7 DEF Data
  <2> QED BY <1>7, <2>1
<1>9. disk = [i \in 1 .. t |-> <<k, i>>]
  BY <1>6
<1> QED BY <1>8, <1>9 DEF t, k

\* For every size of beat, disk block, completion ring and staging buffer, and for all commands
\* and chains the guest may choose (chains within the engine's limit of NdescMax + 1 descriptors
\* that fit the staging buffer, WRITEs of whole blocks): when the guest is told that a WRITE
\* succeeded, the disk has its bytes, gathered from all the chunks of the command in order.
THEOREM WritesLand ==
  ASSUME ShortChains, SmallChains, WholeBlocks
  PROVE  Spec => []WriteOnDisk
<1>1. Init => Inv /\ DataInv /\ WriteInv
  BY InvInit, DataInit, WriteInit
<1>2. Inv /\ DataInv /\ WriteInv /\ [Next]_vars => (Inv /\ DataInv /\ WriteInv)'
  <2> SUFFICES ASSUME Inv, DataInv, WriteInv, [Next]_vars PROVE (Inv /\ DataInv /\ WriteInv)'
    OBVIOUS
  <2>1. Inv'
    BY InvNext
  <2>2. DataInv' /\ WriteInv'
    BY <2>1, DataNext, WriteNext
  <2> QED BY <2>1, <2>2
<1>3. Inv /\ DataInv /\ WriteInv => WriteOnDisk
  BY OnDiskAnswered
<1> QED BY <1>1, <1>2, <1>3, PTL DEF Spec
=============================================================================
