--------------------------- MODULE DmaSnoopProofs ---------------------------
(***************************************************************************)
(* Proofs about dma_snoop_shim for any set of lines, byte lanes, values,   *)
(* masks and accesses: type correctness, no stale copy after a device      *)
(* store, and the refinement of CoherentMemory.                            *)
(***************************************************************************)
EXTENDS DmaSnoop, TLAPS

\* What the constants say of the access under way.
LEMMA AccessFacts ==
  ASSUME acc \in Accesses
  PROVE  /\ NSub \in Nat /\ NSub > 1
         /\ Len(acc) = 1 \/ Len(acc) = NSub
         /\ \A i \in 1 .. Len(acc) : acc[i] \in Lines
         /\ AccLines \subseteq Lines
         /\ acc[1] \in AccLines
         /\ \A i, j \in 1 .. Len(acc) : acc[i] = acc[j] => i = j
<1>1. NSub \in Nat /\ NSub > 1
  BY SnoopConstants, SMT
<1>2. acc \in Seq(Lines) /\ Len(acc) \in {1, NSub}
  BY SnoopConstants
<1>3. \A i \in 1 .. Len(acc) : acc[i] \in Lines
  BY <1>2
<1>4. acc[1] \in AccLines
  BY <1>1, <1>2 DEF AccLines
<1>5. \A i, j \in 1 .. Len(acc) : acc[i] = acc[j] => i = j
  BY SnoopConstants
<1> QED BY <1>1, <1>2, <1>3, <1>4, <1>5 DEF AccLines

\* The line being snooped is one of the access.
LEMMA SnoopLineInAccess ==
  ASSUME acc \in Accesses, sub \in 0 .. NSub - 1
  PROVE  SnoopLine \in AccLines /\ SnoopLine \in Lines
<1>1. CASE Is64
  <2>1. sub + 1 \in 1 .. Len(acc)
    BY <1>1, AccessFacts, SMT DEF Is64
  <2> QED BY <1>1, <2>1, AccessFacts DEF SnoopLine, AccLines
<1>2. CASE ~Is64
  BY <1>2, AccessFacts DEF SnoopLine
<1> QED BY <1>1, <1>2

\* The value a dropped copy is given is a line.
LEMMA BlankIsLine == NoVal \in Vals /\ Blank \in Line
BY SnoopConstants DEF NoVal, Blank, Line

\* A byte-masked store to a line gives a line.
LEMMA MergeIsLine ==
  ASSUME NEW old \in Line, NEW m, NEW v \in Vals
  PROVE  Merge(old, m, v) \in Line
BY DEF Merge, Line

\* A write-back-and-invalidate keeps the types of DRAM and the cache.
LEMMA WbinvTypes ==
  ASSUME TypeOK, NEW l \in Lines, Wbinv(l)
  PROVE  dram' \in [Lines -> Line] /\ cache' \in [Lines -> [st : {"I", "C", "D"}, val : Line]]
<1>1. cache[l].val \in Line
  BY DEF TypeOK
<1>2. dram' \in [Lines -> Line]
  BY <1>1 DEF Wbinv, TypeOK
<1>3. cache' \in [Lines -> [st : {"I", "C", "D"}, val : Line]]
  BY BlankIsLine DEF Wbinv, TypeOK
<1> QED BY <1>2, <1>3

\* The shim's registers and everything around it keep their types: r_sub never
\* leaves the sub-lines of an access.
THEOREM TypeCorrect == Spec => []TypeOK
<1>1. Init => TypeOK
  <2> SUFFICES ASSUME Init PROVE TypeOK
    OBVIOUS
  <2>1. sub \in 0 .. NSub - 1 /\ wval \in Vals
    BY SnoopConstants, BlankIsLine, SMT DEF Init
  <2>2. cache \in [Lines -> [st : {"I", "C", "D"}, val : Line]]
    BY BlankIsLine DEF Init
  <2> QED BY <2>1, <2>2, SnoopConstants DEF Init, TypeOK, ShimStates
<1>2. TypeOK /\ [Next]_vars => TypeOK'
  <2> SUFFICES ASSUME TypeOK, [Next]_vars PROVE TypeOK'
    OBVIOUS
  <2>a. NextSub \in 0 .. NSub - 1 /\ 0 \in 0 .. NSub - 1
    BY SnoopConstants, SMT DEF NextSub, TypeOK
  <2>b. SnoopLine \in Lines
    BY SnoopLineInAccess DEF TypeOK
  <2>1. CASE Start
    BY <2>1, <2>a DEF Start, TypeOK, ShimStates, Request, Memory
  <2>2. CASE SnoopAck
    BY <2>2 DEF SnoopAck, TypeOK, ShimStates, Request, Memory
  <2>3. CASE PreDone
    BY <2>3, <2>a, <2>b, WbinvTypes DEF PreDone, TypeOK, ShimStates, Request
  <2>4. CASE FwdDram
    <3>1. dram' \in [Lines -> Line]
      BY <2>4, MergeIsLine DEF FwdDram, TypeOK
    <3> QED BY <2>4, <3>1 DEF FwdDram, TypeOK, Request
  <2>5. CASE FwdRsp
    BY <2>5, <2>a DEF FwdRsp, TypeOK, ShimStates, Request, Memory
  <2>6. CASE PostDone
    BY <2>6, <2>a, <2>b, WbinvTypes DEF PostDone, TypeOK, ShimStates, Request
  <2>7. CASE Rsp
    BY <2>7, BlankIsLine DEF Rsp, TypeOK, ShimStates, Memory
  <2>8. CASE FillEnd
    <3>1. cache' \in [Lines -> [st : {"I", "C", "D"}, val : Line]]
      BY <2>8 DEF FillEnd, TypeOK
    <3> QED BY <2>8, <3>1 DEF FillEnd, TypeOK, shim
  <2>9. ASSUME NEW l \in Lines, FillStart(l) PROVE TypeOK'
    BY <2>9 DEF FillStart, TypeOK, shim
  <2>10. ASSUME NEW l \in Lines, Evict(l) PROVE TypeOK'
    BY <2>10, WbinvTypes DEF Evict, TypeOK, shim
  <2>11. ASSUME NEW l \in Lines, CpuLoad(l) PROVE TypeOK'
    BY <2>11 DEF CpuLoad, TypeOK, shim, Memory
  <2>12. ASSUME NEW l \in Lines, Give(l) \/ Take(l) PROVE TypeOK'
    BY <2>12 DEF Give, Take, TypeOK, shim
  <2>13. ASSUME NEW l \in Lines, NEW b \in Bytes, NEW v \in Vals, CpuStore(l, b, v) PROVE TypeOK'
    <3>1. Merge(cache[l].val, {b}, v) \in Line
      BY MergeIsLine DEF TypeOK
    <3>2. cache' \in [Lines -> [st : {"I", "C", "D"}, val : Line]]
      BY <2>13, <3>1 DEF CpuStore, TypeOK
    <3> QED BY <2>13, <3>2 DEF CpuStore, TypeOK, shim
  <2>14. ASSUME NEW o \in {"load", "store"}, NEW a \in Accesses, NEW m \in Masks \cup {{}}, NEW v \in Vals,
                EngineRequest(o, a, m, v)
         PROVE  TypeOK'
    BY <2>14, SnoopConstants DEF EngineRequest, TypeOK, Memory
  <2>15. CASE UNCHANGED vars
    BY <2>15 DEF TypeOK, vars, shim
  <2> QED BY <2>1, <2>2, <2>3, <2>4, <2>5, <2>6, <2>7, <2>8, <2>9, <2>10, <2>11, <2>12, <2>13,
             <2>14, <2>15, Zenon DEF Next, ShimNext, CoreNext
<1> QED BY <1>1, <1>2, PTL DEF Spec

-----------------------------------------------------------------------------
\* How the shim's state and the engine's request hang together.
ShimInv ==
  /\ state # "S_IDLE" => op # "none"
  /\ state \in {"S_POST", "S_POST_WAIT"} => op = "store" /\ ~IsStaging
  /\ state \in {"S_PRE", "S_PRE_WAIT"} => ~IsStaging
  /\ state \in {"S_PRE", "S_PRE_WAIT", "S_POST", "S_POST_WAIT"} /\ ~Is64 => sub = 0
  /\ done => state = "S_FWD"
  /\ op # "none" => AccLines \subseteq own

\* What the core holds: staging lines never, and a line being refilled not yet.
\* No refill is in flight while the L2 works on a snoop.
CoreInv ==
  /\ \A l \in Staging : cache[l].st = "I"
  /\ \A f \in fill : cache[f.line].st = "I"
  /\ \A e, f \in fill : e = f
  /\ state \in Waits => fill = {}

\* What a device load has read is what the memory still holds.
LoadInv ==
  op = "load" /\ (done \/ state = "S_RSP") => rdata = [l \in AccLines |-> Mem[l]]

IInv == ShimInv /\ CoreInv /\ NoDirtyAfterPre /\ NoStaleCopy /\ LoadInv

\* Both sets of lines are lines of the access.
LEMMA SnoopedInAccess ==
  ASSUME TypeOK, ShimInv
  PROVE  Snooped \subseteq AccLines /\ PostDue \subseteq AccLines
<1>1. state \in {"S_PRE", "S_PRE_WAIT"} => \A i \in 1 .. sub : i \in 1 .. Len(acc)
  BY AccessFacts, SMT DEF TypeOK, ShimInv, Is64
<1>2. \A i \in sub + 1 .. Len(acc) : i \in 1 .. Len(acc)
  BY AccessFacts, SMT DEF TypeOK
<1> QED BY <1>1, <1>2, Zenon DEF Snooped, PostDue, AccLines

\* A staging access has only staging lines.
LEMMA StagingAccess ==
  ASSUME acc \in Accesses, IsStaging
  PROVE  AccLines \subseteq Staging
<1>1. 1 \in 1 .. Len(acc)
  BY AccessFacts, SMT
<1> QED BY <1>1, SnoopConstants DEF IsStaging, AccLines

\* Write-back-and-invalidate moves the newest value to DRAM and touches no
\* other line, so the memory the program means stays as it is.
LEMMA WbinvFacts ==
  ASSUME TypeOK, NEW l \in Lines, Wbinv(l)
  PROVE  /\ cache'[l].st = "I"
         /\ \A x \in Lines : x # l => cache'[x] = cache[x] /\ dram'[x] = dram[x]
         /\ Mem' = Mem
<1>1. /\ cache'[l].st = "I"
      /\ \A x \in Lines : x # l => cache'[x] = cache[x] /\ dram'[x] = dram[x]
  BY DEF Wbinv, TypeOK
<1>2. dram'[l] = IF cache[l].st = "D" THEN cache[l].val ELSE dram[l]
  BY DEF Wbinv, TypeOK
<1> QED BY <1>1, <1>2 DEF Mem

\* PRE of one more line adds it to the snooped ones.
LEMMA PreDoneSets ==
  ASSUME TypeOK, ShimInv, PreDone
  PROVE  /\ AccLines' = AccLines
         /\ Snooped' \subseteq Snooped \cup {SnoopLine}
         /\ PostDue' = {} /\ PostDue = {}
<1>1. acc' = acc /\ sub' = NextSub /\ state = "S_PRE_WAIT" /\ op' = op /\ done' = done /\ ~done
  BY DEF PreDone, Request, ShimInv
<1>2. PostDue' = {} /\ PostDue = {} /\ AccLines' = AccLines
  BY <1>1 DEF PostDue, PreDone, AccLines
<1>3. Snooped = {acc[i] : i \in 1 .. sub}
  BY <1>1 DEF Snooped
<1>4. CASE ~Is64
  <2>1. state' = "S_FWD" /\ Len(acc) = 1
    BY <1>4, AccessFacts DEF PreDone, LastSub, Is64, TypeOK
  <2>2. Snooped' = {acc[i] : i \in 1 .. Len(acc)}
    BY <1>1, <2>1 DEF Snooped, AccLines
  <2>3. \A i \in 1 .. Len(acc) : i = 1
    BY <2>1, SMT
  <2>4. SnoopLine = acc[1]
    BY <1>4 DEF SnoopLine
  <2> QED BY <1>2, <2>2, <2>3, <2>4
<1>5. CASE Is64 /\ LastSub
  <2>1. state' = "S_FWD" /\ Len(acc) = sub + 1
    BY <1>5, AccessFacts, SMT DEF PreDone, LastSub, Is64, TypeOK
  <2>2. Snooped' = {acc[i] : i \in 1 .. Len(acc)}
    BY <1>1, <2>1 DEF Snooped, AccLines
  <2>3. \A i \in 1 .. Len(acc) : i \in 1 .. sub \/ i = sub + 1
    BY <2>1, SMT DEF TypeOK
  <2>4. SnoopLine = acc[sub + 1]
    BY <1>5 DEF SnoopLine
  <2> QED BY <1>2, <1>3, <2>2, <2>3, <2>4
<1>6. CASE Is64 /\ ~LastSub
  <2>1. state' = "S_PRE" /\ sub' = sub + 1
    BY <1>1, <1>6 DEF PreDone, LastSub, NextSub
  <2>2. Snooped' = {acc[i] : i \in 1 .. sub + 1}
    BY <1>1, <2>1 DEF Snooped
  <2>3. \A i \in 1 .. sub + 1 : i \in 1 .. sub \/ i = sub + 1
    BY SMT DEF TypeOK
  <2>4. SnoopLine = acc[sub + 1]
    BY <1>6 DEF SnoopLine
  <2> QED BY <1>2, <1>3, <2>2, <2>3, <2>4
<1> QED BY <1>4, <1>5, <1>6

\* POST of one more line leaves the others due.
LEMMA PostDoneSets ==
  ASSUME TypeOK, ShimInv, PostDone
  PROVE  /\ AccLines' = AccLines
         /\ Snooped' \subseteq Snooped
         /\ PostDue \subseteq PostDue' \cup {SnoopLine}
<1>1. acc' = acc /\ sub' = NextSub /\ state = "S_POST_WAIT" /\ op' = op /\ done' = done
  BY DEF PostDone, Request
<1>2. AccLines' = AccLines /\ Snooped' \subseteq Snooped
  BY <1>1 DEF PostDone, AccLines, Snooped
<1>3. PostDue = {acc[i] : i \in sub + 1 .. Len(acc)}
  BY <1>1 DEF PostDue
<1>4. CASE ~Is64
  <2>1. Len(acc) = 1 /\ sub = 0 /\ SnoopLine = acc[1]
    BY <1>1, <1>4, AccessFacts DEF ShimInv, Is64, SnoopLine, TypeOK
  <2>2. \A i \in sub + 1 .. Len(acc) : i = 1
    BY <2>1, SMT
  <2> QED BY <1>2, <1>3, <2>1, <2>2
<1>5. CASE Is64 /\ LastSub
  <2>1. SnoopLine = acc[sub + 1] /\ Len(acc) = sub + 1
    BY <1>5, AccessFacts, SMT DEF SnoopLine, LastSub, Is64, TypeOK
  <2>2. \A i \in sub + 1 .. Len(acc) : i = sub + 1
    BY <2>1, SMT DEF TypeOK
  <2> QED BY <1>2, <1>3, <2>1, <2>2
<1>6. CASE Is64 /\ ~LastSub
  <2>1. state' = "S_POST" /\ sub' = sub + 1 /\ SnoopLine = acc[sub + 1]
    BY <1>1, <1>6 DEF PostDone, LastSub, NextSub, SnoopLine
  <2>2. PostDue' = {acc[i] : i \in sub + 2 .. Len(acc)}
    <3>1. (sub + 1) + 1 = sub + 2
      BY SMT DEF TypeOK
    <3> QED BY <1>1, <2>1, <3>1 DEF PostDue
  <2>3. \A i \in sub + 1 .. Len(acc) : i = sub + 1 \/ i \in sub + 2 .. Len(acc)
    BY AccessFacts, SMT DEF TypeOK
  <2> QED BY <1>2, <1>3, <2>1, <2>2, <2>3
<1> QED BY <1>4, <1>5, <1>6

\* A snoop keeps what the core holds in order, whatever line it takes.
LEMMA WbinvCore ==
  ASSUME TypeOK, TypeOK', CoreInv, NEW l \in Lines, Wbinv(l), fill' = {}
  PROVE  CoreInv'
<1>1. \A x \in Staging : cache'[x].st = "I"
  BY WbinvFacts, SnoopConstants DEF CoreInv
<1> QED BY <1>1 DEF CoreInv

\* The inductive invariant is kept by every step, whichever line the core refills,
\* evicts or writes meanwhile.
LEMMA IInvStep ==
  ASSUME TypeOK, TypeOK', IInv, [Next]_vars
  PROVE  IInv'
<1> USE DEF IInv
<1>a. Snooped \subseteq AccLines /\ PostDue \subseteq AccLines
  BY SnoopedInAccess
<1>b. acc \in Accesses /\ AccLines \subseteq Lines
  BY AccessFacts DEF TypeOK
<1>c. SnoopLine \in Lines /\ SnoopLine \in AccLines
  BY SnoopLineInAccess DEF TypeOK
<1>1. CASE Start
  <2>1. /\ UNCHANGED <<op, acc, mask, wval, done, rdata, dram, cache, fill, own>>
        /\ state = "S_IDLE" /\ op # "none" /\ sub' = 0 /\ ~done
        /\ state' = IF IsStaging THEN "S_FWD" ELSE "S_PRE"
    BY <1>1 DEF Start, Request, Memory, ShimInv
  <2>2. AccLines' = AccLines /\ IsStaging' = IsStaging /\ Is64' = Is64 /\ Mem' = Mem
    BY <2>1 DEF AccLines, IsStaging, Is64, Mem
  <2>3. PostDue' = {} /\ PostDue = {}
    BY <2>1 DEF PostDue
  <2>4. NoDirtyAfterPre'
    <3>1. CASE IsStaging
      <4>1. Snooped' \subseteq Staging
        BY <1>b, <2>1, <2>2, <3>1, StagingAccess DEF Snooped
      <4> QED BY <2>1, <4>1 DEF NoDirtyAfterPre, CoreInv
    <3>2. CASE ~IsStaging
      <4>1. Snooped' = {acc'[i] : i \in 1 .. 0}
        BY <2>1, <3>2 DEF Snooped
      <4>2. \A i \in 1 .. 0 : FALSE
        BY SMT
      <4> QED BY <4>1, <4>2 DEF NoDirtyAfterPre
    <3> QED BY <3>1, <3>2
  <2>5. ShimInv'
    BY <2>1, <2>2 DEF ShimInv
  <2>6. CoreInv' /\ NoStaleCopy' /\ LoadInv'
    BY <2>1, <2>2, <2>3 DEF CoreInv, NoStaleCopy, LoadInv, Waits
  <2> QED BY <2>4, <2>5, <2>6
<1>2. CASE SnoopAck
  <2>1. /\ UNCHANGED <<sub, op, acc, mask, wval, done, rdata, dram, cache, fill, own>>
        /\ fill = {}
        /\ \/ state = "S_PRE" /\ state' = "S_PRE_WAIT"
           \/ state = "S_POST" /\ state' = "S_POST_WAIT"
    BY <1>2 DEF SnoopAck, Request, Memory
  <2>2. AccLines' = AccLines /\ IsStaging' = IsStaging /\ Is64' = Is64 /\ Mem' = Mem
    BY <2>1 DEF AccLines, IsStaging, Is64, Mem
  <2>3. PostDue' = PostDue /\ Snooped' = Snooped
    BY <2>1, <2>2 DEF PostDue, Snooped
  <2>4. ShimInv'
    BY <2>1, <2>2 DEF ShimInv
  <2>5. CoreInv' /\ NoStaleCopy' /\ LoadInv' /\ NoDirtyAfterPre'
    BY <2>1, <2>2, <2>3 DEF CoreInv, NoStaleCopy, LoadInv, NoDirtyAfterPre
  <2> QED BY <2>4, <2>5
<1>3. CASE PreDone
  <2>1. /\ UNCHANGED <<op, acc, mask, wval, done, rdata, fill, own>>
        /\ state = "S_PRE_WAIT" /\ fill = {} /\ ~done /\ Wbinv(SnoopLine)
        /\ state' \in {"S_FWD", "S_PRE"} /\ sub' = NextSub
        /\ state' = "S_PRE" => Is64
    BY <1>3 DEF PreDone, Request, ShimInv, CoreInv, Waits, LastSub
  <2>2. /\ cache'[SnoopLine].st = "I" /\ Mem' = Mem
        /\ \A x \in Lines : x # SnoopLine => cache'[x] = cache[x] /\ dram'[x] = dram[x]
    BY <1>c, <2>1, WbinvFacts
  <2>3. /\ AccLines' = AccLines /\ Snooped' \subseteq Snooped \cup {SnoopLine}
        /\ PostDue' = {} /\ PostDue = {}
    BY <1>3, PreDoneSets
  <2>4. IsStaging' = IsStaging /\ Is64' = Is64
    BY <2>1 DEF IsStaging, Is64
  <2>5. NoDirtyAfterPre'
    BY <1>a, <1>b, <2>2, <2>3 DEF NoDirtyAfterPre
  <2>6. NoStaleCopy'
    BY <2>1, <2>2, <2>3 DEF NoStaleCopy
  <2>7. CoreInv'
    BY <1>c, <2>1, WbinvCore
  <2>8. ShimInv' /\ LoadInv'
    BY <2>1, <2>2, <2>3, <2>4 DEF ShimInv, LoadInv
  <2> QED BY <2>5, <2>6, <2>7, <2>8
<1>4. CASE FwdDram
  <2>1. /\ UNCHANGED <<state, sub, op, acc, mask, wval, cache, fill, own>>
        /\ state = "S_FWD" /\ ~done /\ done'
    BY <1>4 DEF FwdDram, Request
  <2>2. AccLines' = AccLines /\ IsStaging' = IsStaging /\ Is64' = Is64
    BY <2>1 DEF AccLines, IsStaging, Is64
  <2>3. Snooped = AccLines /\ Snooped' = AccLines
    BY <2>1, <2>2 DEF Snooped
  <2>4. \A l \in Lines : l \notin AccLines => dram'[l] = dram[l]
    BY <1>4 DEF FwdDram
  <2>5. NoStaleCopy'
    <3>1. CASE op = "store"
      <4>1. PostDue' = AccLines /\ PostDue = {}
        BY <2>1, <2>2, <3>1 DEF PostDue
      <4> QED BY <2>1, <2>4, <4>1 DEF NoStaleCopy
    <3>2. CASE op # "store"
      <4>1. PostDue' = {} /\ PostDue = {} /\ dram' = dram
        BY <1>4, <2>1, <3>2 DEF PostDue, FwdDram
      <4> QED BY <2>1, <4>1 DEF NoStaleCopy
    <3> QED BY <3>1, <3>2
  <2>6. LoadInv'
    <3> SUFFICES ASSUME op = "load" PROVE rdata' = [l \in AccLines |-> Mem'[l]]
      BY <2>1, <2>2 DEF LoadInv
    <3>1. rdata' = [l \in AccLines |-> dram[l]] /\ dram' = dram
      BY <1>4 DEF FwdDram
    <3>2. \A l \in AccLines : Mem'[l] = dram[l]
      BY <1>b, <2>1, <2>3, <3>1 DEF NoDirtyAfterPre, Mem
    <3> QED BY <3>1, <3>2
  <2>7. CoreInv' /\ NoDirtyAfterPre'
    BY <2>1, <2>3 DEF CoreInv, NoDirtyAfterPre
  <2>8. ShimInv'
    BY <2>1, <2>2 DEF ShimInv
  <2> QED BY <2>5, <2>6, <2>7, <2>8
<1>5. CASE FwdRsp
  <2>1. /\ UNCHANGED <<op, acc, mask, wval, rdata, dram, cache, fill, own>>
        /\ state = "S_FWD" /\ done /\ ~done' /\ sub' = 0 /\ op # "none"
        /\ state' = IF op = "store" /\ ~IsStaging THEN "S_POST" ELSE "S_RSP"
    BY <1>5 DEF FwdRsp, Request, Memory, ShimInv
  <2>2. AccLines' = AccLines /\ IsStaging' = IsStaging /\ Is64' = Is64 /\ Mem' = Mem
    BY <2>1 DEF AccLines, IsStaging, Is64, Mem
  <2>3. Snooped' \subseteq AccLines /\ Snooped = AccLines
    BY <2>1, <2>2 DEF Snooped
  <2>4. NoStaleCopy'
    <3>1. CASE op = "store" /\ ~IsStaging
      <4>1. PostDue' = {acc[i] : i \in 0 + 1 .. Len(acc)}
        BY <2>1, <3>1 DEF PostDue
      <4>2. PostDue' = AccLines /\ PostDue = AccLines
        BY <2>1, <3>1, <4>1 DEF PostDue, AccLines
      <4> QED BY <2>1, <4>2 DEF NoStaleCopy
    <3>2. CASE op = "store" /\ IsStaging
      <4>1. AccLines \subseteq Staging /\ PostDue = AccLines
        BY <1>b, <2>1, <3>2, StagingAccess DEF PostDue
      <4>2. \A l \in Staging : cache[l].st = "I" /\ \A f \in fill : f.line # l
        BY DEF CoreInv, TypeOK
      <4> QED BY <2>1, <4>1, <4>2 DEF NoStaleCopy
    <3>3. CASE op # "store"
      <4>1. PostDue = {}
        BY <2>1, <3>3 DEF PostDue
      <4> QED BY <2>1, <4>1 DEF NoStaleCopy
    <3> QED BY <3>1, <3>2, <3>3
  <2>5. CoreInv' /\ NoDirtyAfterPre' /\ LoadInv'
    BY <2>1, <2>2, <2>3 DEF CoreInv, NoDirtyAfterPre, LoadInv, Waits
  <2>6. ShimInv'
    BY <2>1, <2>2 DEF ShimInv
  <2> QED BY <2>4, <2>5, <2>6
<1>6. CASE PostDone
  <2>1. /\ UNCHANGED <<op, acc, mask, wval, done, rdata, fill, own>>
        /\ state = "S_POST_WAIT" /\ fill = {} /\ ~done /\ Wbinv(SnoopLine)
        /\ state' \in {"S_RSP", "S_POST"} /\ sub' = NextSub
        /\ state' = "S_POST" => Is64
        /\ op = "store"
    BY <1>6 DEF PostDone, Request, ShimInv, CoreInv, Waits, LastSub
  <2>2. /\ cache'[SnoopLine].st = "I" /\ Mem' = Mem
        /\ \A x \in Lines : x # SnoopLine => cache'[x] = cache[x] /\ dram'[x] = dram[x]
    BY <1>c, <2>1, WbinvFacts
  <2>3. AccLines' = AccLines /\ Snooped' \subseteq Snooped /\ PostDue \subseteq PostDue' \cup {SnoopLine}
    BY <1>6, PostDoneSets
  <2>4. IsStaging' = IsStaging /\ Is64' = Is64
    BY <2>1 DEF IsStaging, Is64
  <2>5. NoDirtyAfterPre'
    BY <1>a, <1>b, <2>2, <2>3 DEF NoDirtyAfterPre
  <2>6. NoStaleCopy'
    BY <2>1, <2>2, <2>3 DEF NoStaleCopy
  <2>7. CoreInv'
    BY <1>c, <2>1, WbinvCore
  <2>8. ShimInv' /\ LoadInv'
    BY <2>1, <2>2, <2>3, <2>4 DEF ShimInv, LoadInv
  <2> QED BY <2>5, <2>6, <2>7, <2>8
<1>7. CASE Rsp
  <2>1. /\ UNCHANGED <<sub, acc, done, dram, cache, fill, own>>
        /\ state = "S_RSP" /\ state' = "S_IDLE" /\ op' = "none" /\ ~done
    BY <1>7 DEF Rsp, Memory, ShimInv
  <2>2. PostDue' = {} /\ PostDue = {} /\ Snooped' = {}
    BY <2>1 DEF PostDue, Snooped
  <2> QED BY <2>1, <2>2 DEF ShimInv, CoreInv, NoDirtyAfterPre, NoStaleCopy, LoadInv, Waits
<1>8. ASSUME UNCHANGED shim
      PROVE  /\ UNCHANGED <<state, sub, op, acc, done, rdata>>
             /\ AccLines' = AccLines /\ IsStaging' = IsStaging /\ Is64' = Is64
             /\ Snooped' = Snooped /\ PostDue' = PostDue
  <2>1. UNCHANGED <<state, sub, op, acc, done, rdata>>
    BY <1>8 DEF shim
  <2> QED BY <2>1 DEF AccLines, IsStaging, Is64, Snooped, PostDue
<1>9. CASE FillEnd
  <2>1. UNCHANGED shim /\ dram' = dram /\ own' = own /\ fill' = {}
    BY <1>9 DEF FillEnd
  <2>2. PICK f \in fill : cache' = [cache EXCEPT ![f.line] = [st |-> "C", val |-> f.val]]
    BY <1>9 DEF FillEnd
  <2>3. f.line \in Lines /\ f.line \notin Staging /\ cache[f.line].st = "I"
    BY <2>2 DEF CoreInv, TypeOK
  <2>4. /\ cache'[f.line] = [st |-> "C", val |-> f.val]
        /\ \A x \in Lines : x # f.line => cache'[x] = cache[x]
    BY <2>2, <2>3 DEF TypeOK
  <2>5. Mem' = Mem
    BY <2>1, <2>3, <2>4 DEF Mem
  <2>6. CoreInv'
    BY <2>1, <2>3, <2>4, SnoopConstants DEF CoreInv
  <2>7. NoDirtyAfterPre'
    BY <1>8, <1>a, <1>b, <2>1, <2>4 DEF NoDirtyAfterPre
  <2>8. NoStaleCopy'
    BY <1>8, <2>1, <2>2, <2>3, <2>4 DEF NoStaleCopy
  <2>9. ShimInv' /\ LoadInv'
    BY <1>8, <2>1, <2>5 DEF ShimInv, LoadInv
  <2> QED BY <2>6, <2>7, <2>8, <2>9
<1>10. ASSUME NEW l \in Lines, FillStart(l) PROVE IInv'
  <2>1. /\ UNCHANGED shim /\ dram' = dram /\ cache' = cache /\ own' = own
        /\ fill' = {[line |-> l, val |-> dram[l]]} /\ cache[l].st = "I" /\ state \notin Waits
    BY <1>10 DEF FillStart, L2Idle
  <2>2. CoreInv'
    BY <1>8, <2>1 DEF CoreInv
  <2>3. NoDirtyAfterPre' /\ NoStaleCopy'
    BY <1>8, <2>1 DEF NoDirtyAfterPre, NoStaleCopy
  <2>4. ShimInv' /\ LoadInv'
    BY <1>8, <2>1 DEF ShimInv, LoadInv, Mem
  <2> QED BY <2>2, <2>3, <2>4
<1>11. ASSUME NEW l \in Lines, Evict(l) PROVE IInv'
  <2>1. UNCHANGED shim /\ own' = own /\ fill' = fill /\ fill = {} /\ Wbinv(l)
    BY <1>11 DEF Evict, L2Idle
  <2>2. /\ cache'[l].st = "I" /\ Mem' = Mem
        /\ \A x \in Lines : x # l => cache'[x] = cache[x] /\ dram'[x] = dram[x]
    BY <2>1, WbinvFacts
  <2>3. CoreInv'
    BY <2>1, WbinvCore
  <2>4. NoDirtyAfterPre' /\ NoStaleCopy'
    BY <1>8, <1>a, <1>b, <2>1, <2>2 DEF NoDirtyAfterPre, NoStaleCopy
  <2>5. ShimInv' /\ LoadInv'
    BY <1>8, <2>1, <2>2 DEF ShimInv, LoadInv
  <2> QED BY <2>3, <2>4, <2>5
<1>12. ASSUME NEW l \in Lines, CpuLoad(l) PROVE IInv'
  <2>1. UNCHANGED shim /\ UNCHANGED <<dram, cache, fill, own>>
    BY <1>12 DEF CpuLoad, Memory
  <2> QED BY <1>8, <2>1 DEF ShimInv, CoreInv, NoDirtyAfterPre, NoStaleCopy, LoadInv, Mem
<1>13. ASSUME NEW l \in Lines, Give(l) \/ Take(l) PROVE IInv'
  <2>1. UNCHANGED shim /\ UNCHANGED <<dram, cache, fill>>
    BY <1>13 DEF Give, Take
  <2>2. op # "none" => AccLines \subseteq own'
    BY <1>13 DEF Give, Take, ShimInv
  <2> QED BY <1>8, <2>1, <2>2 DEF ShimInv, CoreInv, NoDirtyAfterPre, NoStaleCopy, LoadInv, Mem
<1>14. ASSUME NEW l \in Lines, NEW b \in Bytes, NEW v \in Vals, CpuStore(l, b, v) PROVE IInv'
  <2>1. /\ UNCHANGED shim /\ UNCHANGED <<dram, fill, own>>
        /\ l \notin own /\ cache[l].st # "I"
    BY <1>14 DEF CpuStore
  <2>2. cache'[l].st = "D" /\ \A x \in Lines : x # l => cache'[x] = cache[x]
    BY <1>14 DEF CpuStore, TypeOK
  <2>3. op # "none" => l \notin AccLines
    BY <2>1 DEF ShimInv
  <2>4. Snooped # {} => op # "none"
    BY DEF Snooped, ShimInv
  <2>5. l \notin Staging /\ \A f \in fill : f.line # l
    BY <2>1 DEF TypeOK, CoreInv
  <2>6. CoreInv'
    BY <1>8, <2>1, <2>2, <2>5, SnoopConstants, SMTT(30) DEF CoreInv, TypeOK
  <2>7. NoDirtyAfterPre'
    BY <1>8, <1>a, <1>b, <2>1, <2>2, <2>3, <2>4 DEF NoDirtyAfterPre
  <2>8. NoStaleCopy'
    BY <1>8, <2>1, <2>2, <2>5 DEF NoStaleCopy
  <2>9. op # "none" => \A x \in AccLines : Mem'[x] = Mem[x]
    BY <1>b, <2>1, <2>2, <2>3 DEF Mem
  <2>10. ShimInv' /\ LoadInv'
    BY <1>8, <2>1, <2>9 DEF ShimInv, LoadInv
  <2> QED BY <2>6, <2>7, <2>8, <2>10
<1>15. ASSUME NEW o \in {"load", "store"}, NEW a \in Accesses, NEW m \in Masks \cup {{}}, NEW v \in Vals,
              EngineRequest(o, a, m, v)
       PROVE  IInv'
  <2>1. /\ UNCHANGED <<state, sub, done, rdata, dram, cache, fill, own>>
        /\ op = "none" /\ state = "S_IDLE" /\ op' = o /\ acc' = a /\ ~done
        /\ {a[i] : i \in 1 .. Len(a)} \subseteq own
    BY <1>15 DEF EngineRequest, Memory, ShimInv
  <2>2. PostDue' = {} /\ PostDue = {} /\ Snooped' = {}
    BY <2>1 DEF PostDue, Snooped
  <2>3. AccLines' \subseteq own'
    BY <2>1 DEF AccLines
  <2> QED BY <2>1, <2>2, <2>3 DEF ShimInv, CoreInv, NoDirtyAfterPre, NoStaleCopy, LoadInv, Waits
<1>16. CASE UNCHANGED vars
  <2>1. UNCHANGED shim /\ UNCHANGED <<dram, cache, fill, own>>
    BY <1>16 DEF vars
  <2> QED BY <1>8, <2>1 DEF ShimInv, CoreInv, NoDirtyAfterPre, NoStaleCopy, LoadInv, Mem
<1> QED BY <1>1, <1>2, <1>3, <1>4, <1>5, <1>6, <1>7, <1>9, <1>10, <1>11, <1>12, <1>13, <1>14,
           <1>15, <1>16, Zenon DEF Next, ShimNext, CoreNext

\* It holds at reset, with the cache empty and no access under way.
LEMMA IInvInit == Init => IInv
<1> SUFFICES ASSUME Init PROVE IInv
  OBVIOUS
<1>1. \A l \in Lines : cache[l].st = "I"
  BY DEF Init
<1>2. Snooped = {} /\ PostDue = {}
  BY DEF Init, Snooped, PostDue
<1> QED BY <1>1, <1>2, SnoopConstants
        DEF Init, IInv, ShimInv, CoreInv, NoDirtyAfterPre, NoStaleCopy, LoadInv, Waits

\* The two halves of the shim's contract, for every access pattern: between
\* PRE and the end of the access the core holds no dirty copy of its lines,
\* and once the POST snoop of a line is done no stale copy of it is left.
THEOREM SnoopContract == Spec => []ShimContract
<1>1. TypeOK /\ TypeOK' /\ IInv /\ [Next]_vars => IInv'
  BY IInvStep
<1>2. IInv => ShimContract
  BY DEF IInv, ShimContract
<1> QED BY <1>1, <1>2, IInvInit, TypeCorrect, PTL DEF Spec

-----------------------------------------------------------------------------
\* A step that leaves the memory and the ownership alone and answers nobody.
LEMMA QuietStep ==
  ASSUME Quiet, Mem' = Mem, own' = own
  PROVE  CM!CMNext
BY DEF CM!CMNext, CM!Quiet, CM!NoAns, Quiet, NoAns

\* Every step of the shim, the core and the driver is a step of CoherentMemory
\* or changes nothing it sees: a device store takes effect at FwdDram, a device
\* load is answered at Rsp with what the memory holds.
LEMMA RefinementStep ==
  ASSUME TypeOK, TypeOK', IInv, [Next]_vars
  PROVE  [CM!CMNext]_(CM!cmvars)
<1>a. acc \in Accesses /\ AccLines \subseteq Lines
  BY AccessFacts DEF TypeOK
<1>b. SnoopLine \in Lines
  BY SnoopLineInAccess DEF TypeOK
<1>1. CASE Start \/ SnoopAck \/ FwdRsp
  <2>1. Quiet /\ dram' = dram /\ cache' = cache /\ own' = own
    BY <1>1 DEF Start, SnoopAck, FwdRsp, Memory
  <2> QED BY <2>1, QuietStep DEF Mem
<1>2. CASE PreDone \/ PostDone
  <2>1. Quiet /\ own' = own /\ Wbinv(SnoopLine)
    BY <1>2 DEF PreDone, PostDone
  <2> QED BY <1>b, <2>1, WbinvFacts, QuietStep
<1>3. CASE FwdDram
  <2>1. state = "S_FWD" /\ own' = own /\ cache' = cache /\ Quiet
    BY <1>3 DEF FwdDram
  <2>2. CASE op = "store"
    <3>1. dram' = [l \in Lines |-> IF l \in AccLines THEN Merge(dram[l], mask, wval) ELSE dram[l]]
      BY <1>3, <2>2 DEF FwdDram
    <3>2. \A l \in AccLines : cache[l].st # "D"
      BY <2>1 DEF IInv, NoDirtyAfterPre, Snooped
    <3>3. Mem' = [l \in Lines |-> IF l \in AccLines THEN Merge(Mem[l], mask, wval) ELSE Mem[l]]
      BY <2>1, <3>1, <3>2 DEF Mem
    <3>4. AccLines \subseteq own
      BY <2>1 DEF IInv, ShimInv
    <3>5. CM!DeviceStore(AccLines, mask, wval)
      BY <2>1, <3>3, <3>4 DEF CM!DeviceStore, CM!Quiet, CM!NoAns, CM!Merge, Quiet, NoAns, Merge
    <3> QED BY <1>a, <3>5 DEF CM!CMNext, TypeOK
  <2>3. CASE op # "store"
    <3>1. dram' = dram
      BY <1>3, <2>3 DEF FwdDram
    <3> QED BY <2>1, <3>1, QuietStep DEF Mem
  <2> QED BY <2>2, <2>3
<1>4. CASE Rsp
  <2>1. own' = own /\ Mem' = Mem /\ state = "S_RSP"
    BY <1>4 DEF Rsp, Memory, Mem
  <2>2. CASE op = "load"
    <3>1. ans' = [who |-> "dev", data |-> rdata] /\ rdata = [l \in AccLines |-> Mem[l]]
      BY <1>4, <2>1, <2>2 DEF Rsp, IInv, LoadInv
    <3>2. AccLines \subseteq own
      BY <2>1 DEF IInv, ShimInv
    <3>3. CM!DeviceLoad(AccLines)
      BY <2>1, <3>1, <3>2 DEF CM!DeviceLoad, CM!Answer
    <3> QED BY <1>a, <3>3 DEF CM!CMNext
  <2>3. CASE op # "load"
    <3>1. Quiet
      BY <1>4, <2>3 DEF Rsp, Quiet
    <3> QED BY <2>1, <3>1, QuietStep
  <2> QED BY <2>2, <2>3
<1>5. CASE FillEnd
  <2>1. PICK f \in fill : cache' = [cache EXCEPT ![f.line] = [st |-> "C", val |-> f.val]]
    BY <1>5 DEF FillEnd
  <2>2. f.line \in Lines /\ cache[f.line].st = "I"
    BY <2>1 DEF IInv, CoreInv, TypeOK
  <2>3. dram' = dram /\ own' = own /\ Quiet
    BY <1>5 DEF FillEnd
  <2>4. cache'[f.line].st = "C" /\ \A x \in Lines : x # f.line => cache'[x] = cache[x]
    BY <2>1, <2>2 DEF TypeOK
  <2>5. Mem' = Mem
    BY <2>2, <2>3, <2>4 DEF Mem
  <2> QED BY <2>3, <2>5, QuietStep
<1>6. ASSUME NEW l \in Lines, FillStart(l) PROVE CM!CMNext
  BY <1>6, QuietStep DEF FillStart, Mem
<1>7. ASSUME NEW l \in Lines, Evict(l) PROVE CM!CMNext
  BY <1>7, WbinvFacts, QuietStep DEF Evict
<1>8. ASSUME NEW l \in Lines, CpuLoad(l) PROVE CM!CMNext
  <2>1. l \notin own /\ cache[l].st # "I" /\ own' = own /\ Mem' = Mem
    BY <1>8 DEF CpuLoad, Memory, Mem
  <2>2. PostDue \subseteq own
    BY SnoopedInAccess DEF IInv, ShimInv, PostDue
  <2>3. cache[l].val = Mem[l]
    <3>1. cache[l].st \in {"C", "D"}
      BY <2>1 DEF TypeOK
    <3>2. cache[l].st = "C" => cache[l].val = dram[l]
      BY <2>1, <2>2 DEF IInv, NoStaleCopy
    <3> QED BY <3>1, <3>2 DEF Mem
  <2>4. ans' = [who |-> "cpu", data |-> [x \in {l} |-> Mem[x]]]
    BY <1>8, <2>3 DEF CpuLoad
  <2>5. CM!LoadLine(l)
    BY <2>1, <2>4 DEF CM!LoadLine, CM!Answer
  <2> QED BY <2>5 DEF CM!CMNext
<1>9. ASSUME NEW l \in Lines, Give(l) \/ Take(l) PROVE CM!CMNext
  <2>1. CM!GiveLine(l) \/ CM!TakeLine(l)
    BY <1>9 DEF Give, Take, CM!GiveLine, CM!TakeLine, CM!Quiet, CM!NoAns, Quiet, NoAns, Mem
  <2> QED BY <2>1 DEF CM!CMNext
<1>10. ASSUME NEW l \in Lines, NEW b \in Bytes, NEW v \in Vals, CpuStore(l, b, v) PROVE CM!CMNext
  <2>1. l \notin own /\ cache[l].st # "I" /\ own' = own /\ Quiet /\ dram' = dram
    BY <1>10 DEF CpuStore
  <2>2. PostDue \subseteq own
    BY SnoopedInAccess DEF IInv, ShimInv, PostDue
  <2>3. cache[l].val = Mem[l]
    <3>1. cache[l].st \in {"C", "D"}
      BY <2>1 DEF TypeOK
    <3>2. cache[l].st = "C" => cache[l].val = dram[l]
      BY <2>1, <2>2 DEF IInv, NoStaleCopy
    <3> QED BY <3>1, <3>2 DEF Mem
  <2>4. /\ cache'[l] = [st |-> "D", val |-> Merge(Mem[l], {b}, v)]
        /\ \A x \in Lines : x # l => cache'[x] = cache[x]
    BY <1>10, <2>3 DEF CpuStore, TypeOK
  <2>5. Mem' = [Mem EXCEPT ![l] = Merge(Mem[l], {b}, v)]
    <3>1. /\ Mem = [x \in Lines |-> Mem[x]] /\ Mem' = [x \in Lines |-> Mem'[x]]
          /\ \A x \in Lines : Mem[x] = IF cache[x].st = "D" THEN cache[x].val ELSE dram[x]
          /\ \A x \in Lines : Mem'[x] = IF cache'[x].st = "D" THEN cache'[x].val ELSE dram'[x]
      BY DEF Mem
    <3>2. \A x \in Lines : x # l => Mem'[x] = Mem[x]
      BY <2>1, <2>4, <3>1
    <3>3. cache'[l].st = "D" /\ cache'[l].val = Merge(Mem[l], {b}, v)
      <4> DEFINE new == Merge(Mem[l], {b}, v)
      <4>1. cache'[l] = [st |-> "D", val |-> new]
        BY <2>4
      <4> HIDE DEF new
      <4>2. cache'[l].st = "D" /\ cache'[l].val = new
        BY <4>1
      <4> QED BY <4>2 DEF new
    <3>4. Mem'[l] = Merge(Mem[l], {b}, v)
      BY <3>1, <3>3, Zenon
    <3> QED BY <3>1, <3>2, <3>4
  <2>6. CM!StoreLine(l, b, v)
    BY <2>1, <2>5 DEF CM!StoreLine, CM!Quiet, CM!NoAns, CM!Merge, Quiet, NoAns, Merge
  <2> QED BY <2>6 DEF CM!CMNext
<1>11. ASSUME NEW o \in {"load", "store"}, NEW a \in Accesses, NEW m \in Masks \cup {{}}, NEW v \in Vals,
              EngineRequest(o, a, m, v)
       PROVE  CM!CMNext
  BY <1>11, QuietStep DEF EngineRequest, Memory, Mem
<1>12. CASE UNCHANGED vars
  BY <1>12 DEF vars, CM!cmvars, Mem
<1> QED BY <1>1, <1>2, <1>3, <1>4, <1>5, <1>6, <1>7, <1>8, <1>9, <1>10, <1>11, <1>12, Zenon
        DEF Next, ShimNext, CoreNext

\* DMA through the shim is coherent: for every behaviour of the core, the
\* driver and the engine, the caches, DRAM and the shim together behave as the
\* one memory of CoherentMemory, with each access at one instant.
THEOREM DmaIsCoherent == Spec => Coherent
<1>1. Init => CM!CMInit
  <2> SUFFICES ASSUME Init PROVE CM!CMInit
    OBVIOUS
  <2>1. Mem \in [Lines -> Line]
    BY DEF Init, Mem
  <2> QED BY <2>1, SnoopConstants DEF Init, CM!CMInit, CM!Line, Line, CM!NoAns, NoAns
<1>2. TypeOK /\ TypeOK' /\ IInv /\ [Next]_vars => [CM!CMNext]_(CM!cmvars)
  BY RefinementStep
<1>3. TypeOK /\ TypeOK' /\ IInv /\ [Next]_vars => IInv'
  BY IInvStep
<1> QED BY <1>1, <1>2, <1>3, IInvInit, TypeCorrect, PTL DEF Spec, Coherent, CM!CMSpec
=============================================================================
