----------------------------- MODULE MCLockstep -----------------------------
EXTENDS Lockstep

I(op, rd, rs, a) == [op |-> op, rd |-> rd, rs |-> rs, a |-> a]

\* A loop with a device load in a delay slot whose base is its own result, a mapped load,
\* one more in a delay slot, stores between and in a delay slot; the two handlers, one
\* filling the TLB and setting k0, one reading Cause and emptying the TLB;
\* mapped code with a device load, a coprocessor read in a delay slot and one into k0; and a
\* short loop for two retirements a cycle under GPRCHK.
Code ==
  {<<0, I("br", 0, 1, 3)>>, <<1, I("ldx", 1, 1, 0)>>, <<2, I("st", 0, 1, 0)>>,
   <<3, I("mld", 2, 0, 0)>>, <<4, I("alu", 1, 2, 0)>>, <<5, I("br", 0, 2, 7)>>,
   <<6, I("mld", 2, 0, 1)>>, <<7, I("st", 0, 2, 1)>>, <<8, I("br", 0, 0, 0)>>,
   <<9, I("st", 0, 1, 0)>>, <<20, I("tlbw", 0, 0, 0)>>, <<21, I("tlbw", 1, 0, 1)>>,
   <<22, I("alu", 3, 0, 0)>>, <<23, I("eret", 0, 0, 0)>>, <<30, I("cop", 2, 0, 0)>>,
   <<31, I("tlbw", None, 0, 0)>>, <<32, I("tlbw", None, 0, 1)>>, <<33, I("eret", 0, 0, 0)>>,
   <<40, I("alu", 1, 2, 0)>>, <<41, I("ldx", 2, 1, 0)>>, <<42, I("cop", 3, 0, 0)>>,
   <<43, I("br", 0, 2, 45)>>, <<44, I("cop", 1, 0, 0)>>, <<45, I("br", 0, 0, 40)>>,
   <<46, I("st", 0, 3, 0)>>, <<50, I("alu", 1, 2, 0)>>, <<51, I("br", 0, 1, 53)>>,
   <<52, I("alu", 2, 1, 0)>>, <<53, I("br", 0, 0, 50)>>, <<54, I("st", 0, 1, 0)>>}

ProgAll == [p \in {x[1] : x \in Code} |-> (CHOOSE x \in Code : x[1] = p)[2]]

Try(start, width, every, mapskip, lag, faults) ==
  [start |-> start, width |-> width, every |-> every, mapskip |-> mapskip, lag |-> lag,
   faults |-> faults]

ConfigsAll ==
  {Try(0, 2, 0, FALSE, 2, {"none", "store"}), Try(0, 1, 2, FALSE, 0, {"none", "clobber"}),
   Try(50, 2, 2, FALSE, 0, {"none", "clobber"}), Try(0, 1, 0, TRUE, 1, {"none"}),
   Try(40, 2, 0, FALSE, 1, {"none"}),
   Try(0, 2, 3, FALSE, 1, {"none"})}
=============================================================================
