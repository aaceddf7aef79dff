------------------------------ MODULE MCTbLoop ------------------------------
EXTENDS TbLoop

\* DRAM traffic on both lanes; a core that evicts and refills between two retirements; a
\* command without data or with one block on each side of the save, restored twice; longer
\* commands and ones without data before it; longer ones after it
BudgetsAll ==
  {[lanes |-> {0, 1}, slack |-> 0, pre |-> 0, post |-> 0, lens |-> {}, restores |-> 1],
   [lanes |-> {0},    slack |-> 2, pre |-> 0, post |-> 0, lens |-> {}, restores |-> 1],
   [lanes |-> {},     slack |-> 0, pre |-> 1, post |-> 1, lens |-> {0, 1}, restores |-> 2],
   [lanes |-> {},     slack |-> 0, pre |-> 2, post |-> 0, lens |-> {0, 2}, restores |-> 1],
   [lanes |-> {},     slack |-> 0, pre |-> 0, post |-> 1, lens |-> {1, 2}, restores |-> 2]}

BudgetsScsi ==
  {[lanes |-> {}, slack |-> 0, pre |-> 1, post |-> 0, lens |-> {2}, restores |-> 1]}
=============================================================================
