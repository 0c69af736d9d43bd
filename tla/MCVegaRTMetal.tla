--------------------------- MODULE MCVegaRTMetal ---------------------------
(* Small instances of VegaRTMetal: threads are model values. *)
EXTENDS VegaRTMetal
CONSTANTS t1, t2

MCThreads == {t1, t2}
MCOneThread == {t1}

(* Both drain.  "hostCopy" is left out here: it takes the same steps as    *)
(* "synchronize".                                                          *)
MCCallsOf ==
  [t \in Threads |-> IF t = t1 THEN {"hostPtr", "blit", "destroy"} ELSE {"synchronize"}]

MCAllCalls == [t \in Threads |-> Calls \cup {"destroy"}]
=============================================================================
