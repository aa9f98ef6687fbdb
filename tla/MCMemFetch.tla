----------------------------- MODULE MCMemFetch -----------------------------
(***************************************************************************)
(* Instantiates MemFetch for TLC. Reads r1, r2 and r4 address line A and  *)
(* r3 line B: r2 merges into r1's MSHR entry, r4 finds that entry full     *)
(* (two fetches) and r3 finds the single entry taken; w1 is a write to     *)
(* line A; e1 is a write-back the L2 evicts; r1's miss is split by the L2  *)
(* into two sector children c1 and c2. With a miss queue of one, a second  *)
(* miss waits for the first. The L1 run takes r1 to r4; the L2 run takes   *)
(* r1, w1, e1, c1 and c2.                                                  *)
(***************************************************************************)
EXTENDS MemFetch

CONSTANTS r1, r2, r3, r4, w1, e1, c1, c2, LineA, LineB

MCFetches == {r1, r2, r3, r4, w1, e1, c1, c2}
MCFetchesL1 == {r1, r2, r3, r4}
MCFetchesL2 == {r1, w1, e1, c1, c2}

MCAcc == [f \in MCFetches |->
            CASE f = w1 -> "GLOBAL_ACC_W"
              [] f = e1 -> "L2_WRBK_ACC"
              [] OTHER  -> "GLOBAL_ACC_R"]

MCIsWrite == [f \in MCFetches |-> f \in {w1, e1}]

MCLine == [f \in MCFetches |-> IF f = r3 THEN LineB ELSE LineA]

MCParent == [f \in MCFetches |-> IF f \in {c1, c2} THEN r1 ELSE NoFetch]

=============================================================================
