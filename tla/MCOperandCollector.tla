------------------------ MODULE MCOperandCollector -------------------------
(***************************************************************************)
(* Instantiates OperandCollector for TLC: two ports (SP, SFU), two         *)
(* collector units, two banks, two warps. An instruction reads one or two  *)
(* source registers and writes one destination; with two banks and        *)
(* bank = (reg + wid) mod 2, instructions of the two warps collide on      *)
(* banks, and writebacks collide with reads.                               *)
(* A warp's two instructions, r0, r1 -> r2 and r3 -> r4, share no         *)
(* register, so the scoreboard lets either issue while the other is in    *)
(* flight, and stalls a second copy of one (a write after write).         *)
(***************************************************************************)
EXTENDS OperandCollector

CONSTANTS SP, SFU

MCPorts == {SP, SFU}
MCPortOrder == <<SP, SFU>>

(* The SFU takes one cycle more than the SP unit. *)
MCLatency == [p \in MCPorts |-> IF p = SFU THEN 1 ELSE 0]

(* Both units take the same time: any reordering comes from the collector. *)
MCLatencyEqual == [p \in MCPorts |-> 0]

MCInsts ==
  {[wid |-> w, src |-> <<0, 1>>, dst |-> <<2>>] : w \in {0, 1}}
  \cup {[wid |-> w, src |-> <<3>>, dst |-> <<4>>] : w \in {0, 1}}

=============================================================================
