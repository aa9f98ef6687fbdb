-------------------------- MODULE OperandCollector --------------------------
(***************************************************************************)
(* The operand collector register-file unit (opndcoll_rfu_t) of one shader *)
(* core, src/playground/src/ref/opndcoll_rfu.hpp, with the pipeline        *)
(* stages around it that drive it once per cycle (spec section 5):         *)
(*   1. writeback of completing instructions through the RFU,              *)
(*   2. the functional units take instructions from the OC_EX registers,   *)
(*   3. opndcoll_rfu_t::step(): dispatch_ready_cu, allocate_reads,         *)
(*      allocate_cu for every input port, process_banks,                   *)
(*   4. the scheduler issues at most one instruction into an ID_OC         *)
(*      register.                                                          *)
(* Each input port p has one ID_OC register in_reg[p], one OC_EX register  *)
(* out_reg[p] and one functional unit fu[p]; all ports share one collector *)
(* set with one dispatch unit. A functional unit's pipeline is abstracted  *)
(* to one stage: an instruction it holds attempts writeback next cycle.    *)
(* The bodies of register_bank, arbiter_t::allocate_reads, allocate_cu,    *)
(* collector_unit_t::allocate/dispatch/ready and writeback are not in the  *)
(* repository's sources and follow spec section 4.2.                       *)
(***************************************************************************)
EXTENDS Integers, Sequences, FiniteSets

CONSTANTS
  Ports,          (* Input ports, one per functional unit (SP, SFU, ...).  *)
  PortOrder,      (* m_in_ports: the order step() visits the ports in.     *)
  NumCU,          (* Collector units of the (single) collector set.        *)
  NumBanks,       (* m_num_banks                                           *)
  BankWarpShift,  (* m_bank_warp_shift                                     *)
  SubCoreModel,   (* sub_core_model                                        *)
  NumWarpScheds,  (* m_num_warp_scheds                                     *)
  Warps,          (* Warp ids.                                             *)
  Insts,          (* Decoded instructions [wid, src, dst] the scheduler    *)
                  (* may issue; src and dst are sequences of registers.    *)
  Latency,        (* Extra cycles each port's functional unit takes.       *)
  MaxIssue,       (* Bound on the number of instructions issued.           *)
  NoInst          (* An empty pipeline register slot.                      *)

ASSUME PortOrder \in Seq(Ports) /\ \A p \in Ports : \E i \in DOMAIN PortOrder : PortOrder[i] = p
ASSUME NumCU \in Nat \ {0} /\ NumBanks \in Nat \ {0} /\ NumWarpScheds \in Nat \ {0}
ASSUME MaxIssue \in Nat

CUs == 0..(NumCU - 1)
Banks == 0..(NumBanks - 1)
Ids == 1..MaxIssue

(* An issued instruction carries its issue number id (its program order). *)
Inst == [id : Ids, wid : Warps, src : Seq(Nat), dst : Seq(Nat)]
Slot == Inst \cup {NoInst}

VARIABLES
  in_reg,          (* ID_OC_<port> pipeline registers                      *)
  cu,              (* m_cu: [free, inst, port, not_ready] per unit         *)
  queue,           (* arbiter m_queue: per bank, FIFO of read requests    *)
  alloc,           (* arbiter m_allocated_bank: "none" or "write"        *)
  last_cu,         (* dispatch_unit_t::m_last_cu                           *)
  out_reg,         (* OC_EX_<port> pipeline registers                      *)
  fu,              (* instruction in each functional unit                  *)
  fu_left,         (* cycles before that instruction completes             *)
  phase,           (* which of the four per-cycle stages runs next         *)
  issued,          (* number of instructions issued so far                 *)
  retired,         (* history: ids of instructions written back            *)
  last_retired     (* history: per warp, id of the last instruction        *)
                   (* written back (0 if none)                             *)

vars == <<in_reg, cu, queue, alloc, last_cu, out_reg, fu, fu_left, phase, issued,
          retired, last_retired>>

(***************************************************************************)
(* register_bank (spec 4.2): consecutive registers of a warp go to        *)
(* consecutive banks, and warps are skewed by wid >> bank_warp_shift.      *)
(***************************************************************************)
register_bank(reg, wid) == (reg + wid \div (2 ^ BankWarpShift)) % NumBanks

(* Index of the first element of a finite set of naturals.                 *)
Least(S) == CHOOSE x \in S : \A y \in S : x <= y

(***************************************************************************)
(* The arbiter's per-bank allocation_t, "none" or "write": bank_idle is    *)
(* is_free(); allocate_bank_for_write marks the banks of a writeback       *)
(* WRITE_ALLOC; reset_alloction frees every bank. Reads are granted only   *)
(* on banks that are not write-allocated (read_candidates), and their      *)
(* READ_ALLOC lasts until the same cycle's reset, so it is not recorded.   *)
(***************************************************************************)
bank_idle(al, b) == al[b] = "none"

allocate_bank_for_write(al, bs) ==
  [b \in Banks |-> IF b \in bs THEN "write" ELSE al[b]]

reset_alloction == [b \in Banks |-> "none"]

(* op_t(cu, op, reg, ...): a read request of operand op of unit cu; its   *)
(* bank is register_bank(reg, warp id).                                    *)
op_t(c, k, reg) == [cu |-> c, opnd |-> k, reg |-> reg]

(* collector_unit_t::collect_operand for a set of granted operands.       *)
collect_operand(u, ops) == [u EXCEPT !.not_ready = @ \ ops]

FreeCU == [free |-> TRUE, inst |-> NoInst, port |-> CHOOSE p \in Ports : TRUE,
           not_ready |-> {}]

(* Mutants of ready: dispatch before every operand is read; dispatch into *)
(* an output register that still holds an instruction.                     *)
ready_ignoring_operands(c, outs) ==
  /\ ~cu[c].free
  /\ outs[cu[c].port] = NoInst

ready_overwriting_output(c, outs) ==
  /\ ~cu[c].free
  /\ cu[c].not_ready = {}

(***************************************************************************)
(* collector_unit_t::ready(): it holds an instruction, every source        *)
(* operand has been read and its output register has a free slot.          *)
(***************************************************************************)
ready(c, outs) ==
  /\ ~cu[c].free
  /\ cu[c].not_ready = {}
  /\ outs[cu[c].port] = NoInst

(* Mutant of find_ready: the scan stops one unit short.                    *)
find_ready_short(outs) ==
  LET order == [n \in 0..(NumCU - 1) |-> (last_cu + n + 1) % NumCU]
      hits  == {n \in 0..(NumCU - 2) : ready(order[n], outs)}
  IN IF hits = {} THEN -1 ELSE order[Least(hits)]

(***************************************************************************)
(* dispatch_unit_t::find_ready: scan the units round robin starting        *)
(* rr_increment past m_last_cu; in sub-core mode skip to the next          *)
(* scheduler's units. Returns the unit or -1. With fewer units than       *)
(* schedulers cusPerSched is 0 and m_last_cu % cusPerSched divides by      *)
(* zero, which traps (SIGFPE): the result is then Trap.                     *)
(***************************************************************************)
Trap == -2

find_ready(outs) ==
  LET cusPerSched  == NumCU \div NumWarpScheds
      rr_increment == IF SubCoreModel
                      THEN cusPerSched - (last_cu % cusPerSched)
                      ELSE 1
      order == [n \in 0..(NumCU - 1) |-> (last_cu + n + rr_increment) % NumCU]
      hits  == {n \in 0..(NumCU - 1) : ready(order[n], outs)}
  IN IF SubCoreModel /\ cusPerSched = 0 THEN Trap
     ELSE IF hits = {} THEN -1 ELSE order[Least(hits)]

(***************************************************************************)
(* Writeback (spec 4.2): a completing instruction allocates a write to the *)
(* bank of every destination register; if any bank is busy it stalls,     *)
(* all-or-nothing, and retries next cycle. Two destinations in one bank   *)
(* meet a bank the first of them has just taken. Functional units write   *)
(* back in port order. The fold returns [alloc, fu, retired, last_retired]*)
(***************************************************************************)
writeback_ok(inst, al) ==
  LET bs == {register_bank(inst.dst[i], inst.wid) : i \in DOMAIN inst.dst}
  IN /\ Cardinality(bs) = Len(inst.dst)
     /\ \A b \in bs : bank_idle(al, b)

RECURSIVE writeback_from(_, _)
writeback_from(i, st) ==
  IF i > Len(PortOrder) THEN st
  ELSE LET p    == PortOrder[i]
           inst == st.fu[p]
       IN IF inst # NoInst /\ fu_left[p] = 0 /\ writeback_ok(inst, st.alloc)
          THEN writeback_from(i + 1,
                 [alloc |-> allocate_bank_for_write(st.alloc,
                              {register_bank(inst.dst[j], inst.wid) : j \in DOMAIN inst.dst}),
                  fu |-> [st.fu EXCEPT ![p] = NoInst],
                  retired |-> st.retired \cup {inst.id},
                  last_retired |-> [st.last_retired EXCEPT ![inst.wid] = inst.id]])
          ELSE writeback_from(i + 1, st)

(***************************************************************************)
(* arbiter_t::allocate_reads: the head request of every bank that is not   *)
(* write-allocated competes; the allocator grants a maximal matching of    *)
(* banks to collector units, at most one grant per bank and per unit.     *)
(***************************************************************************)
read_candidates(q, al) == {b \in Banks : q[b] # <<>> /\ al[b] # "write"}

read_grants(q, al) ==
  LET E == read_candidates(q, al)
      owner(b) == Head(q[b]).cu
  IN {G \in SUBSET E :
        /\ \A b1, b2 \in G : b1 # b2 => owner(b1) # owner(b2)
        /\ \A b \in E \ G : \E g \in G : owner(g) = owner(b)}

(***************************************************************************)
(* collector_unit_t::allocate and arbiter_t::add_read_requests for the     *)
(* first free unit of the port's collector set: copy the instruction in,   *)
(* mark every source operand not ready and queue one read request per      *)
(* operand at the bank of its register. The input register is emptied.    *)
(* Visits the ports in order; returns [cu, queue, in_reg].                 *)
(***************************************************************************)
RECURSIVE allocate_cu_from(_, _)
allocate_cu_from(i, st) ==
  IF i > Len(PortOrder) THEN st
  ELSE LET p    == PortOrder[i]
           inst == st.in_reg[p]
           free == {c \in CUs : st.cu[c].free}
       IN IF inst # NoInst /\ free # {}
          THEN LET c == Least(free) IN
               allocate_cu_from(i + 1,
                 [cu |-> [st.cu EXCEPT ![c] = [free |-> FALSE, inst |-> inst,
                                              port |-> p,
                                              not_ready |-> DOMAIN inst.src]],
                  queue |-> [b \in Banks |->
                               st.queue[b] \o
                               SelectSeq([k \in DOMAIN inst.src |->
                                            op_t(c, k, inst.src[k])],
                                         LAMBDA o : register_bank(o.reg, inst.wid) = b)],
                  in_reg |-> [st.in_reg EXCEPT ![p] = NoInst]])
          ELSE allocate_cu_from(i + 1, st)

-----------------------------------------------------------------------------

Init ==
  /\ in_reg = [p \in Ports |-> NoInst]
  /\ cu = [c \in CUs |-> FreeCU]
  /\ queue = [b \in Banks |-> <<>>]
  /\ alloc = reset_alloction
  /\ last_cu = 0
  /\ out_reg = [p \in Ports |-> NoInst]
  /\ fu = [p \in Ports |-> NoInst]
  /\ fu_left = [p \in Ports |-> 0]
  /\ phase = "wb"
  /\ issued = 0
  /\ retired = {}
  /\ last_retired = [w \in Warps |-> 0]

(* Stage 1: writeback of the instructions the functional units complete.   *)
Writeback ==
  /\ phase = "wb"
  /\ LET st == writeback_from(1, [alloc |-> alloc, fu |-> fu, retired |-> retired,
                                  last_retired |-> last_retired])
     IN /\ alloc' = st.alloc
        /\ fu' = st.fu
        /\ retired' = st.retired
        /\ last_retired' = st.last_retired
  /\ phase' = "ex"
  /\ UNCHANGED <<in_reg, cu, queue, last_cu, out_reg, fu_left, issued>>

(* Mutant of Execute: the latency countdown does not stop at zero.         *)
Execute_underflow ==
  /\ phase = "ex"
  /\ fu' = [p \in Ports |-> IF fu[p] = NoInst THEN out_reg[p] ELSE fu[p]]
  /\ fu_left' = [p \in Ports |-> IF fu[p] = NoInst THEN Latency[p]
                                 ELSE fu_left[p] - 1]
  /\ out_reg' = [p \in Ports |-> IF fu[p] = NoInst THEN NoInst ELSE out_reg[p]]
  /\ phase' = "oc"
  /\ UNCHANGED <<in_reg, cu, queue, alloc, last_cu, issued, retired,
                 last_retired>>

(* Stage 2: each functional unit advances its instruction one cycle; a     *)
(* free unit issues from its OC_EX register (simd_function_unit::issue via *)
(* register_set::get_ready), the instruction taking Latency[p] more cycles.*)
Execute ==
  /\ phase = "ex"
  /\ fu' = [p \in Ports |-> IF fu[p] = NoInst THEN out_reg[p] ELSE fu[p]]
  /\ fu_left' = [p \in Ports |-> IF fu[p] = NoInst THEN Latency[p]
                                 ELSE IF fu_left[p] > 0 THEN fu_left[p] - 1
                                 ELSE 0]
  /\ out_reg' = [p \in Ports |-> IF fu[p] = NoInst THEN NoInst ELSE out_reg[p]]
  /\ phase' = "oc"
  /\ UNCHANGED <<in_reg, cu, queue, alloc, last_cu, issued, retired,
                 last_retired>>

(***************************************************************************)
(* Stage 3: opndcoll_rfu_t::step(). dispatch_ready_cu moves the first      *)
(* ready unit's instruction into its output register and frees the unit;   *)
(* allocate_reads grants bank reads and clears the granted operands'       *)
(* not_ready bits;                                                          *)
(* allocate_cu fills free units from the input ports; process_banks resets *)
(* every bank allocation. A trap in find_ready kills the process.          *)
(***************************************************************************)
OperandCollectorStep ==
  /\ phase = "oc"
  /\ IF find_ready(out_reg) = Trap
     THEN /\ phase' = "trapped"
          /\ UNCHANGED <<in_reg, cu, queue, alloc, last_cu, out_reg, fu, fu_left,
                         issued, retired, last_retired>>
     ELSE LET d    == find_ready(out_reg)
              cu1  == IF d = -1 THEN cu ELSE [cu EXCEPT ![d] = FreeCU]
              out1 == IF d = -1 THEN out_reg
                      ELSE [out_reg EXCEPT ![cu[d].port] = cu[d].inst]
          IN /\ \E G \in read_grants(queue, alloc) :
                  LET granted(c) == {Head(queue[b]).opnd :
                                       b \in {g \in G : Head(queue[g]).cu = c}}
                      cu2 == [c \in CUs |-> collect_operand(cu1[c], granted(c))]
                      q2  == [b \in Banks |-> IF b \in G THEN Tail(queue[b]) ELSE queue[b]]
                      st  == allocate_cu_from(1, [cu |-> cu2, queue |-> q2,
                                                  in_reg |-> in_reg])
                  IN /\ last_cu' = IF d = -1 THEN last_cu ELSE d
                     /\ out_reg' = out1
                     /\ cu' = st.cu
                     /\ queue' = st.queue
                     /\ in_reg' = st.in_reg
             /\ alloc' = reset_alloction
             /\ phase' = "issue"
             /\ UNCHANGED <<fu, fu_left, issued, retired, last_retired>>

(***************************************************************************)
(* The scoreboard (spec 4.3): issue reserves an instruction's destination  *)
(* registers and writeback releases them, so a warp's reserved registers   *)
(* are the destinations of its instructions in flight. checkCollision      *)
(* stalls an instruction that reads or writes a reserved register.         *)
(***************************************************************************)
InFlight == {in_reg[p] : p \in Ports} \cup {cu[c].inst : c \in CUs}
              \cup {out_reg[p] : p \in Ports} \cup {fu[p] : p \in Ports}

reserved(w) ==
  UNION {{x.dst[k] : k \in DOMAIN x.dst} : x \in {y \in InFlight \ {NoInst} : y.wid = w}}

checkCollision(i) ==
  ({i.src[k] : k \in DOMAIN i.src} \cup {i.dst[k] : k \in DOMAIN i.dst})
    \cap reserved(i.wid) # {}

(* Stage 4: the scheduler issues at most one instruction that is not       *)
(* stalled on the scoreboard, into a free ID_OC register of the port the   *)
(* instruction's unit takes.                                               *)
Issue ==
  /\ phase = "issue"
  /\ \/ UNCHANGED <<in_reg, issued>>
     \/ /\ issued < MaxIssue
        /\ \E p \in Ports, i \in Insts :
             /\ in_reg[p] = NoInst
             /\ ~checkCollision(i)
             /\ in_reg' = [in_reg EXCEPT ![p] = [id |-> issued + 1, wid |-> i.wid,
                                                 src |-> i.src, dst |-> i.dst]]
        /\ issued' = issued + 1
  /\ phase' = "wb"
  /\ UNCHANGED <<cu, queue, alloc, last_cu, out_reg, fu, fu_left, retired,
                 last_retired>>

Next == Writeback \/ Execute \/ OperandCollectorStep \/ Issue

(* The simulator steps every stage every cycle.                            *)
Spec == Init /\ [][Next]_vars /\ WF_vars(Next)

-----------------------------------------------------------------------------

TypeOK ==
  /\ in_reg \in [Ports -> Slot]
  /\ cu \in [CUs -> [free : BOOLEAN, inst : Slot, port : Ports,
                     not_ready : SUBSET Nat]]
  /\ queue \in [Banks -> Seq([cu : CUs, opnd : Nat, reg : Nat])]
  /\ alloc \in [Banks -> {"none", "write"}]
  /\ last_cu \in CUs
  /\ out_reg \in [Ports -> Slot]
  /\ fu \in [Ports -> Slot]
  /\ fu_left \in [Ports -> Nat]
  /\ phase \in {"wb", "ex", "oc", "issue", "trapped"}
  /\ issued \in 0..MaxIssue
  /\ retired \subseteq Ids
  /\ last_retired \in [Warps -> 0..MaxIssue]

(* A unit's not_ready set is exactly the set of its operands whose read    *)
(* request is still queued, each at the bank of its register; free units   *)
(* have no pending operands and no queued request.                         *)
PendingOperandsQueued ==
  \A c \in CUs :
    /\ cu[c].free => cu[c].not_ready = {}
    /\ cu[c].not_ready =
         UNION {{queue[b][k].opnd : k \in {j \in DOMAIN queue[b] :
                                             queue[b][j].cu = c}} : b \in Banks}
    /\ \A b \in Banks : \A k \in DOMAIN queue[b] :
         queue[b][k].cu = c =>
           /\ ~cu[c].free
           /\ register_bank(queue[b][k].reg, cu[c].inst.wid) = b

(* Every issued instruction is in exactly one place of the pipeline or has *)
(* been written back: no stage overwrites or duplicates an instruction.   *)
Holders(id) ==
  Cardinality({p \in Ports : in_reg[p] # NoInst /\ in_reg[p].id = id})
  + Cardinality({c \in CUs : ~cu[c].free /\ cu[c].inst.id = id})
  + Cardinality({p \in Ports : out_reg[p] # NoInst /\ out_reg[p].id = id})
  + Cardinality({p \in Ports : fu[p] # NoInst /\ fu[p].id = id})
  + (IF id \in retired THEN 1 ELSE 0)

InstructionConservation == \A id \in 1..issued : Holders(id) = 1

(* Every issued instruction is eventually written back.                    *)
EveryIssuedRetires == \A id \in Ids : (issued >= id) ~> (id \in retired)

(* The operand collector never divides by zero while dispatching: the      *)
(* sub-core round robin of find_ready is defined for the configuration.    *)
NoTrap == phase # "trapped"

(* Spec 5(b): within a warp, instructions retire in program order.         *)
RetireInProgramOrder ==
  [][\A w \in Warps : last_retired'[w] # last_retired[w]
                        => last_retired'[w] > last_retired[w]]_last_retired


=============================================================================
