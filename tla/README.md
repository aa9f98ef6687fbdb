# TLA+ models of gpucachesim

This directory has TLA+ specifications of the parts of gpucachesim whose
control logic is in this repository, and the TLC models that check them.
`PROJECT.json` lists the components, the runs, the mutants, the map from every
definition to the source lines it models, the findings, and the hazards.

## 1. The system and its parts

gpucachesim drives the Accel-Sim/GPGPU-Sim performance model from a trace.

| Part | Source | State | Operations |
|---|---|---|---|
| Simulation driver `accelsim_bridge` | `src/playground/src/ref/bridge/main.cc` | `commandlist`, `command_idx`, the window `kernels_info`, `busy_streams` | `process_commands`, `launch_kernels`, `cycle`, `cleanup_finished_kernel`, `run_to_completion` |
| Operand collector / register file unit | `src/playground/src/ref/opndcoll_rfu.hpp`, `sys/src/ref/int_unit.cc` | collector units (`m_free`, `m_warp`, `m_not_ready`), per-bank read queues, per-bank allocation (`allocation_t`), dispatch round robin `m_last_cu`, pipeline registers | `step()` = `dispatch_ready_cu`, `allocate_reads`, `allocate_cu(p)`, `process_banks`; `writeback` (out of step); FU `issue` |
| AnyNet topology and routing | `src/playground/sys/src/ref/intersim2/networks/anynet.cpp` | `router_list[NODE/ROUTER]`, `node_list`, `_size`, `routing_table`, route's `dist`/`prev`/`rlist` | `readFile`, `_ComputeSize`, `_BuildNet`, `buildRoutingTable`, `route` |
| mem_fetch lifecycle | `mem_fetch.hpp`, `mem_fetch_status.hpp` | `m_status`, `m_type`, `original_mf` | `set_reply`, status changes by the hosts |
| mem_fetch allocators | `shader_core_mem_fetch_allocator.cc`, `partition_mf_allocator.hpp` | none of their own | `alloc` creates a fetch |
| Cache reservation fail reasons | `cache_reservation_fail_reason.hpp` | an enum | the outcome of a failed L1 access |
| core_bridge, HAL strings, cache_event, SFU microbenchmark | see `PROJECT.json` | none | accessors, tables, formatting |

How the parts interact. The driver owns the GPU model. Each outer iteration it
fills the window, launches kernels, then cycles the GPU until a kernel
finishes. Each GPU cycle runs every core's stages in a fixed order (spec §5):
writeback, functional units, the operand collector `step()`, then the
schedulers. Memory traffic crosses the interconnect, whose AnyNet routing
table is computed once, when the network is constructed. The simulator is
single-threaded. Concurrency shows up as the order of stages within a cycle,
competition for register banks, out-of-order completion of kernels on the
GPU, and the simulated data flow through queues.

## 2. Modules

### AccelsimBridge (driver)

- **Variables.** `commandlist` is a sequence of `Memcpy` / `Launch(stream)`.
  `command_idx`, `kernels_info` (kernel uids, which are the command indices)
  and `busy_streams` (a sequence, like the `std::vector`) are as in the code.
  The GPU is `launched`, `running` and `finished_q`, the GPU's FIFO of
  finished uids. `cap_hit` is the instruction/cycle cap. `finished_kernel_uid`
  is the local of `run_to_completion`. `pc` marks where in
  `run_to_completion` control is. `retired` is a history variable.
- **Actions.**
  - `RunIteration` is the loop test, `process_commands` and `launch_kernels`.
  - `CycleInactive` is the `break` on `!active()`.
  - `CycleActive` is one `cycle()`: the GPU finishes any subset of running
    kernels in any order and may hit the cap. It ends with
    `get_finished_kernel_uid`.
  - `Cleanup` and `CleanupAssertFails` are the two outcomes of
    `cleanup_finished_kernel`.
  - `Exit` is the loop exit. `Terminated` is the stopped process.
- **Loops.** `process_commands`, `launch_from` and `erase_from` are RECURSIVE
  operators that follow the loops line by line. This includes the
  `erase(begin()+j)` followed by `j++`, and the `break` only when the cap is
  not hit and the GPU is active.
- **Stale finished uids.** `finished_q` is the GPU's queue, and
  `get_finished_kernel_uid` pops one uid per cycle. When two kernels finish
  in one cycle and the GPU goes idle, the next pass breaks on `!active()`
  before popping. The second uid then stays queued after its kernel is
  erased, and a later pass pops it. The `bridge` run reaches this, and its
  properties hold through it.

### OperandCollector (OC-RFU)

- **Variables.** `in_reg` (ID_OC registers, one per port), `cu`
  (`free`, `inst`, `port`, `not_ready`), `queue` (per-bank read queues of
  `op_t`), `alloc` (`allocation_t` per bank), `last_cu` (dispatch round
  robin), `out_reg` (OC_EX registers), `fu`/`fu_left` (the instruction in
  each functional unit and its remaining latency), and `phase`.
- **Actions.** One per stage of spec §5, in the code's order:
  - `Writeback`: the functional units complete, in port order. Writeback
    is all-or-nothing, per spec §4.2.
  - `Execute`: each FU advances, and a free FU takes its OC_EX register, as
    in `int_unit::issue`.
  - `OperandCollectorStep`: the whole of `step()`, that is
    `dispatch_ready_cu` via `find_ready`, then `allocate_reads` (any maximal
    matching of banks to units, with no grant on a write-allocated bank),
    then `allocate_cu` for each port, then `process_banks`.
  - `Issue`: the scheduler issues at most one instruction, unless it
    collides on the scoreboard (spec §4.3). `reserved(w)` is the set of
    destination registers of warp `w`'s instructions in flight.
    `checkCollision` stalls an instruction that reads or writes one of them.
    It stalls a read after write and a write after write, as the
    scoreboard's `checkCollision` does.
- **Helpers from the source.** `bank_idle`, `allocate_bank_for_write` and
  `reset_alloction` are `allocation_t`'s and the
  arbiter's methods; `op_t` builds a read request; `collect_operand` clears
  a unit's not-ready bit.
- **Detail kept.** `find_ready` keeps the source's `rr_increment` and
  `cusPerSched` formula. When `cusPerSched` is 0 in sub-core mode, the
  `%` traps (SIGFPE). `find_ready` then returns `Trap`, and the step moves
  `phase` to `"trapped"`.
- **History variables.** `issued`, `retired` and `last_retired` record
  what happened for the properties.
- **Read allocations.** A granted read's `READ_ALLOC` lasts only until the
  same step's `process_banks`, so `alloc` records only `WRITE_ALLOC`.

### MemFetch (mem_fetch lifecycle)

- **Variables.** `status` (`m_status`, or `UNBORN`) and `mtype` (`m_type`)
  of every fetch, the L1's `mshr` (per line, the fetches of its entry; the
  head is the one in flight) and `missq` (miss queue), `fail` (the last
  `cache_reservation_fail_reason` of a fetch), and `aborted` (an assert of
  `set_reply` fired). A sector child `c` has `Parent[c]`, its `original_mf`.
- **From the source.**
  - `set_reply` is translated with its asserts: not a write-back access,
    and a write flag that agrees with the request type. A reply is left
    alone.
  - `is_reply` is `mem_fetch::is_reply`.
  - `alloc` is `shader_core_mem_fetch_allocator::alloc`.
  - `MfTypes`, `Statuses` and `FailReasons` are the enums.
- **From spec §4.4.** The code of the hosts is not under `src/`:
  - `L1Access`: a write goes to the miss queue. A read hits, merges into its
    line's MSHR entry, takes a new entry, or fails with `MISS_QUEUE_FULL`,
    `MSHR_MERGE_ENRTY_FAIL` or `MSHR_ENRTY_FAIL` and retries next cycle.
  - `IcntPush`: the head of the miss queue enters the interconnect.
  - `L2Access`: a hit is replied to. A miss goes to DRAM, or is split into
    sector children that go to DRAM while the original waits.
  - `DramReturn`: write-backs are deleted, everything else is replied to.
  - `L2Fill`: a child is deleted, and any other fetch is replied to a second
    time as it leaves the L2.
  - `ParentReady`: the original returns once all its children have.
  - `Respond`: the fill frees the MSHR entry and wakes its merged fetches.
  - `Transit`: steps that only change the status.
  - `L2Evict`: the L2 creates a write-back fetch.
  - `Idle`: nothing can move.

### AnyNet (topology and routing)

- **Input.** The network file is a sequence of lines of tokens. A token is
  `[word, num]`, where `num` is what `atoi` reads from it.
- **readFile.** `readFile` is a fold of `ParseToken` over every token. It is
  the per-token state machine of the source: HEAD_TYPE, HEAD_ID, BODY_TYPE,
  BODY_ID and LINK_WEIGHT, including the fall-through from LINK_WEIGHT to
  BODY_TYPE. Its asserts become `err`. The model treats the constructor as
  having parsed the file in `Init`, because parsing is deterministic and is
  the constructor's first step.
- **Actions.**
  - `BuildNet`: the port numbering of `_BuildNet`, then `buildRoutingTable`
    starts `route(0)`.
  - `RouteStep`: one iteration of route's `while` loop. It picks the least
    unvisited router, or -1, then relaxes that router's links.
  - `RoutePost`: the post-processing that fills `routing_table[r_start]`,
    with its asserts. It then moves on to the next router. The walk back
    along `prev` (`FirstHop`) is bounded by `_size` steps: a walk that has
    not reached `r_start` by then is on a `prev` cycle, which the source
    loops on forever. This is the state `pc = "hung"`.
  - `min_anynet` is the routing-table lookup that `Follow` uses to follow
    a path hop by hop.
- **Undefined behaviour.** A router id at or above `_size` would index the
  `_size` arrays out of bounds. This is the state `pc = "ub"`.

## 3. Runs and what they show

| Run | Cfg | Result | Shows |
|---|---|---|---|
| bridge | MCAccelsimBridge.cfg | pass, 6172 states | On every list of up to 4 commands: streams run one kernel at a time (`StreamsSerialize`). `busy_streams` matches the launched kernels of the window (`BusyStreamsMatchWindow`). Only kernels that ran are retired (`RetiredWereRun`). `assert(k)` fails only on lists that end with a memcpy (`AbortOnlyOnTrailingMemcpy`), and the loop always returns or aborts (`Termination`). Every kernel of the list is eventually launched, unless the cap or the abort cuts the run short (`EveryKernelLaunched`). Its mutant consumes and drops a kernel read while the window is full; `Termination` does not notice that. |
| bridge_memcpy | MCAccelsimBridge_memcpy.cfg | violation | `assert(k)` aborts when the list ends with a memcpy (finding) |
| bridge_window3 | MCAccelsimBridge_window3.cfg | violation | With a window of 3, a never-launched kernel is erased (finding) |
| oc | MCOperandCollector.cfg | pass, ~31k states | Pending operands are exactly the queued reads. Instructions are conserved. Every issued instruction retires (liveness). |
| oc_order | MCOperandCollector_order.cfg | violation | Two instructions of one warp that share no register, so that the scoreboard lets both be in flight, retire out of program order: the younger one has fewer operands to read and is dispatched first. This goes against spec §5(b) (finding). |
| oc_subcore | MCOperandCollector_subcore.cfg | violation | In sub-core mode with 4 schedulers and 2 collector units, `find_ready` divides by `cusPerSched = 0` on the first cycle (finding) |
| mf_l1 | MCMemFetch.cfg | pass, ~254k states | At most one read per line is in flight past the L1 (`MshrOneInFlight`). Every fetch, merged ones included, is eventually deleted (`Conservation`). |
| mf_l2 | MCMemFetch_l2.cfg | pass, 5028 states | Every fetch sent back is a reply of the kind its access asks for, although a DRAM-served fetch gets `set_reply` twice (`ReplyMatchesRequest`). `set_reply` never asserts (`NoAbort`). |
| anynet | MCAnyNet.cfg | pass, 6804 states | The parse matches the declared topology. Routing tables give shortest, loop-free paths to every node, with link latencies 0, 1 or 3. Construction terminates. |
| anynet_negative | MCAnyNet_negative.cfg | violation | A negative latency (`atoi` of `-5`) makes route's post-processing walk a `prev` cycle forever (finding) |
| anynet_nodeheaded | MCAnyNet_nodeheaded.cfg | violation | `node n router r` lines create isolated routers and `route()` never ends (finding) |
| anynet_nodelatency | MCAnyNet_nodelatency.cfg | violation | A node latency is written into a router link (finding) |

Each property of a passing run has a mutant in `PROJECT.json`. A mutant is a
plausible bug in the definition that models the code, such as a dropped
guard, a missing erase, or an off-by-one scan. TLC finds each mutant violates
its property.

`RoutingCorrect` is checked against two independent definitions:
- `ShortestDist`, a Bellman-Ford reference for the shortest distance;
- `Channel`, which decodes a port the way the router does: the p-th output
  channel in `_BuildNet`'s `AddOutputChannel` order.

## 4. Bounds and why they are enough

- **Driver.** The bounds are two streams, command lists of up to 4
  commands, a window of 2 (3 for the finding), GPU concurrency of 2, and a
  possible cap. Together they give:
  - two kernels of one stream in the window at once, so one blocks on
    `busy_streams`;
  - two streams running together;
  - the GPU's concurrency limit being reached;
  - finishing in either order, or together;
  - memcpys between kernels and after the last one;
  - the cap hit during a cycle.
- **Operand collector.** The bounds are two ports with SP latency 0 and SFU
  latency 1, two collector units, two banks, two warps, and up to 3
  instructions. Each warp has `r0, r1 -> r2` and `r3 -> r4`. With
  `bank = (reg + wid) mod 2` these give:
  - two units competing for one bank, an arbiter conflict;
  - a read meeting a bank write-allocated by a writeback;
  - both FUs writing back in one cycle, because the latencies differ;
  - both instructions of one warp in flight, and a second copy of one
    stalled on the scoreboard.

  Each of these was confirmed reachable while the model was built.
- **MemFetch.**
  - The L1 run has reads r1, r2 and r4 of line A and r3 of line B. It has
    one MSHR entry of two fetches and a miss queue of one. So r2 merges into
    r1's entry, r4 finds that entry full, r3 finds no free entry, and a
    second miss waits for the queue.
  - The L2 run has read r1, which may hit, go to DRAM, or split into two
    children c1 and c2 that return in either order. It also has a write w1
    and a write-back e1. Two children are the fewest for which "all" and
    "any" differ.
- **AnyNet.**
  - The pass run enumerates the connected topologies of 3 routers and 2
    nodes, with latencies 0, 1 or 3 in either link direction (486
    network files). Each link is
    written once, with or without an explicit latency, so the LINK_WEIGHT
    fall-through is exercised.
  - Three routers are the fewest for which a path has an intermediate hop
    and the post-processing walks `prev` back.

## 5. Fairness

- **Weak fairness.** Each model is one sequential process, which the code
  never suspends. So weak fairness of its steps is what the single thread
  guarantees.
- **MemFetch.** Every fetch's step, and the miss-queue push, are weakly
  fair: the simulator cycles every cache, queue and DRAM every cycle, so a
  fetch that can move eventually moves. Creating a fetch is not fair, since
  the program may never issue it. A failed L1 access that retries with the
  same reason changes nothing, so fairness does not force it to succeed
  while the MSHR or miss queue stays full.
- **The driver's thread.** Its steps, the failing `assert(k)` included,
  are one weakly fair action: the thread does not stop between them.
- **The driver's GPU step.** The driver adds weak fairness on `CycleActive`,
  the GPU finishing kernels. This assumes the GPU eventually finishes a
  launched kernel. The deadlock watchdog aborts otherwise, and it is not
  modelled.

## 6. Not modelled, and the plan for the next sittings

1. **Cache line state.** The tag array with its replacement policy, the
   reserved-line rule (`LINE_ALLOC_FAIL`) and write-allocate
   (`MSHR_RW_PENDING`). This is spec §4.5, since that code is not under
   `src/`. `MemFetch` abstracts the L1's contents to a nondeterministic hit
   and the L2's to hit or miss.
2. **Sub-core partitioning of the operand collector.** Banks per scheduler
   and units per scheduler (`m_reg_id`), which `collector_unit_t::init` sets
   up and which are not under `src/`. Only the `find_ready` arithmetic is
   modelled.
3. **AnyNet with non-sequential router ids.** The `"ub"` state is modelled
   but no run enumerates files with a gap in the router ids. Zero and
   negative latencies are checked (`anynet`, `anynet_negative`).
4. **Sub-core dispatch starvation.** With one scheduler and two units in
   sub-core mode, `find_ready` always scans from unit 0. Unit 1 can then
   wait for as long as unit 0 is refilled every cycle. Showing this needs
   an unbounded instruction stream and its own run, and every run slot is
   taken.
5. **Abstract specifications.** Neither component has one. Stated at the
   granularity of one driver pass or one collector cycle, the promises
   restate guards of the detailed actions (`busy_streams`, `ready`, the
   arbiter's matching) that the invariants above already check.
6. **Composition.** Composing the operand collector with the driver's
   kernels, or `MemFetch` with the memory unit, would multiply state
   spaces. They interact only through the GPU's cycle, and each side's
   environment is already nondeterministic.

Spec gaps noted without a run:
- Spec §4.2 makes the writeback of all destination registers atomic, and a
  bank is busy once one destination has taken it.
- An instruction with two destination registers in one bank would then
  never complete.
- `allocation_t::alloc_write` asserts the bank is free (line 197), so the
  two writes cannot share a cycle either.
- No instruction of the OC model has two destinations in one bank. The
  per-destination loop of `writeback` is not under `src/`, so the model
  does not decide this case.
- Reads never meet a write-allocated bank. `allocate_reads` skips those
  banks, and its body is not under `src/`. So the `assert(is_free())` of
  `alloc_read` (line 191) cannot fire in the model, and no property
  states it.
- The sector merge test of `ParentReady` comes from spec §4.4. A property
  that the original returns after its children would restate it.

Left out for good:
- the CLI and configuration parsing, which are I/O;
- `hal.cc`, which is string tables;
- `core_bridge`, which is read-only accessors;
- `cache_event`, which is a record and a formatter;
- the `mem_fetch` data setters, whose values no property reads;
- the CUDA microbenchmark, which is arithmetic on a real GPU;
- the commented-out `accelsim_old`.
