--------------------------- MODULE AccelsimBridge ---------------------------
(***************************************************************************)
(* The kernel/stream command loop of the simulation driver:               *)
(* accelsim_bridge::run_to_completion and the functions it calls           *)
(* (process_commands, launch_kernels, cycle, get_finished_kernel_uid,      *)
(* cleanup_finished_kernel) in src/playground/src/ref/bridge/main.cc.      *)
(*                                                                         *)
(* The GPU behind m_gpgpu_sim (gpgpu_sim, not part of this repository's    *)
(* sources) is abstracted to what the driver observes of it: the set of    *)
(* running kernels, the FIFO of finished-kernel uids that finished_kernel()*)
(* pops from, and the cycle/instruction cap flag. A kernel's uid is the    *)
(* index of its kernel_launch command: uids are positive, distinct and     *)
(* increase in creation order, as the simulator's kernel uid counter does. *)
(***************************************************************************)
EXTENDS Naturals, Sequences, SequencesExt, FiniteSets

CONSTANTS
  Streams,        (* CUDA stream ids appearing in kernel headers.          *)
  CommandLists,   (* The command lists parse_commandlist_file can return.  *)
  WindowSize,     (* window_size: max_concurrent_kernel, or 1.             *)
  MaxConcurrent,  (* Kernel slots of the GPU, bounding can_start_kernel(). *)
  CapEnabled      (* Whether a cycle cap (CYCLES) can be reached.          *)

ASSUME WindowSize \in Nat \ {0}
ASSUME MaxConcurrent \in Nat \ {0}
ASSUME CapEnabled \in BOOLEAN

(* A command: a memcpy, or a kernel launch whose header names a stream.    *)
Memcpy == [type |-> "memcpy"]
Launch(s) == [type |-> "kernel", stream |-> s]
Commands == {Memcpy} \cup {Launch(s) : s \in Streams}

ASSUME \A cl \in CommandLists : cl \in Seq(Commands)

VARIABLES
  commandlist,          (* accelsim_bridge::commandlist                    *)
  command_idx,          (* accelsim_bridge::command_idx                    *)
  kernels_info,         (* accelsim_bridge::kernels_info, a seq of uids    *)
  busy_streams,         (* accelsim_bridge::busy_streams, a seq of streams *)
  launched,             (* uids k with k->was_launched()                   *)
  running,              (* GPU: launched kernels that have not finished    *)
  finished_q,           (* GPU: finished uids not yet popped by            *)
                        (* finished_kernel()                               *)
  cap_hit,              (* GPU: cycle_insn_cta_max_hit()                   *)
  finished_kernel_uid,  (* local of run_to_completion                      *)
  pc,                   (* control point of run_to_completion              *)
  retired               (* history: uids erased from kernels_info          *)

vars == <<commandlist, command_idx, kernels_info, busy_streams, launched,
          running, finished_q, cap_hit, finished_kernel_uid, pc, retired>>

Stream(k) == commandlist[k].stream

IsKernel(i) == i \in DOMAIN commandlist /\ commandlist[i].type = "kernel"

KernelUids == {i \in DOMAIN commandlist : IsKernel(i)}

(* accelsim_bridge::active(): the GPU has work and the cap is not hit.     *)
active == running # {} /\ ~cap_hit

(* gpgpu_sim::can_start_kernel(): a kernel slot is free.                   *)
can_start_kernel(run) == Cardinality(run) < MaxConcurrent

(* get_finished_kernel_uid: gpgpu_sim::finished_kernel() pops the oldest  *)
(* uid of the finished queue, or returns 0 when it is empty.               *)
get_finished_kernel_uid(q) == IF q = <<>> THEN 0 ELSE Head(q)

commands_left == command_idx < Len(commandlist)
kernels_left == kernels_info # <<>>

(***************************************************************************)
(* process_commands: consume commands while the window has room. A        *)
(* memcpy only updates the performance model's L2 state and statistics;   *)
(* a kernel launch appends a new kernel_info to the window. Returns        *)
(* <<command_idx, kernels_info>>.                                          *)
(***************************************************************************)
(* Mutant: the window test is made per kernel inside the loop, so a       *)
(* kernel read while the window is full is consumed and dropped.           *)
RECURSIVE process_commands_dropping(_, _)
process_commands_dropping(idx, ks) ==
  IF idx < Len(commandlist) /\ (Len(ks) < WindowSize \/ commandlist[idx + 1].type = "kernel")
  THEN IF commandlist[idx + 1].type = "memcpy"
       THEN process_commands_dropping(idx + 1, ks)
       ELSE IF Len(ks) < WindowSize
            THEN process_commands_dropping(idx + 1, Append(ks, idx + 1))
            ELSE <<idx + 1, ks>>
  ELSE <<idx, ks>>

RECURSIVE process_commands(_, _)
process_commands(idx, ks) ==
  IF Len(ks) < WindowSize /\ idx < Len(commandlist)
  THEN IF commandlist[idx + 1].type = "memcpy"
       THEN process_commands(idx + 1, ks)
       ELSE process_commands(idx + 1, Append(ks, idx + 1))
  ELSE <<idx, ks>>

(***************************************************************************)
(* launch_kernels: walk the window in order; launch every kernel whose     *)
(* stream is not busy, that was not launched, while the GPU has a slot.    *)
(***************************************************************************)
(* Mutant: the stream_busy test is dropped.                               *)
RECURSIVE launch_from_ignoring_streams(_, _, _, _, _)
launch_from_ignoring_streams(ks, j, run, lau, busy) ==
  IF j > Len(ks) THEN [running |-> run, launched |-> lau, busy |-> busy]
  ELSE LET k == ks[j] IN
       IF can_start_kernel(run) /\ k \notin lau
       THEN launch_from_ignoring_streams(ks, j + 1, run \cup {k},
                                         lau \cup {k}, Append(busy, Stream(k)))
       ELSE launch_from_ignoring_streams(ks, j + 1, run, lau, busy)

(* Mutant: k->set_launched() is missing.                                   *)
RECURSIVE launch_from_unflagged(_, _, _, _, _)
launch_from_unflagged(ks, j, run, lau, busy) ==
  IF j > Len(ks) THEN [running |-> run, launched |-> lau, busy |-> busy]
  ELSE LET k == ks[j] IN
       IF ~Contains(busy, Stream(k)) /\ can_start_kernel(run) /\ k \notin lau
       THEN launch_from_unflagged(ks, j + 1, run \cup {k}, lau,
                                  Append(busy, Stream(k)))
       ELSE launch_from_unflagged(ks, j + 1, run, lau, busy)

RECURSIVE launch_from(_, _, _, _, _)
launch_from(ks, j, run, lau, busy) ==
  IF j > Len(ks) THEN [running |-> run, launched |-> lau, busy |-> busy]
  ELSE LET k == ks[j] IN
       IF ~Contains(busy, Stream(k)) /\ can_start_kernel(run) /\ k \notin lau
       THEN launch_from(ks, j + 1, run \cup {k}, lau \cup {k},
                        Append(busy, Stream(k)))
       ELSE launch_from(ks, j + 1, run, lau, busy)

launch_kernels(ks) == launch_from(ks, 1, running, launched, busy_streams)

(***************************************************************************)
(* The removal loop of cleanup_finished_kernel. It erases kernels_info[j]  *)
(* and then increments j, so the kernel shifted into slot j is not         *)
(* examined. It stops after the first match unless the cap is hit or the   *)
(* GPU is inactive. Returns <<kernels_info, busy_streams, erased uids>>.   *)
(***************************************************************************)
(* Mutant: the busy_streams entry of an erased kernel is not freed.        *)
RECURSIVE erase_from_keeping_streams(_, _, _, _, _)
erase_from_keeping_streams(fk, ks, busy, gone, j) ==
  IF j > Len(ks) THEN <<ks, busy, gone>>
  ELSE LET k == ks[j] IN
       IF k = fk \/ cap_hit \/ ~active
       THEN IF ~cap_hit /\ active
            THEN <<RemoveAt(ks, j), busy, gone \cup {k}>>
            ELSE erase_from_keeping_streams(fk, RemoveAt(ks, j), busy,
                                            gone \cup {k}, j + 1)
       ELSE erase_from_keeping_streams(fk, ks, busy, gone, j + 1)

(* Mutant: kernels_info.erase(kernels_info.begin()) erases the head of the *)
(* window instead of the matching kernel.                                  *)
RECURSIVE erase_from_head(_, _, _, _, _)
erase_from_head(fk, ks, busy, gone, j) ==
  IF j > Len(ks) THEN <<ks, busy, gone>>
  ELSE LET k == ks[j] IN
       IF k = fk \/ cap_hit \/ ~active
       THEN LET ks2   == RemoveAt(ks, 1)
                busy2 == RemoveFirst(busy, Stream(ks[1]))
            IN IF ~cap_hit /\ active
               THEN <<ks2, busy2, gone \cup {ks[1]}>>
               ELSE erase_from_head(fk, ks2, busy2, gone \cup {ks[1]}, j + 1)
       ELSE erase_from_head(fk, ks, busy, gone, j + 1)

RECURSIVE erase_from(_, _, _, _, _)
erase_from(fk, ks, busy, gone, j) ==
  IF j > Len(ks) THEN <<ks, busy, gone>>
  ELSE LET k == ks[j] IN
       IF k = fk \/ cap_hit \/ ~active
       THEN LET ks2   == RemoveAt(ks, j)
                busy2 == RemoveFirst(busy, Stream(k))
            IN IF ~cap_hit /\ active
               THEN <<ks2, busy2, gone \cup {k}>>
               ELSE erase_from(fk, ks2, busy2, gone \cup {k}, j + 1)
       ELSE erase_from(fk, ks, busy, gone, j + 1)

-----------------------------------------------------------------------------

Init ==
  /\ commandlist \in CommandLists
  /\ command_idx = 0
  /\ kernels_info = <<>>
  /\ busy_streams = <<>>
  /\ launched = {}
  /\ running = {}
  /\ finished_q = <<>>
  /\ cap_hit = FALSE
  /\ finished_kernel_uid = 0
  /\ pc = "loop"
  /\ retired = {}

(* Mutant: the loop body runs without the commands_left()/kernels_left()  *)
(* test, as a do-while would.                                              *)
RunIteration_unguarded ==
  /\ pc = "loop"
  /\ LET filled == process_commands(command_idx, kernels_info)
         l      == launch_kernels(filled[2])
     IN /\ command_idx' = filled[1]
        /\ kernels_info' = filled[2]
        /\ running' = l.running
        /\ launched' = l.launched
        /\ busy_streams' = l.busy
  /\ finished_kernel_uid' = 0
  /\ pc' = "cycle"
  /\ UNCHANGED <<commandlist, finished_q, cap_hit, retired>>

(* Head of the while loop of run_to_completion while work remains:         *)
(* process_commands, then launch_kernels, then enter the cycle loop.       *)
RunIteration ==
  /\ pc = "loop"
  /\ commands_left \/ kernels_left
  /\ LET filled == process_commands(command_idx, kernels_info)
         l      == launch_kernels(filled[2])
     IN /\ command_idx' = filled[1]
        /\ kernels_info' = filled[2]
        /\ running' = l.running
        /\ launched' = l.launched
        /\ busy_streams' = l.busy
  /\ finished_kernel_uid' = 0
  /\ pc' = "cycle"
  /\ UNCHANGED <<commandlist, finished_q, cap_hit, retired>>

(* The while loop ends: no command and no kernel is left.                  *)
Exit ==
  /\ pc = "loop"
  /\ ~commands_left /\ ~kernels_left
  /\ pc' = "done"
  /\ UNCHANGED <<commandlist, command_idx, kernels_info, busy_streams,
                 launched, running, finished_q, cap_hit, finished_kernel_uid,
                 retired>>

(* Mutant: the "if (!active()) break;" is missing and the loop spins.     *)
CycleInactive_spinning ==
  /\ pc = "cycle"
  /\ ~active
  /\ UNCHANGED vars

(* do { if (!active()) break; ... }: the GPU has nothing to run.          *)
CycleInactive ==
  /\ pc = "cycle"
  /\ ~active
  /\ pc' = "cleanup"
  /\ UNCHANGED <<commandlist, command_idx, kernels_info, busy_streams,
                 launched, running, finished_q, cap_hit, finished_kernel_uid,
                 retired>>

(***************************************************************************)
(* One iteration of the cycle loop while active: cycle() advances the GPU  *)
(* one cycle, in which any set of running kernels may finish (in any       *)
(* order) and the cap may be reached; then get_finished_kernel_uid() pops  *)
(* the oldest finished uid, and the loop breaks if it is non-zero.         *)
(***************************************************************************)
CycleActive ==
  /\ pc = "cycle"
  /\ active
  /\ \E S \in SUBSET running, hit \in IF CapEnabled THEN BOOLEAN ELSE {FALSE} :
       \E order \in SetToSeqs(S) :
         LET q == finished_q \o order IN
         /\ running' = running \ S
         /\ cap_hit' = hit
         /\ finished_kernel_uid' = get_finished_kernel_uid(q)
         /\ finished_q' = IF q = <<>> THEN q ELSE Tail(q)
         /\ pc' = IF q = <<>> THEN "cycle" ELSE "cleanup"
  /\ UNCHANGED <<commandlist, command_idx, kernels_info, busy_streams,
                 launched, retired>>

(***************************************************************************)
(* cleanup_finished_kernel(finished_kernel_uid), then the cap check that   *)
(* breaks the outer loop. The cycle loop only breaks with a non-zero uid   *)
(* or with the GPU inactive, so the removal branch is always entered.      *)
(* assert(k) fails when it is entered with an empty window.                *)
(***************************************************************************)
CleanupGuard ==
  /\ pc = "cleanup"
  /\ finished_kernel_uid # 0 \/ cap_hit \/ ~active

CleanupAssertFails ==
  /\ CleanupGuard
  /\ kernels_info = <<>>
  /\ pc' = "aborted"
  /\ UNCHANGED <<commandlist, command_idx, kernels_info, busy_streams,
                 launched, running, finished_q, cap_hit, finished_kernel_uid,
                 retired>>

Cleanup ==
  /\ CleanupGuard
  /\ kernels_info # <<>>
  /\ LET r == erase_from(finished_kernel_uid, kernels_info, busy_streams,
                         {}, 1)
     IN /\ kernels_info' = r[1]
        /\ busy_streams' = r[2]
        /\ retired' = retired \cup r[3]
  /\ pc' = IF cap_hit THEN "done" ELSE "loop"
  /\ UNCHANGED <<commandlist, command_idx, launched, running, finished_q,
                 cap_hit, finished_kernel_uid>>

(* The simulation thread has exited, or the failed assert has aborted    *)
(* the process.                                                            *)
Terminated ==
  /\ pc \in {"done", "aborted"}
  /\ UNCHANGED vars

Next ==
  \/ RunIteration
  \/ Exit
  \/ CycleInactive
  \/ CycleActive
  \/ Cleanup
  \/ CleanupAssertFails
  \/ Terminated

(* run_to_completion is a single thread that runs until it returns or    *)
(* its assert aborts the process; the GPU finishes every launched kernel  *)
(* in finitely many cycles.                                                *)
Fairness ==
  /\ WF_vars(RunIteration \/ Exit \/ CycleInactive \/ Cleanup
              \/ CleanupAssertFails)
  /\ WF_vars(CycleActive)

Spec == Init /\ [][Next]_vars /\ Fairness

-----------------------------------------------------------------------------

TypeOK ==
  /\ commandlist \in Seq(Commands)
  /\ command_idx \in 0..Len(commandlist)
  /\ kernels_info \in Seq(KernelUids)
  /\ busy_streams \in Seq(Streams)
  /\ launched \subseteq KernelUids
  /\ running \subseteq launched
  /\ finished_q \in Seq(launched)
  /\ cap_hit \in BOOLEAN
  /\ finished_kernel_uid \in {0} \cup KernelUids
  /\ pc \in {"loop", "cycle", "cleanup", "done", "aborted"}
  /\ retired \subseteq KernelUids

(* Kernels of one CUDA stream run one at a time and in command order: when *)
(* launch_kernels launches a kernel, every earlier kernel of its stream    *)
(* was launched and has finished. busy_streams is what enforces it across  *)
(* loop iterations, window refills and retirements.                        *)
StreamsSerialize ==
  \A a, b \in KernelUids :
    (a < b /\ Stream(a) = Stream(b) /\ b \in launched)
      => (a \in launched /\ a \notin running)

(* busy_streams holds each stream once per launched kernel of that stream  *)
(* still in the window: cleanup_finished_kernel frees the entry of exactly *)
(* the kernels it erases.                                                  *)
BusyStreamsMatchWindow ==
  \A s \in Streams :
    Cardinality({i \in DOMAIN busy_streams : busy_streams[i] = s})
      = Cardinality({j \in DOMAIN kernels_info :
                       kernels_info[j] \in launched
                       /\ Stream(kernels_info[j]) = s})

(* A kernel erased from the window was launched and has finished, unless   *)
(* the cycle cap cut the simulation short.                                 *)
RetiredWereRun ==
  \A k \in retired : k \in launched /\ (k \notin running \/ cap_hit)

(* The assert(k) in cleanup_finished_kernel never fails.                   *)
NoAbort == pc # "aborted"

(* The list's last command is a memcpy.                                   *)
EndsWithMemcpy ==
  commandlist # <<>> /\ commandlist[Len(commandlist)].type = "memcpy"

(* The assert(k) in cleanup_finished_kernel fails only on a command list  *)
(* that ends with a memcpy: whatever the window, the GPU's concurrency,    *)
(* the order kernels finish in and the cap, a list whose last command is   *)
(* a kernel launch always has a kernel in the window when the cycle loop   *)
(* breaks.                                                                 *)
AbortOnlyOnTrailingMemcpy == pc = "aborted" => EndsWithMemcpy

(* run_to_completion returns, or the process aborts: the loop never spins. *)
Termination == <>(pc \in {"done", "aborted"})

(* Every kernel of the command list is eventually launched, unless the    *)
(* cycle cap cuts the simulation short or assert(k) aborts it: a kernel    *)
(* held back by a full window, a busy stream or a full GPU is read into    *)
(* the window and launched by a later pass of run_to_completion.           *)
EveryKernelLaunched ==
  <>(KernelUids \subseteq launched \/ cap_hit \/ pc = "aborted")

=============================================================================
