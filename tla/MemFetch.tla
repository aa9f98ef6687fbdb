------------------------------ MODULE MemFetch ------------------------------
(***************************************************************************)
(* The life of mem_fetch objects (src/playground/src/ref/mem_fetch.hpp,   *)
(* mem_fetch_status.hpp, shader_core_mem_fetch_allocator.cc,               *)
(* partition_mf_allocator.hpp) between one core's L1 data cache and one    *)
(* memory partition (L2 and DRAM).                                         *)
(*                                                                         *)
(* A fetch has a type (mf_type) and a status (mem_fetch_status), and       *)
(* set_reply turns a request into a reply. The components that move a      *)
(* fetch from status to status are not in the repository's sources: the L1 *)
(* miss handling with its MSHR and miss queue, the L2 with its sector      *)
(* split, DRAM, and the interconnect follow spec section 4.4 and the       *)
(* reservation-fail reasons of cache_reservation_fail_reason.hpp. Every    *)
(* place the partition calls set_reply is kept: DRAM calls it on the       *)
(* fetches it returns, and the L2 calls it again on everything it sends    *)
(* back, so a fetch that went to DRAM gets it twice.                       *)
(* Fetches are handles; Parent[c] # NoFetch makes c a sector child that    *)
(* the L2 creates (partition_mf_allocator::alloc with original_mf).        *)
(***************************************************************************)
EXTENDS Integers, Sequences, FiniteSets

CONSTANTS
  Fetches,        (* handles of every fetch the run may create             *)
  Acc,            (* Acc[f]: the access type of f's mem_access_t           *)
  IsWrite,        (* IsWrite[f]: the wr flag f's access is built with      *)
  Line,           (* Line[f]: the cache line f addresses                   *)
  Parent,         (* Parent[f]: original_mf of a sector child, or NoFetch  *)
  MshrEntries,    (* MSHR entries of the L1                                *)
  MshrMaxMerge,   (* fetches one MSHR entry holds                          *)
  MissQueueSize,  (* L1 miss queue capacity                                *)
  NoFetch

ASSUME MshrEntries \in Nat \ {0} /\ MshrMaxMerge \in Nat \ {0}
ASSUME MissQueueSize \in Nat \ {0}

(* mf_type and the statuses this path uses, named as in the enums.         *)
MfTypes == {"READ_REQUEST", "WRITE_REQUEST", "READ_REPLY", "WRITE_ACK"}
Statuses ==
  {"MEM_FETCH_INITIALIZED", "IN_L1D_MISS_QUEUE", "IN_ICNT_TO_MEM",
   "IN_PARTITION_ICNT_TO_L2_QUEUE", "IN_PARTITION_L2_TO_DRAM_QUEUE",
   "IN_PARTITION_DRAM", "IN_PARTITION_DRAM_TO_L2_QUEUE",
   "IN_PARTITION_L2_MISS_QUEUE", "IN_PARTITION_L2_TO_ICNT_QUEUE",
   "IN_ICNT_TO_SHADER", "IN_CLUSTER_TO_SHADER_QUEUE",
   "IN_SHADER_LDST_RESPONSE_FIFO", "IN_SHADER_FETCHED", "MEM_FETCH_DELETED"}
Unborn == "UNBORN"

(* cache_reservation_fail_reason.                                          *)
FailReasons == {"LINE_ALLOC_FAIL", "MISS_QUEUE_FULL", "MSHR_ENRTY_FAIL",
                "MSHR_MERGE_ENRTY_FAIL", "MSHR_RW_PENDING"}

WritebackAcc == {"L1_WRBK_ACC", "L2_WRBK_ACC"}
Children(f) == {c \in Fetches : Parent[c] = f}
Lines == {Line[f] : f \in Fetches}

VARIABLES
  status,   (* m_status of every fetch, Unborn before it is allocated      *)
  mtype,    (* m_type                                                      *)
  mshr,     (* per line, the fetches of its MSHR entry; head is in flight  *)
  missq,    (* the L1 miss queue                                           *)
  fail,     (* the last reservation-fail reason of a fetch, or "NONE"      *)
  aborted   (* an assert of set_reply has fired                            *)

vars == <<status, mtype, mshr, missq, fail, aborted>>

(* mem_fetch::is_reply.                                                    *)
is_reply(t) == t \in {"READ_REPLY", "WRITE_ACK"}

(* Mutant of set_reply: the else branch flips a reply back to a request.   *)
set_reply_toggling(f, t) ==
  CASE t = "READ_REQUEST"  -> [t |-> "READ_REPLY",  ok |-> ~IsWrite[f]]
    [] t = "WRITE_REQUEST" -> [t |-> "WRITE_ACK",   ok |-> IsWrite[f]]
    [] t = "READ_REPLY"    -> [t |-> "READ_REQUEST", ok |-> TRUE]
    [] OTHER               -> [t |-> "WRITE_REQUEST", ok |-> TRUE]

(* Mutant of set_reply: the commented-out assert(0 && "cannot set reply"). *)
set_reply_strict(f, t) ==
  CASE t = "READ_REQUEST"  -> [t |-> "READ_REPLY", ok |-> ~IsWrite[f]]
    [] t = "WRITE_REQUEST" -> [t |-> "WRITE_ACK",  ok |-> IsWrite[f]]
    [] OTHER               -> [t |-> t, ok |-> FALSE]

(***************************************************************************)
(* mem_fetch::set_reply on fetch f of type t: the new type, and whether    *)
(* its asserts hold (not a write-back access; the write flag agrees with   *)
(* the request type). A fetch that is already a reply is left alone.      *)
(***************************************************************************)
set_reply(f, t) ==
  LET ok == Acc[f] \notin WritebackAcc IN
  CASE t = "READ_REQUEST"  -> [t |-> "READ_REPLY", ok |-> ok /\ ~IsWrite[f]]
    [] t = "WRITE_REQUEST" -> [t |-> "WRITE_ACK",  ok |-> ok /\ IsWrite[f]]
    [] OTHER               -> [t |-> t, ok |-> ok]

(* The mem_fetch constructor: a request typed by the access's write flag.  *)
NewType(f) == IF IsWrite[f] THEN "WRITE_REQUEST" ELSE "READ_REQUEST"

(* Reply of f through set_reply: updates mtype and aborted.                *)
Reply(f) ==
  LET r == set_reply(f, mtype[f]) IN
  /\ mtype' = [mtype EXCEPT ![f] = r.t]
  /\ aborted' = (aborted \/ ~r.ok)

Move(f, s) == status' = [status EXCEPT ![f] = s]

MshrInUse == {l \in Lines : mshr[l] # <<>>}

(* Reads in flight below the L1.                                           *)
BelowL1 == {"IN_ICNT_TO_MEM", "IN_PARTITION_ICNT_TO_L2_QUEUE",
            "IN_PARTITION_L2_TO_DRAM_QUEUE", "IN_PARTITION_DRAM",
            "IN_PARTITION_DRAM_TO_L2_QUEUE", "IN_PARTITION_L2_MISS_QUEUE",
            "IN_PARTITION_L2_TO_ICNT_QUEUE", "IN_ICNT_TO_SHADER",
            "IN_CLUSTER_TO_SHADER_QUEUE"}
InMissQueue(f) == \E i \in DOMAIN missq : missq[i] = f

-----------------------------------------------------------------------------

Init ==
  /\ status = [f \in Fetches |-> Unborn]
  /\ mtype = [f \in Fetches |-> NewType(f)]
  /\ mshr = [l \in Lines |-> <<>>]
  /\ missq = <<>>
  /\ fail = [f \in Fetches |-> "NONE"]
  /\ aborted = FALSE

(* shader_core_mem_fetch_allocator::alloc: the LDST unit creates a fetch   *)
(* for a global access; its type follows the access's write flag.         *)
alloc(f) ==
  /\ status[f] = Unborn
  /\ Parent[f] = NoFetch /\ Acc[f] \notin WritebackAcc
  /\ Move(f, "MEM_FETCH_INITIALIZED")
  /\ mtype' = [mtype EXCEPT ![f] = NewType(f)]
  /\ UNCHANGED <<mshr, missq, fail, aborted>>

(* partition_mf_allocator::alloc(addr, type, size, wr): the L2 evicts a    *)
(* dirty line and queues a write-back fetch for DRAM.                     *)
L2Evict(f) ==
  /\ status[f] = Unborn
  /\ Parent[f] = NoFetch /\ Acc[f] \in WritebackAcc
  /\ Move(f, "IN_PARTITION_L2_TO_DRAM_QUEUE")
  /\ mtype' = [mtype EXCEPT ![f] = NewType(f)]
  /\ UNCHANGED <<mshr, missq, fail, aborted>>

Fail(f, r) ==
  /\ fail' = [fail EXCEPT ![f] = r]
  /\ UNCHANGED <<status, mtype, mshr, missq, aborted>>

(* Mutant of L1Access: a read miss never probes the MSHR for its line.     *)
L1Access_no_probe(f) ==
  /\ status[f] = "MEM_FETCH_INITIALIZED"
  /\ LET l == Line[f] IN
     IF Len(missq) >= MissQueueSize THEN Fail(f, "MISS_QUEUE_FULL")
     ELSE /\ mshr' = [mshr EXCEPT ![l] = <<f>>]
          /\ missq' = Append(missq, f)
          /\ Move(f, "IN_L1D_MISS_QUEUE")
          /\ UNCHANGED <<mtype, fail, aborted>>

(* Mutant of L1Access: the miss queue is never found full.               *)
L1Access_unbounded(f) ==
  /\ status[f] = "MEM_FETCH_INITIALIZED"
  /\ LET l          == Line[f]
         full       == FALSE
         mshr_hit   == mshr[l] # <<>>
         mshr_avail == IF mshr_hit THEN Len(mshr[l]) < MshrMaxMerge
                       ELSE Cardinality(MshrInUse) < MshrEntries
         send       == /\ missq' = Append(missq, f)
                       /\ Move(f, "IN_L1D_MISS_QUEUE")
                       /\ UNCHANGED <<mtype, fail, aborted>>
     IN IF IsWrite[f]
        THEN IF full THEN Fail(f, "MISS_QUEUE_FULL")
             ELSE send /\ UNCHANGED mshr
        ELSE \/ /\ ~mshr_hit
                /\ Move(f, "IN_SHADER_FETCHED")
                /\ UNCHANGED <<mtype, mshr, missq, fail, aborted>>
             \/ /\ full
                /\ Fail(f, "MISS_QUEUE_FULL")
             \/ /\ ~full /\ mshr_hit /\ mshr_avail
                /\ mshr' = [mshr EXCEPT ![l] = Append(@, f)]
                /\ Move(f, "IN_L1D_MISS_QUEUE")
                /\ UNCHANGED <<mtype, missq, fail, aborted>>
             \/ /\ ~full /\ ~mshr_hit /\ mshr_avail
                /\ mshr' = [mshr EXCEPT ![l] = <<f>>]
                /\ send
             \/ /\ ~full /\ ~mshr_avail
                /\ Fail(f, IF mshr_hit THEN "MSHR_MERGE_ENRTY_FAIL"
                                       ELSE "MSHR_ENRTY_FAIL")

(***************************************************************************)
(* The L1 data cache takes a new fetch (spec 4.4). A write goes to the     *)
(* miss queue (write-through, no allocate). A read either hits, or misses: *)
(* with the miss queue full it fails MISS_QUEUE_FULL; with an entry for    *)
(* its line it merges into the entry if the entry has room and fails      *)
(* MSHR_MERGE_ENRTY_FAIL otherwise; without one it takes a free entry and *)
(* goes to the miss queue, or fails MSHR_ENRTY_FAIL. A failed fetch stays  *)
(* MEM_FETCH_INITIALIZED and retries next cycle.                           *)
(***************************************************************************)
L1Access(f) ==
  /\ status[f] = "MEM_FETCH_INITIALIZED"
  /\ LET l          == Line[f]
         full       == Len(missq) >= MissQueueSize
         mshr_hit   == mshr[l] # <<>>
         mshr_avail == IF mshr_hit THEN Len(mshr[l]) < MshrMaxMerge
                       ELSE Cardinality(MshrInUse) < MshrEntries
         send       == /\ missq' = Append(missq, f)
                       /\ Move(f, "IN_L1D_MISS_QUEUE")
                       /\ UNCHANGED <<mtype, fail, aborted>>
     IN IF IsWrite[f]
        THEN IF full THEN Fail(f, "MISS_QUEUE_FULL")
             ELSE send /\ UNCHANGED mshr
        ELSE \/ /\ ~mshr_hit
                /\ Move(f, "IN_SHADER_FETCHED")
                /\ UNCHANGED <<mtype, mshr, missq, fail, aborted>>
             \/ /\ full
                /\ Fail(f, "MISS_QUEUE_FULL")
             \/ /\ ~full /\ mshr_hit /\ mshr_avail
                /\ mshr' = [mshr EXCEPT ![l] = Append(@, f)]
                /\ Move(f, "IN_L1D_MISS_QUEUE")
                /\ UNCHANGED <<mtype, missq, fail, aborted>>
             \/ /\ ~full /\ ~mshr_hit /\ mshr_avail
                /\ mshr' = [mshr EXCEPT ![l] = <<f>>]
                /\ send
             \/ /\ ~full /\ ~mshr_avail
                /\ Fail(f, IF mshr_hit THEN "MSHR_MERGE_ENRTY_FAIL"
                                       ELSE "MSHR_ENRTY_FAIL")

(* The L1 pushes the head of its miss queue into the interconnect.         *)
IcntPush ==
  /\ missq # <<>>
  /\ Move(Head(missq), "IN_ICNT_TO_MEM")
  /\ missq' = Tail(missq)
  /\ UNCHANGED <<mtype, mshr, fail, aborted>>

(* A fetch makes a step that only changes where it is.                     *)
Transit(f, from, to) ==
  /\ status[f] = from
  /\ Move(f, to)
  /\ UNCHANGED <<mtype, mshr, missq, fail, aborted>>

(***************************************************************************)
(* memory_sub_partition::cache_cycle, the L2 access. A hit is replied to   *)
(* (set_reply) and queued for the interconnect. A miss goes to DRAM, or,   *)
(* if the L2 splits the request into sector fetches, the children are      *)
(* created (partition_mf_allocator::alloc with original_mf = f) and go to  *)
(* DRAM while f waits.                                                     *)
(***************************************************************************)
L2Access(f) ==
  /\ status[f] = "IN_PARTITION_ICNT_TO_L2_QUEUE"
  /\ \/ /\ Reply(f)
        /\ Move(f, "IN_PARTITION_L2_TO_ICNT_QUEUE")
     \/ /\ Children(f) = {}
        /\ Move(f, "IN_PARTITION_L2_TO_DRAM_QUEUE")
        /\ UNCHANGED <<mtype, aborted>>
     \/ /\ Children(f) # {}
        /\ status' = [g \in Fetches |->
                        CASE g = f            -> "IN_PARTITION_L2_MISS_QUEUE"
                          [] g \in Children(f) -> "IN_PARTITION_L2_TO_DRAM_QUEUE"
                          [] OTHER             -> status[g]]
        /\ mtype' = [g \in Fetches |-> IF g \in Children(f) THEN NewType(g)
                                       ELSE mtype[g]]
        /\ UNCHANGED aborted
  /\ UNCHANGED <<mshr, missq, fail>>

(***************************************************************************)
(* memory_partition_unit::dram_cycle: a fetch DRAM returns is deleted if   *)
(* it is a write-back, and otherwise replied to (set_reply) and queued     *)
(* for the L2.                                                             *)
(***************************************************************************)
DramReturn(f) ==
  /\ status[f] = "IN_PARTITION_DRAM"
  /\ IF Acc[f] \in WritebackAcc
     THEN Move(f, "MEM_FETCH_DELETED") /\ UNCHANGED <<mtype, aborted>>
     ELSE Move(f, "IN_PARTITION_DRAM_TO_L2_QUEUE") /\ Reply(f)
  /\ UNCHANGED <<mshr, missq, fail>>

(***************************************************************************)
(* The L2 fill: a sector child fills its sector and is deleted; any other  *)
(* fetch is replied to again (set_reply) as the L2 queues it for the       *)
(* interconnect.                                                           *)
(***************************************************************************)
L2Fill(f) ==
  /\ status[f] = "IN_PARTITION_DRAM_TO_L2_QUEUE"
  /\ IF Parent[f] # NoFetch
     THEN Move(f, "MEM_FETCH_DELETED") /\ UNCHANGED <<mtype, aborted>>
     ELSE Move(f, "IN_PARTITION_L2_TO_ICNT_QUEUE") /\ Reply(f)
  /\ UNCHANGED <<mshr, missq, fail>>

(* The original of a sector split completes once all its children have.  *)
ParentReady(f) ==
  /\ status[f] = "IN_PARTITION_L2_MISS_QUEUE"
  /\ \A c \in Children(f) : status[c] = "MEM_FETCH_DELETED"
  /\ Move(f, "IN_PARTITION_L2_TO_ICNT_QUEUE")
  /\ Reply(f)
  /\ UNCHANGED <<mshr, missq, fail>>

(* Mutant of Respond: the MSHR entry is freed but its waiters not woken.   *)
Respond_head_only(f) ==
  /\ status[f] = "IN_SHADER_LDST_RESPONSE_FIFO"
  /\ LET l == Line[f] IN
     /\ Move(f, "IN_SHADER_FETCHED")
     /\ mshr' = IF mshr[l] # <<>> /\ Head(mshr[l]) = f
                THEN [mshr EXCEPT ![l] = <<>>] ELSE mshr
  /\ UNCHANGED <<mtype, missq, fail, aborted>>

(***************************************************************************)
(* The LDST unit takes a fetch from its response FIFO. If it is the one in *)
(* flight for its MSHR entry, the L1 is filled, the entry is freed and     *)
(* every fetch merged into it moves to the response FIFO too.              *)
(***************************************************************************)
Respond(f) ==
  /\ status[f] = "IN_SHADER_LDST_RESPONSE_FIFO"
  /\ LET l       == Line[f]
         head    == mshr[l] # <<>> /\ Head(mshr[l]) = f
         waiters == IF head THEN {mshr[l][i] : i \in 2..Len(mshr[l])} ELSE {}
     IN /\ status' = [g \in Fetches |->
                        CASE g = f        -> "IN_SHADER_FETCHED"
                          [] g \in waiters -> "IN_SHADER_LDST_RESPONSE_FIFO"
                          [] OTHER         -> status[g]]
        /\ mshr' = IF head THEN [mshr EXCEPT ![l] = <<>>] ELSE mshr
  /\ UNCHANGED <<mtype, missq, fail, aborted>>

(* One fetch's step through the hierarchy, other than its creation.        *)
Step(f) ==
  \/ L1Access(f)
  \/ Transit(f, "IN_PARTITION_L2_TO_DRAM_QUEUE", "IN_PARTITION_DRAM")
  \/ Transit(f, "IN_ICNT_TO_MEM", "IN_PARTITION_ICNT_TO_L2_QUEUE")
  \/ L2Access(f)
  \/ DramReturn(f)
  \/ L2Fill(f)
  \/ ParentReady(f)
  \/ Transit(f, "IN_PARTITION_L2_TO_ICNT_QUEUE", "IN_ICNT_TO_SHADER")
  \/ Transit(f, "IN_ICNT_TO_SHADER", "IN_CLUSTER_TO_SHADER_QUEUE")
  \/ Transit(f, "IN_CLUSTER_TO_SHADER_QUEUE", "IN_SHADER_LDST_RESPONSE_FIFO")
  \/ Respond(f)
  \/ Transit(f, "IN_SHADER_FETCHED", "MEM_FETCH_DELETED")

(* No fetch can move and none is left to create: the memory system idles  *)
(* through the cycles that follow. A fetch left stranded here is caught by *)
(* Conservation.                                                           *)
Idle ==
  /\ \A f \in Fetches : ~ENABLED (alloc(f) \/ L2Evict(f) \/ Step(f))
  /\ ~ENABLED IcntPush
  /\ UNCHANGED vars

Next ==
  \/ \E f \in Fetches : alloc(f) \/ L2Evict(f) \/ Step(f)
  \/ IcntPush
  \/ Idle

(* Every component is cycled every cycle: a fetch that can move, moves.    *)
Spec == Init /\ [][Next]_vars /\ WF_vars(IcntPush)
          /\ \A f \in Fetches : WF_vars(Step(f))

-----------------------------------------------------------------------------

TypeOK ==
  /\ status \in [Fetches -> Statuses \cup {Unborn}]
  /\ mtype \in [Fetches -> MfTypes]
  /\ mshr \in [Lines -> Seq(Fetches)]
  /\ missq \in Seq(Fetches) /\ Len(missq) <= MissQueueSize
  /\ fail \in [Fetches -> FailReasons \cup {"NONE"}]
  /\ aborted \in BOOLEAN

(* Every fetch the partition sends back to the core is a reply of the     *)
(* kind its access asks for (READ_REPLY for a read, WRITE_ACK for a        *)
(* write), although DRAM and the L2 both call set_reply on it.             *)
ReplyMatchesRequest ==
  \A f \in Fetches :
    status[f] \in {"IN_PARTITION_L2_TO_ICNT_QUEUE", "IN_ICNT_TO_SHADER",
                   "IN_CLUSTER_TO_SHADER_QUEUE"}
      => /\ is_reply(mtype[f])
         /\ (mtype[f] = "WRITE_ACK") = IsWrite[f]

(* No assert of set_reply fires: it is never called on a write-back and    *)
(* never on a request whose type disagrees with its write flag.            *)
NoAbort == ~aborted

(* The MSHR keeps at most one request per line in flight: every read below *)
(* the L1 or in the miss queue is the head of its line's MSHR entry.       *)
MshrOneInFlight ==
  \A f \in Fetches :
    /\ Parent[f] = NoFetch /\ ~IsWrite[f]
    /\ status[f] \in BelowL1 \/ InMissQueue(f)
    => mshr[Line[f]] # <<>> /\ Head(mshr[Line[f]]) = f

(* Spec 8.1: every fetch that is created is eventually deleted.            *)
Conservation ==
  \A f \in Fetches : (status[f] # Unborn) ~> (status[f] = "MEM_FETCH_DELETED")

=============================================================================
