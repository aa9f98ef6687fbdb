------------------------------- MODULE AnyNet -------------------------------
(***************************************************************************)
(* The anynet topology of intersim2 (networks/anynet.cpp): readFile parses *)
(* the network file into router_list[NODE] (router -> attached node ->     *)
(* <<port, latency>>) and router_list[ROUTER] (router -> neighbour router  *)
(* -> <<port, latency>>) and node_list (node -> router); _BuildNet numbers *)
(* the output ports of every router; buildRoutingTable runs route(r), a    *)
(* Dijkstra, from every router and records, per destination node, the      *)
(* output port of the first hop.                                           *)
(*                                                                         *)
(* The file is a sequence of lines, each a sequence of tokens. A token is  *)
(* [word, num]: its text if that is "router" or "node" (else ""), and the  *)
(* number atoi reads from it (0 for a word). Splitting a line at blanks is *)
(* abstracted: tokens are given already split.                             *)
(***************************************************************************)
EXTENDS Integers, Sequences, FiniteSets, TLC

CONSTANTS
  Files     (* The network files the simulator may be given: records      *)
            (* [lines, adj, att, nlat]: the lines, each a sequence of      *)
            (* tokens, and the topology they are meant to declare: router  *)
            (* -> neighbour -> latency, node -> router, node latency.      *)

VARIABLES
  file,          (* the network file being read                            *)
  node_list,     (* node -> router it is attached to                       *)
  router_list,   (* [NODE |-> ..., ROUTER |-> ...] as described above      *)
  size,          (* _size: number of routers                               *)
  r_start,       (* route(r_start) is running                              *)
  dist, prev,    (* route's arrays, indexed 0.._size-1                     *)
  rlist,         (* route's set of unvisited routers                       *)
  routing_table, (* router -> destination node -> output port              *)
  pc             (* "build", "route", "done", "aborted" (an assert fired), *)
                 (* "ub" (an index out of range) or "hung" (route() loops) *)

vars == <<file, node_list, router_list, size, r_start, dist, prev, rlist,
          routing_table, pc>>

IntMax == 2147483647     (* std::numeric_limits<int>::max()               *)

EmptyMap == [x \in {} |-> 0]

(* m[k] of a std::map through operator[]: inserts a default entry.        *)
Ensure(m, k, default) == IF k \in DOMAIN m THEN m ELSE (k :> default) @@ m

(* m[a][b] = e for an existing m[a].                                       *)
Put2(m, a, b, e) == (a :> ((b :> e) @@ m[a])) @@ m

Atoi(tok) == tok.num

IsType(tok) == tok.word \in {"router", "node"}
TypeOf(tok) == IF tok.word = "router" THEN "ROUTER" ELSE "NODE"

(* Ordered position of k among the keys of a map (std::map iteration).     *)
Rank(k, S) == Cardinality({x \in S : x < k})

-----------------------------------------------------------------------------
(***************************************************************************)
(* readFile: one token through the parse state machine of a line. The     *)
(* state is [st, ht, hid, bt, bid, nl, rl, err]; err records an            *)
(* assert(false).                                                          *)
(***************************************************************************)
BodyType(s, tok) ==
  IF IsType(tok) THEN [s EXCEPT !.bt = TypeOf(tok), !.st = "BODY_ID"]
  ELSE [s EXCEPT !.err = TRUE]

(* Both router_list maps get an (empty) entry for a router id.             *)
EnsureRouter(rl, id) ==
  [NODE |-> Ensure(rl.NODE, id, EmptyMap), ROUTER |-> Ensure(rl.ROUTER, id, EmptyMap)]

(* Mutant of Connect: a router link is recorded in one direction only.    *)
Connect_one_way(s, id) ==
  LET rl == IF s.bt = "ROUTER" THEN EnsureRouter(s.rl, id) ELSE s.rl
      fresh == [port |-> -1, lat |-> 1]
  IN CASE s.ht = "NODE" /\ s.bt = "NODE" -> [s EXCEPT !.err = TRUE]
       [] s.ht = "NODE" /\ s.bt = "ROUTER" ->
            [s EXCEPT !.bid = id, !.st = "LINK_WEIGHT", !.nl = (s.hid :> id) @@ s.nl,
                      !.rl = [rl EXCEPT !.NODE = Put2(rl.NODE, id, s.hid, fresh)]]
       [] s.ht = "ROUTER" /\ s.bt = "NODE" ->
            [s EXCEPT !.bid = id, !.st = "LINK_WEIGHT", !.nl = (id :> s.hid) @@ s.nl,
                      !.rl = [rl EXCEPT !.NODE = Put2(rl.NODE, s.hid, id, fresh)]]
       [] OTHER ->
            [s EXCEPT !.bid = id, !.st = "LINK_WEIGHT",
                      !.rl = [rl EXCEPT !.ROUTER = Put2(rl.ROUTER, s.hid, id, fresh)]]

Connect(s, id) ==
  LET rl == IF s.bt = "ROUTER" THEN EnsureRouter(s.rl, id) ELSE s.rl
      fresh == [port |-> -1, lat |-> 1]
  IN CASE s.ht = "NODE" /\ s.bt = "NODE" -> [s EXCEPT !.err = TRUE]
       [] s.ht = "NODE" /\ s.bt = "ROUTER" ->
            IF s.hid \in DOMAIN s.nl /\ s.nl[s.hid] # id THEN [s EXCEPT !.err = TRUE]
            ELSE [s EXCEPT !.bid = id, !.st = "LINK_WEIGHT",
                           !.nl = (s.hid :> id) @@ s.nl,
                           !.rl = [rl EXCEPT !.NODE = Put2(rl.NODE, id, s.hid, fresh)]]
       [] s.ht = "ROUTER" /\ s.bt = "NODE" ->
            IF id \in DOMAIN s.nl /\ s.nl[id] # s.hid THEN [s EXCEPT !.err = TRUE]
            ELSE [s EXCEPT !.bid = id, !.st = "LINK_WEIGHT",
                           !.nl = (id :> s.hid) @@ s.nl,
                           !.rl = [rl EXCEPT !.NODE = Put2(rl.NODE, s.hid, id, fresh)]]
       [] OTHER ->
            LET fwd == Put2(rl.ROUTER, s.hid, id, fresh)
                both == IF s.hid \in DOMAIN fwd[id] THEN fwd
                        ELSE Put2(fwd, id, s.hid, fresh)
            IN [s EXCEPT !.bid = id, !.st = "LINK_WEIGHT",
                         !.rl = [rl EXCEPT !.ROUTER = both]]

(* A weight sets router_list[head_type][head_id][body_id].second, making  *)
(* the entry (port 0) if it is absent.                                     *)
SetWeight(s, w) ==
  LET m   == s.rl[s.ht]
      old == IF s.bid \in DOMAIN m[s.hid] THEN m[s.hid][s.bid]
             ELSE [port |-> 0, lat |-> 0]
  IN [s EXCEPT !.rl[s.ht] = Put2(m, s.hid, s.bid, [old EXCEPT !.lat = w])]

ParseToken(s, tok) ==
  IF s.err THEN s
  ELSE CASE s.st = "HEAD_TYPE" ->
              IF IsType(tok) THEN [s EXCEPT !.ht = TypeOf(tok), !.st = "HEAD_ID"]
              ELSE [s EXCEPT !.err = TRUE]
         [] s.st = "HEAD_ID" ->
              [s EXCEPT !.hid = Atoi(tok), !.st = "BODY_TYPE",
                        !.rl = EnsureRouter(s.rl, Atoi(tok))]
         [] s.st = "LINK_WEIGHT" ->
              IF IsType(tok) THEN BodyType(s, tok) ELSE SetWeight(s, Atoi(tok))
         [] s.st = "BODY_TYPE" -> BodyType(s, tok)
         [] OTHER -> Connect(s, Atoi(tok))

RECURSIVE ParseLine(_, _, _)
ParseLine(s, line, i) ==
  IF i > Len(line) THEN s ELSE ParseLine(ParseToken(s, line[i]), line, i + 1)

RECURSIVE ParseLines(_, _, _)
ParseLines(s, lines, i) ==
  IF i > Len(lines) THEN s
  ELSE ParseLines(ParseLine([s EXCEPT !.st = "HEAD_TYPE"], lines[i], 1),
                  lines, i + 1)

(* readFile, with its closing check that node ids are 0..n-1.             *)
readFile(lines) ==
  LET s == ParseLines([st |-> "HEAD_TYPE", ht |-> "NODE", hid |-> -1,
                       bt |-> "NODE", bid |-> -1, nl |-> EmptyMap,
                       rl |-> [NODE |-> EmptyMap, ROUTER |-> EmptyMap],
                       err |-> FALSE], lines, 1)
  IN [s EXCEPT !.err = @ \/ DOMAIN s.nl # 0..(Cardinality(DOMAIN s.nl) - 1)]

-----------------------------------------------------------------------------
(* Mutants of BuildPorts: the ports are left unassigned (-1); router      *)
(* links are numbered from 0 as if the router had no nodes.                *)
BuildPorts_unnumbered(rl) == rl

BuildPorts_no_offset(rl) ==
  [NODE   |-> [r \in DOMAIN rl.NODE |->
                 [n \in DOMAIN rl.NODE[r] |->
                    [rl.NODE[r][n] EXCEPT !.port = Rank(n, DOMAIN rl.NODE[r])]]],
   ROUTER |-> [r \in DOMAIN rl.ROUTER |->
                 [m \in DOMAIN rl.ROUTER[r] |->
                    [rl.ROUTER[r][m] EXCEPT !.port = Rank(m, DOMAIN rl.ROUTER[r])]]]]

(***************************************************************************)
(* _BuildNet: every router numbers its output ports from 0, first the      *)
(* ejection channels of its nodes, then its router links, each in key      *)
(* order; the numbers are stored in the .first of the entries.             *)
(***************************************************************************)
BuildPorts(rl) ==
  [NODE   |-> [r \in DOMAIN rl.NODE |->
                 [n \in DOMAIN rl.NODE[r] |->
                    [rl.NODE[r][n] EXCEPT !.port = Rank(n, DOMAIN rl.NODE[r])]]],
   ROUTER |-> [r \in DOMAIN rl.ROUTER |->
                 [m \in DOMAIN rl.ROUTER[r] |->
                    [rl.ROUTER[r][m] EXCEPT !.port =
                       Cardinality(DOMAIN rl.NODE[r]) + Rank(m, DOMAIN rl.ROUTER[r])]]]]

(* _routers, outport and dist are arrays of _size: every router id, and   *)
(* every router a link leads to, must be below _size.                      *)
RouterIdsInRange(rl) ==
  LET n == Cardinality(DOMAIN rl.ROUTER)
  IN /\ DOMAIN rl.ROUTER = 0..(n - 1)
     /\ \A r \in DOMAIN rl.ROUTER : DOMAIN rl.ROUTER[r] \subseteq 0..(n - 1)

Links(r) == router_list.ROUTER[r]

(* route's "find min": the first unvisited router of least finite distance *)
(* or -1 when every unvisited router is at distance INT_MAX.               *)
MinCand ==
  LET fin == {i \in rlist : dist[i] < IntMax}
  IN IF fin = {} THEN -1
     ELSE CHOOSE i \in fin : \A j \in fin : dist[i] < dist[j] \/ (dist[i] = dist[j] /\ i <= j)

(* The post-processing walk back along prev from router i to the first    *)
(* hop after r_start: the while loop of route(). Returns -1 where its      *)
(* assert fires, and Hang where it never ends: prev maps _size routers, so *)
(* a walk not back at r_start after _size steps has entered a prev cycle,  *)
(* which it follows for ever. k counts the steps left.                     *)
Hang == -3

RECURSIVE FirstHop(_, _)
FirstHop(nb, k) ==
  IF prev[nb] = r_start THEN nb
  ELSE IF prev[nb] \notin DOMAIN Links(nb) THEN -1
  ELSE IF k = 0 THEN Hang
  ELSE FirstHop(prev[nb], k - 1)

(* What route(r_start)'s post-processing does for router i: the table     *)
(* entries it writes for i's nodes, and whether it goes on ("ok"), fails   *)
(* an assert ("aborted") or loops ("hung").                                *)
PostFor(i) ==
  LET nb == IF prev[i] = -1 THEN i ELSE FirstHop(i, size)
      outcome ==
        CASE prev[i] = -1 -> IF i = r_start THEN "ok" ELSE "aborted"
          [] nb = Hang    -> "hung"
          [] nb = -1 \/ nb \notin DOMAIN Links(r_start) -> "aborted"
          [] OTHER        -> "ok"
      port(n) == IF prev[i] = -1 THEN router_list.NODE[i][n].port
                 ELSE Links(r_start)[nb].port
  IN [outcome |-> outcome,
      row |-> IF outcome = "ok" THEN [n \in DOMAIN router_list.NODE[i] |-> port(n)]
              ELSE EmptyMap]

-----------------------------------------------------------------------------

(* The constructor has run _ComputeSize: readFile, then _size.            *)
Init ==
  /\ file \in Files
  /\ LET s == readFile(file.lines)
     IN /\ node_list = s.nl
        /\ router_list = s.rl
        /\ size = Cardinality(DOMAIN s.rl.ROUTER)
        /\ pc = IF s.err THEN "aborted" ELSE "build"
  /\ r_start = 0
  /\ dist = EmptyMap
  /\ prev = EmptyMap
  /\ rlist = {}
  /\ routing_table = EmptyMap

(* _BuildNet up to buildRoutingTable: port numbers, the routing table     *)
(* sized _size, and route(0) begins.                                       *)
BuildNet ==
  /\ pc = "build"
  /\ IF RouterIdsInRange(router_list)
     THEN /\ router_list' = BuildPorts(router_list)
          /\ routing_table' = [r \in 0..(size - 1) |-> EmptyMap]
          /\ pc' = "route"
     ELSE /\ pc' = "ub"
          /\ UNCHANGED <<router_list, routing_table>>
  /\ r_start' = 0
  /\ dist' = [i \in 0..(size - 1) |-> IF i = 0 THEN 0 ELSE IntMax]
  /\ prev' = [i \in 0..(size - 1) |-> -1]
  /\ rlist' = 0..(size - 1)
  /\ UNCHANGED <<file, node_list, size>>

(* Mutant of RouteStep: the visited router is not erased from rlist.      *)
RouteStep_no_erase ==
  /\ pc = "route"
  /\ rlist # {}
  /\ LET m == MinCand
         better == IF m = -1 THEN {}
                   ELSE {j \in DOMAIN Links(m) : dist[m] + Links(m)[j].lat < dist[j]}
     IN /\ dist' = [j \in DOMAIN dist |->
                      IF j \in better THEN dist[m] + Links(m)[j].lat ELSE dist[j]]
        /\ prev' = [j \in DOMAIN prev |-> IF j \in better THEN m ELSE prev[j]]
        /\ router_list' = [router_list EXCEPT !.ROUTER = Ensure(@, m, EmptyMap)]
  /\ UNCHANGED <<file, node_list, size, r_start, routing_table, pc, rlist>>

(* One iteration of route's while loop: take the nearest unvisited router *)
(* and relax its links. With no candidate, rlist.erase(-1) erases nothing  *)
(* and router_list[1][-1] inserts an empty map.                            *)
RouteStep ==
  /\ pc = "route"
  /\ rlist # {}
  /\ LET m == MinCand
         better == IF m = -1 THEN {}
                   ELSE {j \in DOMAIN Links(m) : dist[m] + Links(m)[j].lat < dist[j]}
     IN /\ rlist' = rlist \ {m}
        /\ dist' = [j \in DOMAIN dist |->
                      IF j \in better THEN dist[m] + Links(m)[j].lat ELSE dist[j]]
        /\ prev' = [j \in DOMAIN prev |-> IF j \in better THEN m ELSE prev[j]]
        /\ router_list' = [router_list EXCEPT !.ROUTER = Ensure(@, m, EmptyMap)]
  /\ UNCHANGED <<file, node_list, size, r_start, routing_table, pc>>

(* route's post-processing for r_start, then route(r_start + 1). It visits *)
(* the routers in order, so the first router whose walk fails decides how  *)
(* the constructor ends.                                                   *)
RoutePost ==
  /\ pc = "route"
  /\ rlist = {}
  /\ LET entries == [i \in 0..(size - 1) |-> PostFor(i)]
         bad == {i \in 0..(size - 1) : entries[i].outcome # "ok"}
         row == [n \in UNION {DOMAIN router_list.NODE[i] : i \in 0..(size - 1)} |->
                   LET i == CHOOSE i \in 0..(size - 1) : n \in DOMAIN router_list.NODE[i]
                   IN entries[i].row[n]]
         next == r_start + 1
     IN IF bad # {}
        THEN /\ pc' = entries[CHOOSE i \in bad : \A j \in bad : i <= j].outcome
             /\ UNCHANGED <<routing_table, r_start, dist, prev, rlist>>
        ELSE /\ routing_table' = [routing_table EXCEPT ![r_start] = row]
             /\ IF next < size
                THEN /\ r_start' = next
                     /\ dist' = [i \in 0..(size - 1) |-> IF i = next THEN 0 ELSE IntMax]
                     /\ prev' = [i \in 0..(size - 1) |-> -1]
                     /\ rlist' = 0..(size - 1)
                     /\ pc' = "route"
                ELSE /\ pc' = "done"
                     /\ UNCHANGED <<r_start, dist, prev, rlist>>
  /\ UNCHANGED <<file, node_list, router_list, size>>

(* The simulator runs on once the network is built; a hung post-processing *)
(* loop spins for ever.                                                    *)
Done == pc \in {"done", "aborted", "ub", "hung"} /\ UNCHANGED vars

Next == BuildNet \/ RouteStep \/ RoutePost \/ Done

(* The constructor runs to its end unless it loops.                        *)
Spec == Init /\ [][Next]_vars /\ WF_vars(BuildNet \/ RouteStep \/ RoutePost)
-----------------------------------------------------------------------------

Entry == [port : Int, lat : Int]

TypeOK ==
  /\ node_list \in [DOMAIN node_list -> Nat]
  /\ \A t \in {"NODE", "ROUTER"} : \A r \in DOMAIN router_list[t] :
       router_list[t][r] \in [DOMAIN router_list[t][r] -> Entry]
  /\ size \in Nat
  /\ r_start \in Nat
  /\ dist \in [DOMAIN dist -> Int]
  /\ prev \in [DOMAIN prev -> Int]
  /\ rlist \subseteq Nat
  /\ pc \in {"build", "route", "done", "aborted", "ub", "hung"}
  /\ \A r \in DOMAIN routing_table : routing_table[r] \in [DOMAIN routing_table[r] -> Nat]

(* Reference shortest distance from router a to router t over at most k   *)
(* links (Bellman-Ford), IntMax when there is no such path.               *)
RECURSIVE ShortestDist(_, _, _)
ShortestDist(k, a, t) ==
  IF a = t THEN 0
  ELSE IF k = 0 THEN IntMax
  ELSE LET via == {Links(a)[m].lat + ShortestDist(k - 1, m, t) :
                     m \in {x \in DOMAIN Links(a) : ShortestDist(k - 1, x, t) < IntMax}}
       IN IF via = {} THEN IntMax ELSE CHOOSE d \in via : \A e \in via : d <= e

(* The output channel behind port p of router r: _BuildNet adds the       *)
(* ejection channels of r's nodes, then its router links, each in key      *)
(* order, with AddOutputChannel, and a router's port p is its p-th output. *)
Channel(r, p) ==
  LET ns == DOMAIN router_list.NODE[r]
      ms == DOMAIN Links(r)
  IN IF p \in 0..(Cardinality(ns) - 1)
     THEN [node |-> TRUE, id |-> CHOOSE n \in ns : Rank(n, ns) = p]
     ELSE IF p - Cardinality(ns) \in 0..(Cardinality(ms) - 1)
     THEN [node |-> FALSE, id |-> CHOOSE m \in ms : Rank(m, ms) = p - Cardinality(ns)]
     ELSE [node |-> FALSE, id |-> -1]

(* min_anynet for a flit to node dest at router r after injection: the    *)
(* output port routing_table[r][dest], once its assert that there is an    *)
(* entry holds (-1 stands for the failed assert). The VC range it picks by *)
(* flit type does not change the port.                                     *)
min_anynet(r, dest) ==
  IF dest \in DOMAIN routing_table[r] THEN routing_table[r][dest] ELSE -1

(* Latency of the path a flit to node n takes from router r by following  *)
(* routing_table hop by hop, or -1 if it is not ejected at n within the   *)
(* given number of router-to-router hops.                                  *)
RECURSIVE Follow(_, _, _)
Follow(r, n, hops) ==
  IF min_anynet(r, n) = -1 THEN -1
  ELSE LET ch == Channel(r, min_anynet(r, n))
       IN IF ch.node THEN (IF ch.id = n THEN 0 ELSE -1)
          ELSE IF hops = 0 \/ ch.id = -1 THEN -1
          ELSE LET rest == Follow(ch.id, n, hops - 1)
               IN IF rest = -1 THEN -1 ELSE Links(r)[ch.id].lat + rest

(* Spec 8.5, routing correctness: once the routing tables are built, the  *)
(* path from every router to every node, following routing_table, ejects  *)
(* at the node's router in fewer than _size hops, and its total link      *)
(* latency is the shortest distance (route() and the port numbering of    *)
(* _BuildNet agree).                                                       *)
RoutingCorrect ==
  pc = "done" =>
    \A r \in 0..(size - 1), n \in DOMAIN node_list :
      Follow(r, n, size - 1) = ShortestDist(size - 1, r, node_list[n])

(* readFile builds the topology the file declares, as the format comment  *)
(* at the head of anynet.cpp describes it: the router links with their    *)
(* latencies (a link declared one way has latency 1 the other way unless  *)
(* that way is declared too), and the node attachments with the latency   *)
(* written after the node (1 if none).                                     *)
ParseFaithful ==
  pc = "build" =>
    /\ [r \in DOMAIN router_list.ROUTER |->
          [m \in DOMAIN Links(r) |-> Links(r)[m].lat]] = file.adj
    /\ node_list = file.att
    /\ \A r \in DOMAIN router_list.NODE :
         /\ DOMAIN router_list.NODE[r] = {n \in DOMAIN file.att : file.att[n] = r}
         /\ \A n \in DOMAIN router_list.NODE[r] : router_list.NODE[r][n].lat = file.nlat

(* The constructor ends: every route() terminates.                        *)
Termination == <>(pc = "done")

=============================================================================
