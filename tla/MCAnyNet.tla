------------------------------ MODULE MCAnyNet ------------------------------
(***************************************************************************)
(* Network files for AnyNet: three routers, two nodes. Every file declares *)
(* each link once, from its lower router, with a latency (1 is left to the *)
(* default), and attaches each node to a router.                           *)
(***************************************************************************)
EXTENDS AnyNet

Rs == 0..2
Ns == 0..1
Pairs == {<<0, 1>>, <<0, 2>>, <<1, 2>>}

R == [word |-> "router", num |-> 0]
N == [word |-> "node", num |-> 0]
Num(n) == [word |-> "", num |-> n]

(* A topology's links: W maps each declared pair <<a, b>>, a < b, to the  *)
(* latency written for a -> b.                                             *)
Weights(Lats) ==
  UNION {[E -> Lats] : E \in {E \in SUBSET Pairs : Cardinality(E) >= 2}}

(* The tokens declaring the link a -> b, if there is one: "router b", its *)
(* latency 1 left to the default, or "router b w".                         *)
LinkToks(a, b, W) ==
  CASE <<a, b>> \notin DOMAIN W -> <<>>
    [] W[<<a, b>>] = 1 -> <<R, Num(b)>>
    [] OTHER -> <<R, Num(b), Num(W[<<a, b>>])>>

(* One line per router: its links to higher routers, then its nodes,      *)
(* each node written "node n" or, with nodeW, "node n 2".                  *)
RouterLine(r, W, att, nodeW) ==
  <<R, Num(r)>>
  \o (IF r < 1 THEN LinkToks(r, 1, W) ELSE <<>>)
  \o (IF r < 2 THEN LinkToks(r, 2, W) ELSE <<>>)
  \o (IF att[0] = r THEN <<N, Num(0)>> \o nodeW ELSE <<>>)
  \o (IF att[1] = r THEN <<N, Num(1)>> \o nodeW ELSE <<>>)

Adj(W) ==
  [r \in Rs |-> [m \in {x \in Rs : <<r, x>> \in DOMAIN W \/ <<x, r>> \in DOMAIN W} |->
                   IF <<r, m>> \in DOMAIN W THEN W[<<r, m>>] ELSE 1]]

FileOf(W, att, nodeW) ==
  [lines |-> [r \in 1..3 |-> RouterLine(r - 1, W, att, nodeW)],
   adj |-> Adj(W), att |-> att, nlat |-> IF nodeW = <<>> THEN 1 ELSE nodeW[1].num]

(* Connected topologies in the format readFile documents, with latencies  *)
(* 1 and 3, and 0, which atoi also returns for a mistyped number.          *)
MCFiles ==
  {FileOf(W, att, <<>>) : W \in Weights({0, 1, 3}), att \in [Ns -> Rs]}

(* The same files with a latency written after each node.                  *)
MCFilesNodeLatency ==
  {FileOf(W, att, <<Num(2)>>) : W \in Weights({1, 3}), att \in [Ns -> Rs]}

(* Connected topologies in which one link has a negative latency, which   *)
(* atoi reads from "-5" and readFile stores unchecked.                     *)
MCFilesNegative ==
  {FileOf(W, att, <<>>) : W \in {W \in Weights({1, 3, -5}) : \E p \in DOMAIN W : W[p] < 0},
                          att \in [Ns -> Rs]}

(* Routers 0 and 1 linked, nodes 0..2 declared by "node n router r" lines. *)
MCFilesNodeHeaded ==
  {[lines |-> <<<<R, Num(0), R, Num(1)>>,
                <<N, Num(0), R, Num(a[0])>>,
                <<N, Num(1), R, Num(a[1])>>,
                <<N, Num(2), R, Num(a[2])>>>>,
    adj |-> [r \in 0..1 |-> [m \in {1 - r} |-> 1]], att |-> a, nlat |-> 1] :
     a \in [0..2 -> 0..1]}

=============================================================================
