------------------------------ MODULE NeuralGas ------------------------------
(****************************************************************************)
(* The network that GNGAlgorithm is meant to maintain, with no storage in   *)
(* it: a set of nodes and a set of undirected aged edges.  An input changes *)
(* the network in one step; a new node always splits an existing edge; a    *)
(* node leaves the network only when it has no edge left or, with the       *)
(* utility option, together with its edges from a large enough network.     *)
(****************************************************************************)
EXTENDS Integers, FiniteSets

CONSTANTS MaxAge, MaxNodes, UtilityOptions, MinimumNodes

VARIABLES V,    \* the nodes
          age,  \* the age of every edge {a, b}; its domain is the edge set
          last, \* the two nearest nodes of the last input
          utility_option

Isolated(n, edges) == \A e \in edges : n \notin e

NGInit == /\ V = {} /\ age = [e \in {} |-> 0] /\ last = <<>>
          /\ utility_option \in UtilityOptions

\* the two starting nodes
Seed == /\ Cardinality(V) < 2
        /\ \E c \in V' : c \notin V /\ V' = V \cup {c}
        /\ UNCHANGED <<age, last>>

(* One input whose nearest nodes are w and v: {w, v} is linked or made      *)
(* young again, the other edges of w get older and those past the maximum   *)
(* age go.  Only neighbours of w left alone by that may go with them; with  *)
(* the utility option they stay, and one node may be retired.               *)
Input(w, v) ==
    LET linked   == DOMAIN age \cup {{w, v}}
        older(e) == IF e = {w, v} THEN 0
                    ELSE IF w \in e THEN age[e] + 1 ELSE age[e]
        kept     == {e \in linked : older(e) <= MaxAge}
    IN  /\ V' \subseteq V
        /\ age' = [e \in {d \in kept : d \subseteq V'} |-> older(e)]
        /\ \/ /\ utility_option = "None"
              /\ \A n \in V \ V' : Isolated(n, kept) /\ {w, n} \in linked \ kept
           \/ /\ utility_option = "BasicUtility"
              /\ \E n \in V : V \ V' \subseteq {n}
              /\ V' # V => Cardinality(V) >= MinimumNodes
        /\ last' = <<w, v>>

\* a new node c takes the place of the edge {q, f}
Split(q, f) ==
    /\ Cardinality(V) < MaxNodes
    /\ {q, f} \in DOMAIN age
    /\ \E c \in V' \ V :
          /\ V' = V \cup {c}
          /\ age' = [e \in (DOMAIN age \ {{q, f}}) \cup {{q, c}, {c, f}} |->
                        IF c \in e THEN 0 ELSE age[e]]
    /\ UNCHANGED last

Discard(n) == /\ Isolated(n, DOMAIN age)
              /\ V' = V \ {n}
              /\ UNCHANGED <<age, last>>

NGNext == /\ \/ Seed
             \/ \E w, v \in V : w # v /\ (Input(w, v) \/ Split(w, v))
             \/ \E n \in V : Discard(n)
          /\ UNCHANGED utility_option

NGSpec == NGInit /\ [][NGNext]_<<V, age, last, utility_option>>
=============================================================================
