------------------------ MODULE AdaptationRefinement ------------------------
(****************************************************************************)
(* GNGAdaptation implements NeuralGas.  The edge loop of adapt changes the  *)
(* graph one edge at a time; the history variable `before' keeps the        *)
(* network as it was when the loop began, so that the whole call counts as  *)
(* one step, taken when the loop ends, and names the neurons it was for.    *)
(****************************************************************************)
EXTENDS GNGAdaptation

VARIABLE before

(* The network held in the slots. *)
EdgeSet == UNION {{{a, g[a].edges[k].nr} : k \in DOMAIN g[a].edges} : a \in Occupied}

AgeOf(e) ==
    LET a == CHOOSE x \in e : TRUE
        b == CHOOSE x \in e : x # a
    IN  g[a].edges[EdgeTo(g[a].edges, b)].age

Network(last) ==
    [V |-> Occupied, age |-> [e \in EdgeSet |-> AgeOf(e)], last |-> last]

LastInput == IF pc = "scan" THEN <<winner, second>> ELSE before.last

HInit == Init /\ before = Network(<<>>)

Remember == \E last \in {LastInput} :
                before' = IF pc' = "scan" THEN before ELSE Network(last)'

HNext == Next /\ Remember

HSpec == HInit /\ [][HNext]_<<vars, before>> /\ WF_<<vars, before>>(Step /\ Remember)

NG == INSTANCE NeuralGas WITH V <- before.V, age <- before.age, last <- before.last

(* Every adapt call, whatever order the loop meets, erases and deletes in,  *)
(* has the effect of one input on the network; addNewNode splits one edge;  *)
(* no node with an edge is ever deleted.                                    *)
ImplementsNeuralGas == NG!NGSpec
=============================================================================
