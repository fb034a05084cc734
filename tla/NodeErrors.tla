------------------------------ MODULE NodeErrors ------------------------------
(****************************************************************************)
(* The errors of the nodes, every one of them decayed at the end of every   *)
(* round, and the choice of a node to split whose error no other exceeds.   *)
(*                                                                          *)
(* Without m_toggle_lazyheap this is what the code does (increaseError,     *)
(* decreaseAllErrors, LargestErrorNodes).  With it, it is what the lazy     *)
(* heap amounts to if nobody can tell that it puts the decay off.  The two  *)
(* options do not use the same factors: the lazy one decays by m_betha for  *)
(* every input of the round, and a new error for every input still to come. *)
(* The promise of the choice ends with the first deletion of a node: nobody *)
(* tells the heap about it.                                                 *)
(****************************************************************************)
EXTENDS ErrorDecay, FiniteSets

CONSTANTS Numbers, MaxError,
          Distances,       \* the errors an input may add
          m_lambda,        \* inputs per round
          lazyheap         \* m_toggle_lazyheap

VARIABLES live,    \* the nodes
          err,     \* their errors, after all decay
          s,       \* the inputs of this round
          exact    \* no node was ever deleted

evars == <<live, err, s, exact>>

(* How often m_betha is applied to an error when it is added, and to that   *)
(* of n at the end of a round with the nodes S: decreaseAllErrors passes    *)
(* over the nodes existsNode denies.                                        *)
RaisePower == IF lazyheap THEN m_lambda - s ELSE 0
RoundPower(n, S) == CASE lazyheap            -> m_lambda
                      [] ~lazyheap /\ n < Cardinality(S)  -> 1
                      [] ~lazyheap /\ n >= Cardinality(S) -> 0

EInit == /\ live \in SUBSET Numbers
         /\ err \in [live -> 0 .. MaxError]
         /\ s = 0 /\ exact = TRUE

Raise(n, by) ==
    /\ n \in live /\ s < m_lambda
    /\ err' = [err EXCEPT ![n] = @ + Faded(by, RaisePower)]
    /\ s' = s + 1
    /\ UNCHANGED <<live, exact>>

Remove(n) ==
    /\ n \in live
    /\ live' = live \ {n}
    /\ err' = [m \in live' |-> err[m]]
    /\ exact' = FALSE
    /\ UNCHANGED s

EndOfRound == s = m_lambda /\ s' = 0

(* The node q of largest error and a neighbour f of it make room for c, and *)
(* the round ends.                                                          *)
Largest(q) == \A n \in live : err[n] <= err[q]

Split(q, f, c) ==
    LET split == [n \in {q, f} |-> Alpha(err[n])]
    IN  /\ exact => Largest(q)
        /\ q # f
        /\ live' = live \cup {c}
        /\ err' = [n \in live' |->
                     Faded(CASE n = c -> Mean(split[q], split[f])
                             [] n \in {q, f} -> split[n]
                             [] OTHER -> err[n], RoundPower(n, live'))]
        /\ EndOfRound
        /\ UNCHANGED exact

(* A round that finds the network full. *)
Decay ==
    /\ err' = [n \in live |-> Faded(err[n], RoundPower(n, live))]
    /\ EndOfRound
    /\ UNCHANGED <<live, exact>>

ENext == \/ \E n \in live, by \in Distances : Raise(n, by)
         \/ \E n \in live : Remove(n)
         \/ \E q, f \in live, c \in Numbers \ live : Split(q, f, c)
         \/ Decay

ESpec == EInit /\ [][ENext]_evars
===============================================================================
