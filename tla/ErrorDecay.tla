------------------------------ MODULE ErrorDecay ------------------------------
(****************************************************************************)
(* The factors the errors of the nodes are multiplied by.  Errors are small *)
(* naturals, rounded down; m_betha is 3/4 and m_alpha 1/2.                  *)
(****************************************************************************)
EXTENDS Integers

Betha(e) == (3 * e) \div 4

(* e times the k-th power of m_betha: the tables m_betha_powers, whose      *)
(* exponents are inputs, and m_betha_powers_to_n, whose exponents are       *)
(* m_lambda inputs for every round.                                         *)
Faded(e, k) ==
    LET after[x \in Nat \X Nat] ==   \* the error and the factors still to apply
          IF x[2] = 0 THEN x[1] ELSE after[<<Betha(x[1]), x[2] - 1>>]
    IN  after[<<e, k>>]

Alpha(e) == e \div 2

Mean(d, e) == (d + e) \div 2
===============================================================================
