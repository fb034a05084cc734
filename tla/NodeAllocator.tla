---------------------------- MODULE NodeAllocator ----------------------------
(****************************************************************************)
(* What the node pool of RAMGNGGraph promises its clients, free of arrays,  *)
(* free lists and growth: node numbers are handed out one at a time, never  *)
(* one that is in use, and the number of nodes is the number of node        *)
(* numbers in use.                                                          *)
(****************************************************************************)
EXTENDS Integers

VARIABLES live,     \* the node numbers in use
          count     \* what get_number_nodes() answers

AInit == live = {} /\ count = 0

\* newNode returns a number that was not in use
Allocate == \E i \in live' : /\ i \notin live
                             /\ live' = live \cup {i}
                             /\ count' = count + 1

\* deleteNode returning true: exactly that number is given back
Release == \E i \in live : /\ live' = live \ {i}
                           /\ count' = count - 1

ASpec == AInit /\ [][Allocate \/ Release]_<<live, count>>
=============================================================================
