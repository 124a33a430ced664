----------------------------- MODULE MCRowLocks -----------------------------
(***************************************************************************)
(* An instance of RowLocks: two orders of one customer at one restaurant,  *)
(* both for the same courier, and two pods of which one has two goroutines.*)
(***************************************************************************)
EXTENDS RowLocks

CONSTANTS c1, pizza, agent, p1, p2, w3

MCCourierOf == [o \in Orders |-> c1]
MCAnswers == [o \in Orders |-> {2, 8}]
MCRestaurantOf == [o \in Orders |-> pizza]
MCCustomerOf == [o \in Orders |-> agent]
MCPodOf == [w \in Workers |-> IF w = w3 THEN p2 ELSE p1]

\* Both orders are alike, and so are the workers of the first pod; all
\* properties are invariants.
MCSymmetry == Permutations(Orders) \cup Permutations(Goroutines(p1))
=============================================================================
