---------------------------- MODULE MCReadModel ----------------------------
(***************************************************************************)
(* An instance of ReadModel: one order-worker pod; order o1 is accepted    *)
(* and goes to courier c1, the others are rejected; the clocks run on      *)
(* together, so that each order is updated before, between and after the   *)
(* stages of another one.                                                  *)
(***************************************************************************)
EXTENDS ReadModel

CONSTANTS c1, p1, o1

MCCourierOf == [o \in Orders |-> c1]
MCAnswers == [o \in Orders |-> IF o = o1 THEN {2} ELSE {8}]
MCPodOf == [w \in Workers |-> p1]
MCUpdatedAt == [<<o, i>> \in Orders \X (1..8) |-> 2 * i + (IF o = o1 THEN 0 ELSE 1)]
=============================================================================
