---------------------------- MODULE MCOrderRows ----------------------------
(***************************************************************************)
(* An instance of OrderRows: all orders go to courier c1, and two pods     *)
(* share the goroutines.                                                   *)
(***************************************************************************)
EXTENDS OrderRows

CONSTANTS c1, p1, p2, w1

MCCourierOf == [o \in Orders |-> c1]
MCAnswers == [o \in Orders |-> {2, 8}]
MCPodOf == [w \in Workers |-> IF w = w1 THEN p1 ELSE p2]
=============================================================================
