---------------------------- MODULE MCProjection ----------------------------
(***************************************************************************)
(* A small instance of Projection: two pods, one with the two goroutines   *)
(* of the deployment and one with a single one, an event published twice   *)
(* and an event whose payload does not decode.                             *)
(***************************************************************************)
EXTENDS Projection, TLC

CONSTANTS p1, p2, w1, w2, w3, m1, m2, m3, e1, e2

MCPodOf == (w1 :> p1) @@ (w2 :> p1) @@ (w3 :> p2)

MCEventOf == (m1 :> e1) @@ (m2 :> e1) @@ (m3 :> e2)
=============================================================================
