----------------------------- MODULE MCDispatch -----------------------------
(***************************************************************************)
(* One restaurant with one kitchen, one or two couriers: the constants of  *)
(* the safety and liveness instances of Dispatch.                          *)
(***************************************************************************)
EXTENDS Dispatch, TLC

CONSTANTS pizza, k1, c1, c2

MCRestaurantOf == [o \in Orders |-> pizza]
MCServedBy == [k \in {k1} |-> pizza]
CourierSymmetry == Permutations({c1, c2}) \cup Permutations(Orders)
=============================================================================
