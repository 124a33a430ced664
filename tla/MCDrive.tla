------------------------------ MODULE MCDrive ------------------------------
(***************************************************************************)
(* Couriers, restaurants and homes of the code, with the extreme and the   *)
(* neutral shifts of a home.                                               *)
(***************************************************************************)
EXTENDS Drive

MCStarts == {At(0, 4), At(8, 8), At(20, 12), At(12, 20)}
MCRestaurants == {At(4, 4), At(16, 4), At(12, 16)}
MCHomes == {At(20, 8), At(0, 16), At(16, 20), At(8, 0), At(4, 12), At(12, 8)}
MCShifts == {-15, 0, 15}
=============================================================================
