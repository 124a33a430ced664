------------------------------ MODULE MCTravel ------------------------------
(***************************************************************************)
(* The whole city, tile by tile: the positions of scenario/city.go.        *)
(***************************************************************************)
EXTENDS Travel

MCStarts == {At(0, 4), At(8, 8), At(20, 12), At(12, 20),
             At(4, 16), At(16, 0), At(8, 20), At(20, 4)}

MCPlaces == {At(4, 4), At(16, 4), At(12, 16)} \cup
            {At(20, 8), At(0, 16), At(16, 20), At(8, 0),
             At(4, 12), At(12, 8), At(20, 16), At(8, 20)}
=============================================================================
