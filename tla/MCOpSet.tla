------------------------------ MODULE MCOpSet ------------------------------
(* A small instance of OpSet: the actors are numbered in their order. *)
EXTENDS Cursors, TLC

CONSTANTS r1, r2

MCOwn == r1 :> <<1, 2>> @@ r2 :> <<3, 4>>

=============================================================================
