------------------------------- MODULE MCMesh -------------------------------
(* Two desks, of which the first reaches the server and reconciles twice,   *)
(* perhaps at once.  Each takes a booking for the same room and dates.  A    *)
(* commit is later than both, so a refresh may change who is first.         *)
EXTENDS MeshQueue, TLC
TwoBookings == {1, 2}
TwoHomes == 1 :> 1 @@ 2 :> 2
OneSlot == 1 :> 1 @@ 2 :> 1
BornInOrder == 1 :> 1 @@ 2 :> 3
FiledAfterBoth == 1 :> 4 @@ 2 :> 5
ThreeRuns == 1 :> {1, 2} @@ 2 :> {1}
=============================================================================
