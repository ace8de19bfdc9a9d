------------------------------ MODULE MCFolio ------------------------------
(* Two users of a front desk, a charge attempted under three intents.       *)
EXTENDS FolioIntent, TLC
CONSTANTS i1, i2, i3, ana, ben, room
DeskIntents == {i1, i2, i3}
DeskCharges == {room}
DeskCharge == [i \in DeskIntents |-> room]
DeskUsers == {ana, ben}
DeskOwner == i1 :> ana @@ i2 :> ana @@ i3 :> ben
Same == Permutations({i1, i2})
=============================================================================
