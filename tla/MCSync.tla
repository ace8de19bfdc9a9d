------------------------------- MODULE MCSync -------------------------------
(* Small instances of the replay engine: a parent and its dependent, a      *)
(* shift with a sale and the cash-up that waits for both, two operations    *)
(* that wait for each other, and a guest, a booking and its charge, each     *)
(* behind the one before.                                                   *)
EXTENDS SyncQueue, TLC
CONSTANTS p, c, s
FamilyOps == {p, c}
FamilyDeps == p :> {} @@ c :> {p}
ChainOps == {p, c, s}
ChainDeps == p :> {} @@ s :> {p} @@ c :> {p, s}
ThreeDeep == p :> {} @@ s :> {p} @@ c :> {s}
CycleDeps == p :> {c} @@ c :> {p}
=============================================================================
