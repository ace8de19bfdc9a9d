--------------------------- MODULE MCDurableFile ----------------------------
(* The empty queue and two others, as they follow one another.             *)
EXTENDS DurableFile
CONSTANTS empty, one, two
Arrays == {empty, one, two}
=============================================================================
