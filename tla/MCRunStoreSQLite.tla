-------------------------- MODULE MCRunStoreSQLite --------------------------
(* Instances of RunStoreSQLite for TLC. *)
EXTENDS RunStoreSQLite

OneLegacy == {<<4>>}
UpToTwoLegacy == {<<>>, <<4, 2>>}
=============================================================================
