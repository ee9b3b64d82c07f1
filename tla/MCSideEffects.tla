--------------------------- MODULE MCSideEffects ---------------------------
(* Small instances of SideEffects for TLC. *)
EXTENDS SideEffects

OneBranch == {1}
OneType   == {1}
=============================================================================
