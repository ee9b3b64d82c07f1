----------------------------- MODULE MCKdsStream -----------------------------
(* Instances of KdsStream for TLC; every constant is a number of the cfg. *)
EXTENDS KdsStream
=============================================================================
