---------------------------- MODULE MCTapBuffer ----------------------------
(* Instances of TapBuffer for TLC. *)
EXTENDS TapBuffer
=============================================================================
