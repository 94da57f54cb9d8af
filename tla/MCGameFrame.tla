---------------------------- MODULE MCGameFrame ----------------------------
(* A sprite and an animated sprite of two strips, two layers and one layer   *)
(* too many, a texture that is loaded at most twice.                         *)
EXTENDS GameFrame
=============================================================================
